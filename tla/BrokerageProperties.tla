--------------------------- MODULE BrokerageProperties ---------------------------
(***************************************************************************)
(* What the handlers of Brokerage guarantee, and what they do not.          *)
(***************************************************************************)
EXTENDS Brokerage

Calls == {"sidToUid", "selectFromBankAccount", "selectFromAccountInfo",
          "reportBalance", "insertTradeHistory", "selectFromOwnedStock",
          "countOwnedStock", "selectFromAvgPrice", "upsertAvgPrice",
          "upsertOwnedStock", "changeAccount", "increaseBankAccount"}

Quotients == [num : Int, den : Int]
Locals == [bank : Banks \union {"none"}, price : Nat, owned : Int, avg : Int]
Replies == {"none", "success", "rejected", "error"}
Ledgers == [account : Int, bank : [Banks -> Int], shares : [Companies -> Int]]

TablesOK ==
    /\ account \in [Users -> Int]
    /\ bank \in [Users -> [Banks -> Int]]
    /\ holding \subseteq Users \X Companies
    /\ owned \in [Users -> [Companies -> Int]]
    /\ avg \in [Users -> [Companies -> Quotients]]
    /\ history \in [Users -> Nat]
ConnectionOK == txn \in Workers \union {Free} /\ connected \in BOOLEAN
HandlersOK ==
    /\ pc \in [Workers -> Calls \union {"idle"}]
    /\ req \in [Workers -> Requests \union {NoRequest}]
    /\ local \in [Workers -> Locals]
    /\ reply \in [Workers -> Replies]
    /\ started \in Nat
    /\ done \in [Workers -> SUBSET Calls]
    /\ settled \in [Users -> Ledgers]

\* Every variable keeps its type: balances and counts are numbers of either
\* sign (the schema has no CHECK constraint), and a worker is idle or at a call.
TypeOK == TablesOK /\ ConnectionOK /\ HandlersOK

-----------------------------------------------------------------------------
\* The writes of a complete request that find a row: the UPDATE of the balance
\* of a user without one changes nothing, and nobody notices.
Effects(r) ==
    IF r.user \in Orphans THEN Writes(r.kind) \ {"changeAccount"} ELSE Writes(r.kind)

\* What the client is told is what the tables say. "Successfully deposited",
\* "Purchased" and the like are answered only once every write of the request
\* is committed, but for the one to a balance row that does not exist, and a
\* refusal ("Invalid Amount", "You're lacking money!", "You're lacking stocks!")
\* only when none was.
ReplyIsTruthful ==
    \A p \in Workers :
        /\ reply[p] = "success" => done[p] = Effects(req[p])
        /\ reply[p] = "rejected" => done[p] = {}

InCodeOrder(p) ==
    LET kind == req[p].kind
        wrote(call) == call \in done[p]
    IN  /\ kind \in Transfers /\ wrote("increaseBankAccount")
              => wrote("changeAccount") \/ req[p].user \in Orphans
        /\ kind = "buy" /\ wrote("changeAccount") => wrote("upsertOwnedStock")
        /\ kind = "buy" /\ wrote("upsertOwnedStock") => wrote("upsertAvgPrice")
        /\ kind = "sell" /\ wrote("changeAccount") => wrote("upsertOwnedStock")
        /\ wrote("upsertOwnedStock") => wrote("insertTradeHistory")

\* A request that fails leaves a prefix of its writes, in the order the code
\* makes them: the bank's side of a transfer never moves before the user's cash
\* (if there is a row to hold it), a purchase is never paid before the shares are
\* there, proceeds of a sale never before the shares are gone, and no shares move
\* without a row in trade_history.
WritesInCodeOrder == \A p \in Workers : InCodeOrder(p)

\* What the writes of its request that are done came to, for each worker.
Money == [p \in Workers |-> IfDone(p, "changeAccount", AccountDelta(p))]
Moved == [p \in Workers |-> IfDone(p, "increaseBankAccount", BankDelta(p))]
Delivered == [p \in Workers |-> IfDone(p, "upsertOwnedStock", SharesDelta(p))]
Recorded == [p \in Workers |-> IfDone(p, "insertTradeHistory", 1)]

Writers(u, kinds) ==
    {p \in Workers : done[p] # {} /\ req[p].user = u /\ req[p].kind \in kinds}

\* Whatever the order of the rows of the bank query, a transfer that names one
\* of the user's accounts moves the money of that one.
BankAsNamed(p) ==
    "increaseBankAccount" \in done[p] /\ req[p].bank \in Banks => local[p].bank = req[p].bank

\* The tables hold exactly what the writes of all requests, whole or torn, add
\* up to: the increments of concurrent requests are never lost, none is made
\* twice, and each reaches the user, the company and, when it is one of the
\* user's, the bank account the request named.
BooksBalance ==
    /\ \A u \in Users :
        /\ account[u] = settled[u].account
                         + SumFunctionOnSet(Money, Writers(u, Transfers \union Trades))
        /\ \A b \in Banks :
               bank[u][b] = OpeningBalance + settled[u].bank[b]
                 + SumFunctionOnSet(Moved, {p \in Writers(u, Transfers) : local[p].bank = b})
        /\ \A c \in Companies :
               owned[u][c] = settled[u].shares[c]
                 + SumFunctionOnSet(Delivered,
                                    {p \in Writers(u, Trades) : req[p].company = c})
    /\ \A p \in Workers : BankAsNamed(p)

-----------------------------------------------------------------------------
\* Nobody's cash, bank account or share count goes below zero: what the checks
\* of the handlers ("You're lacking money!", "You're lacking stocks!") are for, and
\* what one thread keeps as long as no amount is negative.
NoOverdraft ==
    \A u \in Users :
        /\ account[u] >= 0
        /\ \A b \in Banks : bank[u][b] >= 0
        /\ \A c \in Companies : owned[u][c] >= 0

\* The write of a deposit or a withdrawal of a negative amount: the check, which
\* only compares the amount with a balance, lets it pass, whatever it takes from
\* the side it is meant to give to.
Reverses(p, kind, u) ==
    /\ req[p].kind = kind /\ req[p].amount < 0 /\ req[p].user = u
    /\ done'[p] # done[p]

\* What a step takes from a user leaves nothing below zero, unless it reverses.
TakesChecked ==
    \A u \in Users :
        /\ account'[u] < account[u] =>
             account'[u] >= 0 \/ \E p \in Workers : Reverses(p, "deposit", u)
        /\ \A b \in Banks : bank'[u][b] < bank[u][b] =>
             bank'[u][b] >= 0 \/ \E p \in Workers : Reverses(p, "withdraw", u)
        /\ \A c \in Companies : owned'[u][c] < owned[u][c] => owned'[u][c] >= 0

\* With one thread the checks hold until the write: nothing that is taken from a
\* user leaves cash, a bank account or a share count below zero, except that a
\* negative deposit takes cash, and a negative withdrawal bank money, unchecked.
ChecksHold == [][TakesChecked]_vars

\* How far below zero a user can get when several threads serve the same user:
\* every thread but one may act on a balance that is already spent, and every
\* request so far may have been a negative transfer. No sale is negative: /trade
\* does check the sign.
Rivals == Cardinality(Workers) - 1
LargestAmount == Max({0} \union Amounts)
LargestReversal == Max({0} \union {-amount : amount \in Amounts})
LargestPurchase == Max({0} \union {shares * price : shares \in Shares, price \in Prices})
LargestDebit == Max({LargestAmount, LargestPurchase})
LargestSale == Max({0} \union Shares)
OverdraftBound ==
    \A u \in Users :
        /\ account[u] >= -(Rivals * LargestDebit) - started * LargestReversal
        /\ \A b \in Banks :
               bank[u][b] >= -(Rivals * LargestAmount) - started * LargestReversal
        /\ \A c \in Companies : owned[u][c] >= -(Rivals * LargestSale)

\* An average price is a proper quotient that is never above the highest price
\* of a share, and below the lowest by less than a dollar: selectFromAvgPrice
\* reads it through an int, and however many purchases average over such a
\* truncated average, the loss does not add up. It holds while no share count is
\* below zero: with one thread, or when nobody sells, also when two purchases
\* average over what the other has already changed.
LargestPrice == Max({0} \union Prices)
LowestPrice == WholeDollars([num |-> Min(Prices), den |-> 1])
AverageWithinPrices ==
    \A u \in Users, c \in Companies :
        LET q == avg[u][c]
        IN  /\ q.den > 0 /\ q.num <= q.den * LargestPrice
            /\ q # NoAverage => q.num >= q.den * LowestPrice

-----------------------------------------------------------------------------
\* With the writes of the request in progress taken out, the tables of a server
\* with one thread and a sound connection are those of an exchange whose
\* transfers and trades are atomic.
InProgress(u, kinds) ==
    {p \in Workers : pc[p] # "idle" /\ req[p].kind \in kinds /\ req[p].user = u}
WholeAccount == [u \in Users |->
    account[u] - SumFunctionOnSet(Money, InProgress(u, Transfers \union Trades))]
WholeBank == [u \in Users |-> [b \in Banks |->
    bank[u][b] - SumFunctionOnSet(Moved, {p \in InProgress(u, Transfers) : local[p].bank = b})]]
WholeOwned == [u \in Users |-> [c \in Companies |->
    owned[u][c]
      - SumFunctionOnSet(Delivered, {p \in InProgress(u, Trades) : req[p].company = c})]]
WholeHistory == [u \in Users |->
    history[u] - SumFunctionOnSet(Recorded, InProgress(u, Trades))]

Promise == INSTANCE Exchange WITH
    account <- WholeAccount, bank <- WholeBank, owned <- WholeOwned, history <- WholeHistory
ImplementsExchange == Promise!Spec
==================================================================================
