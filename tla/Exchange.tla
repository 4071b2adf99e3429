--------------------------------- MODULE Exchange ---------------------------------
(***************************************************************************)
(* What the platform promises a user: a transfer or a trade happens as a    *)
(* whole or not at all, and only when the account or the shares it is       *)
(* checked against are enough. One action per kind of request; a refused    *)
(* request is a stuttering step. A negative amount passes even the check of  *)
(* an empty account, and is then taken from the other side.                 *)
(***************************************************************************)
EXTENDS Integers

CONSTANTS Users, Companies, Banks, Amounts, Shares, Prices, OpeningBalance

VARIABLES
    account,  \* cash of a user on the platform
    bank,     \* money of a user at each bank
    owned,    \* shares of each company a user owns
    history   \* number of trades a user has made

vars == <<account, bank, owned, history>>

Init ==
    /\ account = [u \in Users |-> 0]
    /\ bank = [u \in Users |-> [b \in Banks |-> OpeningBalance]]
    /\ owned = [u \in Users |-> [c \in Companies |-> 0]]
    /\ history = [u \in Users |-> 0]

Deposit(u, b, amount) ==
    /\ bank[u][b] >= amount
    /\ bank' = [bank EXCEPT ![u][b] = @ - amount]
    /\ account' = [account EXCEPT ![u] = @ + amount]
    /\ UNCHANGED <<owned, history>>

Withdraw(u, b, amount) ==
    /\ account[u] >= amount
    /\ account' = [account EXCEPT ![u] = @ - amount]
    /\ bank' = [bank EXCEPT ![u][b] = @ + amount]
    /\ UNCHANGED <<owned, history>>

Buy(u, c, amount, price) ==
    /\ account[u] >= amount * price
    /\ account' = [account EXCEPT ![u] = @ - amount * price]
    /\ owned' = [owned EXCEPT ![u][c] = @ + amount]
    /\ history' = [history EXCEPT ![u] = @ + 1]
    /\ UNCHANGED bank

Sell(u, c, amount, price) ==
    /\ owned[u][c] >= amount
    /\ owned' = [owned EXCEPT ![u][c] = @ - amount]
    /\ account' = [account EXCEPT ![u] = @ + amount * price]
    /\ history' = [history EXCEPT ![u] = @ + 1]
    /\ UNCHANGED bank

Next ==
    \E u \in Users :
        \/ \E b \in Banks, amount \in Amounts : Deposit(u, b, amount) \/ Withdraw(u, b, amount)
        \/ \E c \in Companies, amount \in {n \in Shares : n > 0}, price \in Prices :
               Buy(u, c, amount, price) \/ Sell(u, c, amount, price)

Spec == Init /\ [][Next]_vars
===================================================================================
