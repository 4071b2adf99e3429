----------------------------- MODULE OverdraftProofs -----------------------------
(***************************************************************************)
(* How far below zero concurrent requests of one user, and transfers of     *)
(* negative amounts, can push a balance, for any number of threads.         *)
(***************************************************************************)
EXTENDS LedgerProofs, FunctionTheorems

-----------------------------------------------------------------------------
(* The largest debits. *)

\* No sale is of more shares than LargestSale.
LEMMA LargestSaleIs == LargestSale \in Nat /\ \A n \in Shares : n <= LargestSale
BY LargestOf, NumbersAssumption, MoneyAssumption DEF LargestSale

\* No purchase is worth more than LargestPurchase.
LEMMA LargestPurchaseIs ==
    /\ LargestPurchase \in Nat
    /\ \A n \in Shares, price \in Prices : n * price <= LargestPurchase
<1> DEFINE S == {n * price : n \in Shares, price \in Prices}
           D == Shares \X Prices
           f == [x \in D |-> x[1] * x[2]]
<1>1. IsFiniteSet(D)
  BY NumbersAssumption, FS_Product
<1>2. f \in Surjection(D, S)
  <2>1. f \in [D -> S]
    OBVIOUS
  <2>2. \A y \in S : \E x \in D : f[x] = y
    <3> SUFFICES ASSUME NEW n \in Shares, NEW price \in Prices
                 PROVE  \E x \in D : f[x] = n * price
      OBVIOUS
    <3>1. <<n, price>> \in D /\ f[<<n, price>>] = n * price
      OBVIOUS
    <3> QED
      BY <3>1
  <2> QED
    BY <2>1, <2>2 DEF Surjection
<1>3. IsFiniteSet(S)
  BY <1>1, <1>2, FS_Surjection
<1>4. S \subseteq Int
  BY MoneyAssumption
<1>5. \A n \in Shares, price \in Prices : n * price \in S
  OBVIOUS
<1>6. LargestPurchase = Max({0} \union S)
  BY DEF LargestPurchase
<1> HIDE DEF S
<1> QED
  BY <1>3, <1>4, <1>5, <1>6, LargestOf

\* Neither a withdrawal nor a purchase takes more than LargestDebit.
LEMMA LargestDebitIs ==
    /\ LargestDebit \in Nat
    /\ LargestAmount <= LargestDebit /\ LargestPurchase <= LargestDebit
<1> DEFINE S == {LargestAmount, LargestPurchase}
<1>1. S \subseteq Int /\ IsFiniteSet(S) /\ S # {}
  <2>1. IsFiniteSet({LargestAmount} \union {LargestPurchase})
    BY FS_Singleton, FS_AddElement
  <2>2. S = {LargestAmount} \union {LargestPurchase}
    OBVIOUS
  <2> QED
    BY <2>1, <2>2, LargestAmountIs, LargestPurchaseIs
<1>2. Max(S) \in S /\ \A x \in S : x <= Max(S)
  <2> HIDE DEF S
  <2> QED
    BY ONLY <1>1, MaxIsBound
<1> QED
  BY <1>2, LargestAmountIs, LargestPurchaseIs DEF LargestDebit


-----------------------------------------------------------------------------
(* Who may still act on a balance: the threads past their check of it. *)

HoldsCash(p, u) ==
    /\ \/ req[p].kind = "withdraw" /\ req[p].amount >= 0 /\ pc[p] = "changeAccount"
       \/ req[p].kind = "buy" /\ pc[p] \in PurchaseCalls
    /\ req[p].user = u
HoldsBank(p, u, b) ==
    /\ req[p].kind = "deposit" /\ req[p].amount >= 0
    /\ pc[p] \in {"changeAccount", "increaseBankAccount"}
    /\ req[p].user = u /\ local[p].bank = b
HoldsShares(p, u, c) ==
    /\ req[p].kind = "sell" /\ pc[p] \in {"insertTradeHistory", "upsertOwnedStock"}
    /\ req[p].user = u /\ req[p].company = c

CashHolders(u) == {p \in Workers : HoldsCash(p, u)}
BankHolders(u, b) == {p \in Workers : HoldsBank(p, u, b)}
ShareHolders(u, c) == {p \in Workers : HoldsShares(p, u, c)}

CashNeeds == [p \in Workers |-> Worth(p)]
ShareNeeds == [p \in Workers |-> req[p].amount]

(* What negative transfers may have taken: nothing checks them, but each takes  *)
(* once. The transfers still to reach a side have not taken anything from it.   *)

CashPending ==
    {p \in Workers : /\ req[p].kind \in Transfers
                     /\ pc[p] \in {"sidToUid", "selectFromBankAccount",
                                  "selectFromAccountInfo", "changeAccount"}}
BankPending == {p \in Workers : req[p].kind \in Transfers /\ pc[p] # "idle"}
Busy == {p \in Workers : pc[p] # "idle"}

Taken(n, pending) == (n - Cardinality(pending)) * LargestReversal
TakenCash == Taken(started, CashPending)
TakenBank == Taken(started, BankPending)

\* A balance no thread has checked is down by at most one debit for each rival.
\* When threads have, one of them still finds what it needs but for the debits
\* of the threads that are not among them.
Backed(balance, holders, needs, largest) ==
    /\ holders = {} => balance >= -(Rivals * largest)
    /\ holders # {} =>
         \E p \in holders :
            balance - needs[p] >= -((Cardinality(Workers) - Cardinality(holders)) * largest)

\* A trade past its session is of a positive number of shares at a price read.
TradeSound(p) ==
    pc[p] \notin {"idle", "sidToUid"} /\ req[p].kind \in Trades =>
        req[p].amount > 0 /\ local[p].price \in Prices

\* No thread serves a request that was not counted.
CountedInv == Cardinality(Busy) <= started

BackedInv ==
    /\ CountedInv
    /\ \A p \in Workers : TradeSound(p)
    /\ \A u \in Users :
         /\ Backed(account[u] + TakenCash, CashHolders(u), CashNeeds, LargestDebit)
         /\ \A b \in Banks :
              Backed(bank[u][b] + TakenBank, BankHolders(u, b), CashNeeds, LargestAmount)
         /\ \A c \in Companies :
              Backed(owned[u][c], ShareHolders(u, c), ShareNeeds, LargestSale)

\* What a step of a thread may do to a balance: credit it, check it, keep holding
\* it, debit what it needs, or let go of it.
Fair(p, x, x1, H, H1, need, need1) ==
    \/ p \notin H1 /\ x1 >= x
    \/ p \notin H /\ p \in H1 /\ x1 >= x /\ x1 >= need1
    \/ p \in H /\ p \in H1 /\ x1 >= x /\ need1 = need
    \/ p \in H /\ p \notin H1 /\ x1 >= x - need

\* A step that is fair to a balance leaves it backed.
LEMMA BackedMoves ==
    ASSUME NEW x \in Int, NEW x1 \in Int, NEW H \in SUBSET Workers, NEW H1 \in SUBSET Workers,
           NEW needs, NEW needs1, NEW L \in Nat, NEW p \in Workers,
           \A q \in H : needs[q] \in Nat /\ needs[q] <= L,
           \A q \in H1 : needs1[q] \in Nat /\ needs1[q] <= L,
           \A q \in Workers \ {p} : (q \in H1 <=> q \in H) /\ needs1[q] = needs[q],
           Fair(p, x, x1, H, H1, needs[p], needs1[p]), Backed(x, H, needs, L)
    PROVE  Backed(x1, H1, needs1, L)
<1> DEFINE N == Cardinality(Workers)
           h == Cardinality(H)
           h1 == Cardinality(H1)
           Floor(k) == -((N - k) * L)
<1>1. /\ IsFiniteSet(H) /\ IsFiniteSet(H1)
      /\ N \in Nat /\ h \in Nat /\ h1 \in Nat /\ h <= N /\ h1 <= N
      /\ (h = 0 <=> H = {}) /\ (h1 = 0 <=> H1 = {})
  BY WorkersAssumption, FS_Subset, FS_CardinalityType, FS_EmptySet
<1>2. \A k \in Int : Floor(k) \in Int /\ Floor(k - 1) = Floor(k) - L
  <2> SUFFICES ASSUME NEW k \in Int PROVE Floor(k) \in Int /\ Floor(k - 1) = Floor(k) - L
    OBVIOUS
  <2> DEFINE m == N - k
  <2>1. m \in Int /\ N - (k - 1) = m + 1
    BY <1>1
  <2> HIDE DEF m, N
  <2>2. (m + 1) * L = m * L + L /\ m * L \in Int
    BY <2>1, OneMore
  <2> QED
    BY <2>1, <2>2 DEF m
<1>3. \A k \in Int : k <= N => Floor(k) <= 0
  <2> SUFFICES ASSUME NEW k \in Int, k <= N PROVE Floor(k) <= 0
    OBVIOUS
  <2>1. N - k \in Nat
    BY <1>1
  <2>2. (N - k) * L \in Nat
    BY <2>1
  <2> QED
    BY <2>2
<1>4. /\ H = {} => x >= Floor(1)
      /\ H # {} => \E q \in H : x - needs[q] >= Floor(h)
  BY DEF Backed, Rivals
<1>5. SUFFICES /\ H1 = {} => x1 >= Floor(1)
               /\ H1 # {} => \E q \in H1 : x1 - needs1[q] >= Floor(h1)
  BY DEF Backed, Rivals
<1> HIDE DEF N, h, h1, Floor
<1>6. CASE p \notin H /\ p \notin H1 /\ x1 >= x
  <2>1. H1 = H /\ h1 = h
    BY <1>6 DEF h, h1
  <2>2. CASE H = {}
    BY <1>2, <1>4, <1>6, <2>1, <2>2
  <2>3. CASE H # {}
    <3>1. PICK q \in H : x - needs[q] >= Floor(h)
      BY <1>4, <2>3
    <3>2. needs1[q] = needs[q] /\ needs[q] \in Int /\ Floor(h) \in Int
      BY <1>1, <1>2, <1>6, <3>1
    <3>3. x1 - needs1[q] >= Floor(h1)
      BY <1>6, <2>1, <3>1, <3>2
    <3> QED
      BY <2>1, <2>3, <3>3
  <2> QED
    BY <2>2, <2>3
<1>7. CASE p \in H /\ p \notin H1 /\ (x1 >= x \/ x1 >= x - needs[p])
  <2>1. H1 = H \ {p} /\ h1 = h - 1
    <3>1. H1 = H \ {p}
      BY <1>7
    <3> QED
      BY <1>1, <1>7, <3>1, FS_RemoveElement DEF h, h1
  <2>2. PICK q \in H : x - needs[q] >= Floor(h)
    BY <1>4, <1>7
  <2>3. /\ needs[q] \in Int /\ 0 <= needs[q] /\ needs[p] \in Int /\ needs[p] <= L
        /\ Floor(h) \in Int /\ Floor(h1) = Floor(h) - L
    BY <1>1, <1>2, <1>7, <2>1
  <2>4. CASE H1 = {}
    <3>1. h = 1 /\ q = p
      BY <1>1, <2>1, <2>2, <2>4
    <3> QED
      BY <1>7, <2>2, <2>3, <2>4, <3>1
  <2>5. CASE H1 # {} /\ (q = p \/ x1 >= x)
    <3>1. PICK r \in H1 : TRUE
      BY <2>5
    <3>2. needs1[r] \in Int /\ needs1[r] <= L
      BY <3>1
    <3>3. x1 - needs1[r] >= Floor(h1)
      BY <1>7, <2>2, <2>3, <2>5, <3>2
    <3> QED
      BY <2>5, <3>3
  <2>6. CASE q # p /\ x1 >= x - needs[p]
    <3>1. q \in H1 /\ needs1[q] = needs[q]
      BY <2>1, <2>6
    <3>2. x1 - needs1[q] >= Floor(h1)
      BY <2>2, <2>3, <2>6, <3>1
    <3> QED
      BY <3>1, <3>2
  <2> QED
    BY <1>7, <2>4, <2>5, <2>6
<1>8. CASE p \notin H /\ p \in H1 /\ x1 >= x /\ x1 >= needs1[p]
  <2>1. Floor(h1) <= 0 /\ Floor(h1) \in Int /\ needs1[p] \in Int
    BY <1>1, <1>2, <1>3, <1>8
  <2>2. x1 - needs1[p] >= Floor(h1)
    BY <1>8, <2>1
  <2> QED
    BY <1>8, <2>2
<1>9. CASE p \in H /\ p \in H1 /\ x1 >= x /\ needs1[p] = needs[p]
  <2>1. H1 = H /\ h1 = h
    BY <1>9 DEF h, h1
  <2>2. PICK q \in H : x - needs[q] >= Floor(h)
    BY <1>4, <1>9
  <2>3. needs1[q] = needs[q] /\ needs[q] \in Int /\ Floor(h) \in Int
    BY <1>1, <1>2, <1>9
  <2>4. x1 - needs1[q] >= Floor(h1)
    BY <1>9, <2>1, <2>2, <2>3
  <2> QED
    BY <1>9, <2>1, <2>2, <2>4
<1> QED
  BY <1>6, <1>7, <1>8, <1>9 DEF Fair

\* A backed balance is within the bound.
LEMMA BackedIsBounded ==
    ASSUME NEW x \in Int, NEW H \in SUBSET Workers, NEW needs, NEW L \in Nat,
           \A q \in H : needs[q] \in Nat, Backed(x, H, needs, L)
    PROVE  x >= -(Rivals * L)
<1>1. CASE H = {}
  BY <1>1 DEF Backed
<1>2. CASE H # {}
  <2> DEFINE N == Cardinality(Workers)
             h == Cardinality(H)
             a == N - h
             b == N - 1
  <2>1. /\ IsFiniteSet(H) /\ N \in Nat /\ h \in Nat /\ h <= N /\ h # 0
    BY <1>2, WorkersAssumption, FS_Subset, FS_CardinalityType, FS_EmptySet
  <2>2. PICK q \in H : x - needs[q] >= -(a * L)
    BY <1>2 DEF Backed
  <2>3. a \in Nat /\ b \in Nat /\ a <= b
    BY <2>1
  <2> HIDE DEF N, h, a, b
  <2>4. a * L <= b * L /\ a * L \in Int /\ b * L \in Int
    BY <2>3
  <2>5. needs[q] \in Nat
    BY <2>2
  <2>6. x >= -(b * L)
    BY <2>2, <2>4, <2>5
  <2> QED
    BY <2>6 DEF Rivals, b, N
<1> QED
  BY <1>1, <1>2


-----------------------------------------------------------------------------
(* What a step of a handler does to the balances, and where it goes. *)

Quiet == UNCHANGED <<account, bank, owned>>
Goes(p, from, to) ==
    Quiet /\ pc[p] = from /\ pc'[p] = to /\ local'[p].price = local[p].price

Ends(p) == Quiet /\ pc'[p] = "idle"
Begins(p) ==
    /\ Quiet /\ pc[p] = "sidToUid" /\ pc'[p] = FirstCall(req[p].kind)
    /\ req[p].kind \in Trades => req[p].amount > 0 /\ local'[p].price \in Prices
MovesMoney(p) ==
    \/ /\ req[p].kind = "deposit"
       /\ Goes(p, "selectFromBankAccount", "changeAccount")
       /\ bank[req[p].user][local'[p].bank] >= Worth(p)
    \/ /\ req[p].kind = "withdraw"
       /\ Goes(p, "selectFromBankAccount", "selectFromAccountInfo")
    \/ /\ req[p].kind = "withdraw"
       /\ Goes(p, "selectFromAccountInfo", "changeAccount")
       /\ account[req[p].user] >= Worth(p)
Buys(p) ==
    /\ req[p].kind = "buy"
    /\ \/ /\ Goes(p, "selectFromAccountInfo", "insertTradeHistory")
          /\ account[req[p].user] >= Worth(p)
       \/ Goes(p, "insertTradeHistory", "selectFromOwnedStock")
       \/ Goes(p, "selectFromOwnedStock", "selectFromAvgPrice")
       \/ Goes(p, "selectFromAvgPrice", "upsertAvgPrice")
       \/ Goes(p, "upsertAvgPrice", "upsertOwnedStock")
Sells(p) ==
    /\ req[p].kind = "sell"
    /\ \/ Goes(p, "selectFromOwnedStock", "countOwnedStock")
       \/ /\ Goes(p, "countOwnedStock", "insertTradeHistory")
          /\ owned[req[p].user][req[p].company] >= req[p].amount
       \/ Goes(p, "insertTradeHistory", "upsertOwnedStock")
Delivers(p) ==
    /\ req[p].kind \in Trades /\ pc[p] = "upsertOwnedStock"
    /\ pc'[p] \in {"changeAccount", "idle"} /\ local'[p].price = local[p].price
    /\ owned' = [owned EXCEPT ![req[p].user][req[p].company] = @ + SharesDelta(p)]
    /\ UNCHANGED <<account, bank>>
Pays(p) ==
    /\ req[p].kind \in Transfers \union Trades /\ pc[p] = "changeAccount"
    /\ pc'[p] \in {IF req[p].kind \in Transfers THEN "increaseBankAccount"
                   ELSE "reportBalance", "idle"}
    /\ local' = local
    /\ account' = IF req[p].user \notin Orphans
                  THEN [account EXCEPT ![req[p].user] = @ + AccountDelta(p)] ELSE account
    /\ UNCHANGED <<bank, owned>>
Banked(p) ==
    /\ req[p].kind \in Transfers /\ pc[p] = "increaseBankAccount" /\ pc'[p] = "idle"
    /\ bank' = [bank EXCEPT ![req[p].user][local[p].bank] = @ + BankDelta(p)]
    /\ local' = local
    /\ UNCHANGED <<account, owned>>

\* The steps of a handler, told apart by what they do to the balances.
LEMMA WorkSteps ==
    ASSUME TypeInv, BookingInv, NEW p \in Workers, Work(p)
    PROVE  \/ Quiet /\ pc'[p] = pc[p] /\ local' = local
           \/ Ends(p) \/ Begins(p) \/ MovesMoney(p) \/ Buys(p) \/ Sells(p)
           \/ Delivers(p) \/ Pays(p) \/ Banked(p)
<1>0. /\ pc \in [Workers -> Calls \union {"idle"}] /\ local \in [Workers -> Locals]
      /\ Booking(p)
  BY DEF TypeInv, TypeOK, HandlersOK, BookingInv
<1>1. \A outcome : Answer(p, outcome) => pc'[p] = "idle"
  BY <1>0 DEF Answer
<1>2. \A next : Return(p, next) => pc'[p] = next
  BY <1>0 DEF Return
<1>3. \A writes, next : Commit(p, writes, next) => pc'[p] \in {next, "idle"} /\ local' = local
  BY <1>0 DEF Commit
<1>4. UNCHANGED tables => Quiet
  BY DEF tables, Quiet
<1>5. CASE Open(p)
  BY <1>4, <1>5 DEF Open
<1>6. CASE Refused(p) \/ Aborted(p) \/ ReportBalance(p)
  BY <1>1, <1>4, <1>6 DEF Refused, Aborted, ReportBalance, Ends
<1>7. CASE SidToUid(p)
  <2>1. Calling(p, "sidToUid") /\ Quiet
    BY <1>4, <1>7 DEF SidToUid
  <2>2. \/ \E outcome : Answer(p, outcome)
        \/ /\ Return(p, FirstCall(req[p].kind))
           /\ req[p].kind \in Trades => req[p].amount > 0 /\ local'[p].price \in Prices
    BY <1>0, <1>7 DEF SidToUid, Locals
  <2> QED
    BY <1>1, <1>2, <2>1, <2>2 DEF Ends, Begins, Calling
<1>8. CASE SelectFromBankAccount(p)
  <2>1. pc[p] = "selectFromBankAccount" /\ Quiet
    BY <1>4, <1>8 DEF SelectFromBankAccount, Calling
  <2>2. CASE Answer(p, "error")
    BY <1>1, <2>1, <2>2 DEF Ends
  <2>3. CASE \E first, second \in Banks :
               LET chosen == IF req[p].bank = first THEN first ELSE second
               IN  /\ local' = [local EXCEPT ![p].bank = chosen]
                   /\ \/ req[p].kind = "withdraw" /\ Return(p, "selectFromAccountInfo")
                      \/ /\ req[p].kind = "deposit"
                         /\ IF bank[req[p].user][chosen] >= Worth(p)
                            THEN Return(p, "changeAccount")
                            ELSE Answer(p, "rejected")
    <3>1. PICK b \in Banks :
            /\ local' = [local EXCEPT ![p].bank = b]
            /\ \/ req[p].kind = "withdraw" /\ Return(p, "selectFromAccountInfo")
               \/ /\ req[p].kind = "deposit"
                  /\ IF bank[req[p].user][b] >= Worth(p)
                     THEN Return(p, "changeAccount")
                     ELSE Answer(p, "rejected")
      BY <2>3
    <3>2. local'[p].price = local[p].price /\ local'[p].bank = b
      BY <1>0, <3>1 DEF Locals
    <3> QED
      BY <1>1, <1>2, <2>1, <3>1, <3>2 DEF Ends, MovesMoney, Goes
  <2>4. \/ Answer(p, "error")
        \/ \E first, second \in Banks :
               LET chosen == IF req[p].bank = first THEN first ELSE second
               IN  /\ local' = [local EXCEPT ![p].bank = chosen]
                   /\ \/ req[p].kind = "withdraw" /\ Return(p, "selectFromAccountInfo")
                      \/ /\ req[p].kind = "deposit"
                         /\ IF bank[req[p].user][chosen] >= Worth(p)
                            THEN Return(p, "changeAccount")
                            ELSE Answer(p, "rejected")
    BY <1>8 DEF SelectFromBankAccount
  <2> QED
    BY <2>2, <2>3, <2>4
<1>9. CASE SelectFromAccountInfo(p)
  <2>1. Calling(p, "selectFromAccountInfo") /\ Quiet /\ local' = local
    BY <1>4, <1>9 DEF SelectFromAccountInfo
  <2>2. /\ req[p].kind \in {"withdraw", "buy"} /\ account[req[p].user] \in Int
        /\ req[p] \in Requests
    BY <2>1, CallFacts DEF Calls, CallsOf, TypeInv, TypeOK, TablesOK
  <2>3. Worth(p) \in Int
    BY <2>2, WorthType
  <2>4. \/ \E outcome : Answer(p, outcome)
        \/ /\ account[req[p].user] >= Worth(p)
           /\ Return(p, IF req[p].kind = "buy" THEN "insertTradeHistory" ELSE "changeAccount")
    BY <1>9, <2>2, <2>3 DEF SelectFromAccountInfo
  <2> QED
    BY <1>1, <1>2, <2>1, <2>2, <2>4 DEF Ends, MovesMoney, Buys, Goes, Calling
<1>10. CASE InsertTradeHistory(p)
  <2>1. /\ Calling(p, "insertTradeHistory") /\ Quiet
        /\ \E writes : Commit(p, writes, IF req[p].kind = "buy" THEN "selectFromOwnedStock"
                                         ELSE "upsertOwnedStock")
    BY <1>10 DEF InsertTradeHistory, Quiet
  <2>2. req[p].kind \in {"buy", "sell"}
    BY <2>1, CallFacts DEF Calls, CallsOf
  <2> QED
    BY <1>3, <2>1, <2>2 DEF Ends, Buys, Sells, Goes, Calling
<1>11. CASE SelectFromOwnedStock(p)
  <2>1. Calling(p, "selectFromOwnedStock") /\ Quiet
    BY <1>4, <1>11 DEF SelectFromOwnedStock
  <2>2. req[p].kind \in {"buy", "sell", "poll"}
    BY <2>1, CallFacts DEF Calls, CallsOf
  <2>3. local'[p].price = local[p].price
    BY <1>0, <1>11 DEF SelectFromOwnedStock, Locals
  <2>4. \/ req[p].kind = "buy" /\ Return(p, "selectFromAvgPrice")
        \/ req[p].kind = "sell" /\ Return(p, "countOwnedStock")
        \/ \E outcome : Answer(p, outcome)
    BY <1>11, <2>2 DEF SelectFromOwnedStock
  <2> QED
    BY <1>1, <1>2, <2>1, <2>3, <2>4 DEF Ends, Buys, Sells, Goes, Calling
<1>12. CASE CountOwnedStock(p)
  <2>1. Calling(p, "countOwnedStock") /\ Quiet /\ local' = local
    BY <1>4, <1>12 DEF CountOwnedStock
  <2>2. /\ req[p].kind = "sell" /\ req[p] \in Requests /\ req[p].user \in Users
    BY <2>1, CallFacts DEF Calls, CallsOf
  <2>3. owned[req[p].user][req[p].company] \in Int /\ req[p].amount \in Int
    BY <2>2, RequestFields DEF Trades, TypeInv, TypeOK, TablesOK
  <2>4. \/ \E outcome : Answer(p, outcome)
        \/ /\ owned[req[p].user][req[p].company] >= req[p].amount
           /\ Return(p, "insertTradeHistory")
    BY <1>12, <2>3 DEF CountOwnedStock
  <2> QED
    BY <1>1, <1>2, <2>1, <2>2, <2>4 DEF Ends, Sells, Goes, Calling
<1>13. CASE SelectFromAvgPrice(p)
  <2>1. Calling(p, "selectFromAvgPrice") /\ Quiet /\ Return(p, "upsertAvgPrice")
    BY <1>4, <1>13 DEF SelectFromAvgPrice
  <2>2. req[p].kind = "buy"
    BY <2>1, CallFacts DEF Calls, CallsOf
  <2>3. local'[p].price = local[p].price
    BY <1>0, <1>13 DEF SelectFromAvgPrice, Locals
  <2> QED
    BY <1>2, <2>1, <2>2, <2>3 DEF Buys, Goes, Calling
<1>14. CASE UpsertAvgPrice(p)
  <2>1. /\ Calling(p, "upsertAvgPrice") /\ Quiet
        /\ \E writes : Commit(p, writes, "upsertOwnedStock")
    BY <1>14 DEF UpsertAvgPrice, Quiet
  <2>2. req[p].kind = "buy"
    BY <2>1, CallFacts DEF Calls, CallsOf
  <2> QED
    BY <1>3, <2>1, <2>2 DEF Ends, Buys, Goes, Calling
<1>15. CASE UpsertOwnedStock(p)
  <2>1. /\ Calling(p, "upsertOwnedStock") /\ UNCHANGED <<account, bank>>
        /\ owned' = [owned EXCEPT ![req[p].user][req[p].company] = @ + SharesDelta(p)]
        /\ \E writes : Commit(p, writes, "changeAccount")
    BY <1>15 DEF UpsertOwnedStock
  <2>2. req[p].kind \in Trades
    BY <2>1, CallFacts DEF Calls, CallsOf, Trades
  <2> QED
    BY <1>3, <2>1, <2>2 DEF Delivers, Calling
<1>16. CASE ChangeAccount(p)
  <2> DEFINE next == IF req[p].kind \in Transfers THEN "increaseBankAccount"
                     ELSE "reportBalance"
  <2>1. /\ Calling(p, "changeAccount") /\ UNCHANGED <<bank, owned>>
        /\ account' = IF req[p].user \notin Orphans
                      THEN [account EXCEPT ![req[p].user] = @ + AccountDelta(p)] ELSE account
        /\ \E writes : Commit(p, writes, next)
    BY <1>16 DEF ChangeAccount
  <2>2. req[p].kind \in Transfers \union Trades
    BY <2>1, CallFacts DEF Calls, CallsOf, Transfers, Trades
  <2> QED
    BY <1>3, <2>1, <2>2 DEF Pays, Calling
<1>17. CASE IncreaseBankAccount(p)
  <2>1. /\ Calling(p, "increaseBankAccount") /\ UNCHANGED <<account, owned>>
        /\ bank' = [bank EXCEPT ![req[p].user][local[p].bank] = @ + BankDelta(p)]
        /\ \E writes : Commit(p, writes, "idle")
    BY <1>17 DEF IncreaseBankAccount
  <2>2. req[p].kind \in Transfers
    BY <2>1, CallFacts DEF Calls, CallsOf, Transfers
  <2>3. pc'[p] = "idle" /\ pc[p] = "increaseBankAccount" /\ local' = local
    BY <1>3, <2>1 DEF Calling
  <2> QED
    BY <2>1, <2>2, <2>3 DEF Banked
<1> QED
  BY <1>5, <1>6, <1>7, <1>8, <1>9, <1>10, <1>11, <1>12, <1>13, <1>14, <1>15, <1>16, <1>17
     DEF Work, Call


-----------------------------------------------------------------------------
(* Each step is fair to each balance. *)

SoundInv == \A p \in Workers : TradeSound(p)
NeedsTyped ==
    \A p \in Workers : pc[p] \notin {"idle", "sidToUid"} =>
        /\ req[p].kind \in Transfers =>
             /\ Worth(p) = req[p].amount /\ Worth(p) \in Int
             /\ Worth(p) <= LargestAmount /\ -Worth(p) <= LargestReversal
        /\ req[p].kind \in Trades =>
             /\ Worth(p) \in Nat /\ Worth(p) <= LargestPurchase
             /\ req[p].amount \in Nat /\ req[p].amount <= LargestSale

\* What a request past its session needs is within the largest debits.
LEMMA NeedsAreTyped == TypeInv /\ SoundInv => NeedsTyped
<1> SUFFICES ASSUME TypeInv, SoundInv, NEW p \in Workers, pc[p] \notin {"idle", "sidToUid"}
             PROVE  /\ req[p].kind \in Transfers =>
                         /\ Worth(p) = req[p].amount /\ Worth(p) \in Int
                         /\ Worth(p) <= LargestAmount /\ -Worth(p) <= LargestReversal
                    /\ req[p].kind \in Trades =>
                         /\ Worth(p) \in Nat /\ Worth(p) <= LargestPurchase
                         /\ req[p].amount \in Nat /\ req[p].amount <= LargestSale
  BY DEF NeedsTyped
<1>1. req[p] \in Requests
  BY DEF TypeInv, Serving
<1>2. CASE req[p].kind \in Transfers
  <2>1. req[p].amount \in Amounts /\ req[p].amount \in Int
    BY <1>1, <1>2, RequestFields
  <2>2. Worth(p) = req[p].amount
    BY <1>2 DEF Worth
  <2>3. req[p].kind \notin Trades
    BY <1>2 DEF Transfers, Trades
  <2> QED
    BY <2>1, <2>2, <2>3, LargestAmountIs, LargestReversalIs
<1>3. CASE req[p].kind \in Trades
  <2>1. req[p] \in TradeRequests /\ req[p].amount \in Int
    BY <1>1, <1>3, RequestFields
  <2>2. req[p].amount \in Shares /\ req[p].amount > 0 /\ local[p].price \in Prices
    BY <1>3, <2>1 DEF TradeRequests, SoundInv, TradeSound
  <2>3. req[p].kind \notin Transfers
    BY <1>3 DEF Transfers, Trades
  <2>4. Worth(p) = req[p].amount * local[p].price
    BY <1>3, <2>3 DEF Worth
  <2>5. req[p].amount \in Nat /\ local[p].price \in Nat
    <3>1. req[p].amount \in Nat
      BY <2>1, <2>2
    <3>2. local[p].price \in Nat
      BY <2>2, MoneyAssumption
    <3> QED
      BY <3>1, <3>2
  <2>6. req[p].amount * local[p].price \in Nat
    BY <2>5
  <2> QED
    BY <2>2, <2>3, <2>4, <2>5, <2>6, LargestSaleIs, LargestPurchaseIs
<1> QED
  BY <1>2, <1>3

\* The price is read once, with the check of the amount.
LEMMA WorkSound ==
    ASSUME TypeInv, BookingInv, SoundInv, NEW p \in Workers, Work(p)
    PROVE  TradeSound(p)'
<1>1. req' = req /\ TradeSound(p) /\ pc[p] # "idle"
  BY WorkOthers, WorkBusy DEF SoundInv
<1>2. CASE Quiet /\ pc'[p] = pc[p] /\ local' = local
  BY <1>1, <1>2 DEF TradeSound
<1>3. CASE Ends(p) \/ Begins(p) \/ Banked(p)
  BY <1>1, <1>3 DEF TradeSound, Ends, Begins, Banked
<1>4. CASE MovesMoney(p) \/ Buys(p) \/ Sells(p) \/ Delivers(p) \/ Pays(p)
  <2>1. pc[p] \notin {"idle", "sidToUid"} /\ local'[p].price = local[p].price
    BY <1>4 DEF MovesMoney, Buys, Sells, Delivers, Pays, Goes
  <2> QED
    BY <1>1, <2>1 DEF TradeSound
<1> QED
  BY <1>2, <1>3, <1>4, WorkSteps

\* A request keeps what it is worth once its price is read.
LEMMA NeedsKept ==
    ASSUME NEW p \in Workers, req' = req, local'[p].price = local[p].price
    PROVE  CashNeeds'[p] = CashNeeds[p] /\ ShareNeeds'[p] = ShareNeeds[p]
           /\ CashNeeds[p] = Worth(p) /\ ShareNeeds[p] = req[p].amount
BY WorthKept DEF CashNeeds, ShareNeeds

\* A transfer that reaches a side has what it can take counted there from then on.
LEMMA TakenGrows ==
    ASSUME NEW P \in SUBSET Workers, NEW P1 \in SUBSET Workers, NEW n \in Nat, NEW n1 \in Nat,
           NEW p \in Workers, P \ {p} = P1 \ {p},
           Cardinality(P) <= n, n1 >= n, p \in P1 /\ p \notin P => n1 >= n + 1
    PROVE  /\ Taken(n, P) \in Nat /\ Taken(n1, P1) \in Nat /\ Taken(n, P) <= n * LargestReversal
           /\ Taken(n1, P1) >= Taken(n, P)
           /\ p \in P /\ p \notin P1 => Taken(n1, P1) >= Taken(n, P) + LargestReversal
<1> DEFINE R == LargestReversal
           Q == P \ {p}
           k == n - Cardinality(P)
           k1 == n1 - Cardinality(P1)
<1>1. IsFiniteSet(P) /\ IsFiniteSet(P1) /\ IsFiniteSet(Q)
  BY WorkersAssumption, FS_Subset
<1>2. /\ Cardinality(P) \in Nat /\ Cardinality(P1) \in Nat /\ Cardinality(Q) \in Nat
      /\ Cardinality(P) = IF p \in P THEN Cardinality(Q) + 1 ELSE Cardinality(Q)
      /\ Cardinality(P1) = IF p \in P1 THEN Cardinality(Q) + 1 ELSE Cardinality(Q)
  <2>1. ASSUME NEW S \in SUBSET Workers, IsFiniteSet(S), S \ {p} = Q
        PROVE  Cardinality(S) = IF p \in S THEN Cardinality(Q) + 1 ELSE Cardinality(Q)
    <3>1. CASE p \in S
      BY <1>1, <2>1, <3>1, FS_RemoveElement, FS_CardinalityType
    <3>2. CASE p \notin S
      <4>1. S = Q
        BY <2>1, <3>2
      <4> QED
        BY <3>2, <4>1
    <3> QED
      BY <3>1, <3>2
  <2> QED
    BY <1>1, <2>1, FS_CardinalityType
<1>3. /\ k \in Nat /\ k1 \in Nat /\ k1 >= k /\ k <= n
      /\ p \in P /\ p \notin P1 => k1 >= k + 1
  BY <1>2
<1>4. R \in Nat /\ Taken(n, P) = k * R /\ Taken(n1, P1) = k1 * R
  BY LargestReversalIs DEF Taken
<1> HIDE DEF k, k1, R
<1>5. /\ k * R \in Nat /\ k1 * R \in Nat /\ k1 * R >= k * R /\ k * R <= n * R
      /\ (k + 1) * R = k * R + R
  BY <1>3, <1>4
<1>6. k1 >= k + 1 => k1 * R >= (k + 1) * R
  BY <1>3, <1>4
<1> QED
  BY <1>3, <1>4, <1>5, <1>6 DEF R

\* What a step does to what negative transfers may have taken.
TakenMoves(p) ==
    /\ TakenCash \in Nat /\ TakenCash' \in Nat /\ TakenCash' >= TakenCash
    /\ p \in CashPending /\ p \notin CashPending' => TakenCash' >= TakenCash + LargestReversal
    /\ TakenBank \in Nat /\ TakenBank' \in Nat /\ TakenBank' >= TakenBank
    /\ p \in BankPending /\ p \notin BankPending' => TakenBank' >= TakenBank + LargestReversal

\* A step of a handler has no more transfers under way.
LEMMA WorkPending ==
    ASSUME TypeInv, BookingInv, NEW p \in Workers, Work(p)
    PROVE  /\ p \in CashPending' => p \in CashPending
           /\ p \in BankPending' => p \in BankPending
<1>1. req' = req /\ pc[p] # "idle"
  BY WorkOthers, WorkBusy
<1>2. p \in BankPending' => p \in BankPending
  BY <1>1 DEF BankPending
<1>3. CASE Quiet /\ pc'[p] = pc[p] /\ local' = local
  BY <1>1, <1>2, <1>3 DEF CashPending
<1>4. CASE Ends(p) \/ Begins(p) \/ Banked(p) \/ Pays(p)
  BY <1>1, <1>2, <1>4 DEF CashPending, Ends, Begins, Banked, Pays
<1>5. CASE MovesMoney(p)
  BY <1>1, <1>2, <1>5 DEF CashPending, MovesMoney, Goes
<1>6. CASE Buys(p) \/ Sells(p) \/ Delivers(p)
  <2>1. req[p].kind \notin Transfers
    BY <1>6 DEF Buys, Sells, Delivers, Transfers, Trades
  <2> QED
    BY <1>1, <1>2, <2>1 DEF CashPending
<1> QED
  BY <1>2, <1>3, <1>4, <1>5, <1>6, WorkSteps

\* A step keeps the count of requests ahead of the transfers under way.
LEMMA StepTaken ==
    ASSUME TypeInv, TypeInv', BookingInv, CountedInv, NEW p \in Workers, Start(p) \/ Work(p)
    PROVE  CountedInv' /\ TakenMoves(p)
<1>1. Frame(p)
  BY WorkFrame
<1>2. started \in Nat /\ started' \in Nat
  BY DEF TypeInv, TypeOK, HandlersOK
<1>3. \A q \in Workers \ {p} : pc'[q] = pc[q] /\ req'[q] = req[q]
  BY <1>1 DEF Frame
<1>4. /\ CashPending \in SUBSET Busy /\ BankPending \in SUBSET Busy /\ Busy \in SUBSET Workers
      /\ CashPending' \in SUBSET Busy' /\ BankPending' \in SUBSET Busy'
      /\ Busy' \in SUBSET Workers
  BY DEF CashPending, BankPending, Busy
<1>5. /\ CashPending \ {p} = CashPending' \ {p} /\ BankPending \ {p} = BankPending' \ {p}
      /\ Busy \ {p} = Busy' \ {p}
  BY <1>3 DEF CashPending, BankPending, Busy
<1>6. /\ started' >= started
      /\ p \in CashPending' /\ p \notin CashPending => started' >= started + 1
      /\ p \in BankPending' /\ p \notin BankPending => started' >= started + 1
      /\ p \in Busy' /\ p \notin Busy => started' >= started + 1
  <2>1. CASE Start(p)
    BY <1>2, <2>1 DEF Start
  <2>2. CASE Work(p)
    <3>1. started' = started /\ p \in Busy
      BY <2>2, WorkOthers, WorkBusy DEF Busy
    <3> QED
      BY <1>2, <2>2, <3>1, WorkPending
  <2> QED
    BY <2>1, <2>2
<1>7. /\ IsFiniteSet(Busy) /\ IsFiniteSet(Busy')
      /\ Cardinality(CashPending) <= started /\ Cardinality(BankPending) <= started
  <2>1. IsFiniteSet(Busy) /\ IsFiniteSet(Busy')
    BY <1>4, WorkersAssumption, FS_Subset
  <2>2. \A S \in SUBSET Busy : Cardinality(S) <= started
    <3> SUFFICES ASSUME NEW S \in SUBSET Busy PROVE Cardinality(S) <= started
      OBVIOUS
    <3>1. Cardinality(S) <= Cardinality(Busy) /\ IsFiniteSet(S)
      BY <2>1, FS_Subset
    <3>2. Cardinality(S) \in Nat /\ Cardinality(Busy) \in Nat
      BY <2>1, <3>1, FS_CardinalityType
    <3> QED
      BY <1>2, <3>1, <3>2 DEF CountedInv
  <2> QED
    BY <1>4, <2>1, <2>2
<1>8. CountedInv'
  <2> DEFINE Q == Busy \ {p}
  <2>1. IsFiniteSet(Q) /\ Cardinality(Q) \in Nat /\ Cardinality(Busy) \in Nat
    BY <1>7, FS_Subset, FS_CardinalityType
  <2>2. /\ p \in Busy => Cardinality(Busy) = Cardinality(Q) + 1
        /\ p \notin Busy => Busy = Q
    BY <1>7, <2>1, FS_RemoveElement, FS_CardinalityType
  <2>3. /\ p \in Busy' => Cardinality(Busy') = Cardinality(Q) + 1
        /\ p \notin Busy' => Busy' = Q
    <3> DEFINE B1 == Busy'
    <3>1. Q = B1 \ {p} /\ IsFiniteSet(B1)
      BY <1>5, <1>7
    <3> HIDE DEF B1, Q
    <3>2. Cardinality(B1) \in Nat
      BY <3>1, FS_CardinalityType
    <3>3. p \in B1 => Cardinality(Q) = Cardinality(B1) - 1
      BY <3>1, FS_RemoveElement
    <3>4. p \notin B1 => B1 = Q
      BY <3>1
    <3>5. p \in B1 => Cardinality(B1) = Cardinality(Q) + 1
      BY <3>2, <3>3
    <3> QED
      BY <3>4, <3>5 DEF B1
  <2>4. Cardinality(Busy) <= started
    BY DEF CountedInv
  <2> HIDE DEF Q
  <2>5. Cardinality(Busy') <= started'
    BY <1>2, <1>6, <2>1, <2>2, <2>3, <2>4
  <2> QED
    BY <2>5 DEF CountedInv
<1>9. /\ TakenCash \in Nat /\ TakenCash' \in Nat /\ TakenCash' >= TakenCash
      /\ p \in CashPending /\ p \notin CashPending' =>
           TakenCash' >= TakenCash + LargestReversal
  <2> DEFINE P == CashPending
             P1 == CashPending'
  <2>1. P \in SUBSET Workers /\ P1 \in SUBSET Workers
    BY <1>4
  <2>2. /\ P \ {p} = P1 \ {p} /\ Cardinality(P) <= started
        /\ p \in P1 /\ p \notin P => started' >= started + 1
    BY <1>5, <1>6, <1>7
  <2> HIDE DEF P, P1
  <2>3. /\ Taken(started, P) \in Nat /\ Taken(started', P1) \in Nat
        /\ Taken(started', P1) >= Taken(started, P)
        /\ p \in P /\ p \notin P1 => Taken(started', P1) >= Taken(started, P) + LargestReversal
    BY ONLY p \in Workers, <1>2, <1>6, <2>1, <2>2, TakenGrows
  <2> QED
    BY <2>3 DEF TakenCash, P, P1, Taken
<1>10. /\ TakenBank \in Nat /\ TakenBank' \in Nat /\ TakenBank' >= TakenBank
       /\ p \in BankPending /\ p \notin BankPending' =>
            TakenBank' >= TakenBank + LargestReversal
  <2> DEFINE P == BankPending
             P1 == BankPending'
  <2>1. P \in SUBSET Workers /\ P1 \in SUBSET Workers
    BY <1>4
  <2>2. /\ P \ {p} = P1 \ {p} /\ Cardinality(P) <= started
        /\ p \in P1 /\ p \notin P => started' >= started + 1
    BY <1>5, <1>6, <1>7
  <2> HIDE DEF P, P1
  <2>3. /\ Taken(started, P) \in Nat /\ Taken(started', P1) \in Nat
        /\ Taken(started', P1) >= Taken(started, P)
        /\ p \in P /\ p \notin P1 => Taken(started', P1) >= Taken(started, P) + LargestReversal
    BY ONLY p \in Workers, <1>2, <1>6, <2>1, <2>2, TakenGrows
  <2> QED
    BY <2>3 DEF TakenBank, P, P1, Taken
<1> QED
  BY <1>8, <1>9, <1>10 DEF TakenMoves

\* A step of a handler is fair to the cash of every user.
LEMMA CashFair ==
    ASSUME TypeInv, BookingInv, SoundInv, NEW p \in Workers, Work(p), TakenMoves(p),
           NEW u \in Users
    PROVE  Fair(p, account[u] + TakenCash, account'[u] + TakenCash',
                CashHolders(u), CashHolders(u)', CashNeeds[p], CashNeeds'[p])
<1> DEFINE x == account[u] + TakenCash
           x1 == account'[u] + TakenCash'
           H == CashHolders(u)
           H1 == CashHolders(u)'
<1>1. /\ req' = req /\ pc[p] # "idle"
      /\ account \in [Users -> Int]
      /\ p \in H <=> HoldsCash(p, u)
      /\ p \in H1 <=> HoldsCash(p, u)'
  BY WorkOthers, WorkBusy DEF CashHolders, TypeInv, TypeOK, TablesOK
<1>2. local'[p].price = local[p].price =>
          CashNeeds'[p] = CashNeeds[p] /\ CashNeeds[p] = Worth(p)
  BY <1>1, NeedsKept
<1>3. NeedsTyped
  BY NeedsAreTyped
<1>4. account[u] \in Int /\ TakenCash \in Nat /\ TakenCash' \in Nat /\ TakenCash' >= TakenCash
  BY <1>1 DEF TakenMoves
<1>5. account'[u] = account[u] => x1 >= x /\ x1 >= account[u]
  BY <1>4
<1> SUFFICES Fair(p, x, x1, H, H1, CashNeeds[p], CashNeeds'[p])
  OBVIOUS
<1>6. (p \in H <=> p \in H1) /\ account' = account /\ local'[p].price = local[p].price =>
          Fair(p, x, x1, H, H1, CashNeeds[p], CashNeeds'[p])
  BY <1>2, <1>5 DEF Fair
<1>7. p \notin H1 /\ account' = account => Fair(p, x, x1, H, H1, CashNeeds[p], CashNeeds'[p])
  BY <1>5 DEF Fair
<1> HIDE DEF H, H1, x, x1
<1>8. CASE Quiet /\ pc'[p] = pc[p] /\ local' = local
  BY <1>1, <1>6, <1>8 DEF HoldsCash, Quiet
<1>9. CASE Ends(p) \/ Begins(p)
  <2>1. ~HoldsCash(p, u)' /\ account' = account
    <3>1. FirstCall(req[p].kind) \in PurchaseCalls => req[p].kind \notin {"buy", "withdraw"}
      BY DEF FirstCall, PurchaseCalls, Transfers
    <3> QED
      BY <1>1, <1>9, <3>1 DEF Ends, Begins, Quiet, HoldsCash, PurchaseCalls, FirstCall, Transfers
  <2> QED
    BY <1>1, <1>7, <2>1
<1>10. CASE MovesMoney(p)
  <2>1. account' = account /\ local'[p].price = local[p].price /\ ~HoldsCash(p, u)
    BY <1>10 DEF MovesMoney, Goes, Quiet, HoldsCash, PurchaseCalls
  <2>2. CASE HoldsCash(p, u)'
    <3>1. account[u] >= Worth(p) /\ Worth(p) \in Int
      BY <1>1, <1>3, <1>10, <2>2
         DEF MovesMoney, Goes, HoldsCash, NeedsTyped, Transfers, PurchaseCalls
    <3>2. x1 >= CashNeeds'[p] /\ x1 >= x
      BY <1>2, <1>4, <2>1, <3>1 DEF x, x1
    <3> QED
      BY <1>1, <2>1, <2>2, <3>2 DEF Fair
  <2> QED
    BY <1>1, <1>7, <2>1, <2>2
<1>11. CASE Buys(p)
  <2>1. account' = account /\ local'[p].price = local[p].price
    BY <1>11 DEF Buys, Goes, Quiet
  <2>2. CASE Goes(p, "selectFromAccountInfo", "insertTradeHistory") /\ HoldsCash(p, u)'
    <3>1. account[u] >= Worth(p) /\ Worth(p) \in Int /\ ~HoldsCash(p, u)
      BY <1>1, <1>3, <1>11, <2>2
         DEF Buys, Goes, HoldsCash, NeedsTyped, Trades, PurchaseCalls
    <3>2. x1 >= CashNeeds'[p] /\ x1 >= x
      BY <1>2, <1>4, <2>1, <3>1 DEF x, x1
    <3> QED
      BY <1>1, <2>2, <3>1, <3>2 DEF Fair
  <2>3. CASE ~Goes(p, "selectFromAccountInfo", "insertTradeHistory")
    <3>1. p \in H <=> p \in H1
      BY <1>1, <1>11, <2>3 DEF Buys, Goes, HoldsCash, PurchaseCalls
    <3> QED
      BY <1>6, <2>1, <3>1
  <2> QED
    BY <1>1, <1>7, <2>1, <2>2, <2>3
<1>12. CASE Sells(p)
  BY <1>1, <1>7, <1>12 DEF Sells, Goes, Quiet, HoldsCash
<1>13. CASE Delivers(p)
  <2>1. account' = account /\ local'[p].price = local[p].price
    BY <1>13 DEF Delivers
  <2>2. HoldsCash(p, u)' => HoldsCash(p, u)
    BY <1>1, <1>13 DEF Delivers, HoldsCash, PurchaseCalls, Trades
  <2> QED
    BY <1>1, <1>6, <1>7, <2>1, <2>2
<1>14. CASE Pays(p)
  <2>1. ~HoldsCash(p, u)'
    BY <1>1, <1>14 DEF Pays, HoldsCash, PurchaseCalls
  <2>2. CASE account'[u] = account[u]
    BY <1>1, <1>5, <2>1, <2>2 DEF Fair
  <2>3. CASE account'[u] # account[u]
    <3>1. req[p].user = u /\ account'[u] = account[u] + AccountDelta(p)
      BY <1>1, <1>14, <2>3 DEF Pays
    <3>2. CashNeeds[p] = Worth(p) /\ pc[p] = "changeAccount"
      BY <1>2, <1>14 DEF Pays
    <3>3. CASE req[p].kind = "sell"
      <4>1. AccountDelta(p) = Worth(p) /\ Worth(p) \in Nat
        BY <1>3, <3>2, <3>3 DEF AccountDelta, NeedsTyped, Trades
      <4>2. x1 >= x
        BY <1>4, <3>1, <4>1 DEF x, x1
      <4> QED
        BY <1>1, <2>1, <4>2 DEF Fair
    <3>4. CASE req[p].kind = "buy"
      <4>1. AccountDelta(p) = -Worth(p) /\ Worth(p) \in Nat
        BY <1>3, <3>2, <3>4 DEF AccountDelta, NeedsTyped, Trades
      <4>2. x1 >= x - CashNeeds[p]
        BY <1>4, <3>1, <3>2, <4>1 DEF x, x1
      <4>3. HoldsCash(p, u)
        BY <3>1, <3>2, <3>4 DEF HoldsCash, PurchaseCalls
      <4> QED
        BY <1>1, <2>1, <4>2, <4>3 DEF Fair
    <3>5. CASE req[p].kind \in Transfers
      <4>1. TakenCash' >= TakenCash + LargestReversal /\ LargestReversal \in Nat
        <5>1. p \in CashPending /\ p \notin CashPending'
          BY <1>1, <1>14, <3>5 DEF CashPending, Pays
        <5> QED
          BY <5>1, LargestReversalIs DEF TakenMoves
      <4>2. /\ Worth(p) = req[p].amount /\ Worth(p) \in Int /\ -Worth(p) <= LargestReversal
        BY <1>3, <3>2, <3>5 DEF NeedsTyped
      <4>3. CASE req[p].kind = "deposit"
        <5>1. AccountDelta(p) = Worth(p)
          BY <4>3 DEF AccountDelta
        <5>2. x1 >= x
          BY <1>4, <3>1, <4>1, <4>2, <5>1 DEF x, x1
        <5> QED
          BY <1>1, <2>1, <5>2 DEF Fair
      <4>4. CASE req[p].kind = "withdraw"
        <5>1. AccountDelta(p) = -Worth(p)
          BY <4>4 DEF AccountDelta
        <5>2. CASE req[p].amount >= 0
          <6>1. x1 >= x - CashNeeds[p]
            BY <1>4, <3>1, <3>2, <4>1, <4>2, <5>1 DEF x, x1
          <6>2. HoldsCash(p, u)
            BY <3>1, <3>2, <4>4, <5>2 DEF HoldsCash
          <6> QED
            BY <1>1, <2>1, <6>1, <6>2 DEF Fair
        <5>3. CASE ~(req[p].amount >= 0)
          <6>1. x1 >= x
            BY <1>4, <3>1, <4>1, <4>2, <5>1, <5>3 DEF x, x1
          <6> QED
            BY <1>1, <2>1, <6>1 DEF Fair
        <5> QED
          BY <5>2, <5>3
      <4> QED
        BY <3>5, <4>3, <4>4 DEF Transfers
    <3> QED
      BY <1>14, <3>3, <3>4, <3>5 DEF Pays, Trades
  <2> QED
    BY <2>2, <2>3
<1>15. CASE Banked(p)
  <2>1. ~HoldsCash(p, u)' /\ account' = account
    BY <1>15 DEF Banked, HoldsCash, PurchaseCalls
  <2> QED
    BY <1>1, <1>7, <2>1
<1> QED
  BY <1>8, <1>9, <1>10, <1>11, <1>12, <1>13, <1>14, <1>15, WorkSteps

\* A step of a handler is fair to every bank balance.
LEMMA BankFair ==
    ASSUME TypeInv, BookingInv, SoundInv, NEW p \in Workers, Work(p), TakenMoves(p),
           NEW u \in Users, NEW b \in Banks
    PROVE  Fair(p, bank[u][b] + TakenBank, bank'[u][b] + TakenBank',
                BankHolders(u, b), BankHolders(u, b)', CashNeeds[p], CashNeeds'[p])
<1> DEFINE x == bank[u][b] + TakenBank
           x1 == bank'[u][b] + TakenBank'
           H == BankHolders(u, b)
           H1 == BankHolders(u, b)'
<1>1. /\ req' = req /\ pc[p] # "idle"
      /\ bank \in [Users -> [Banks -> Int]]
      /\ p \in H <=> HoldsBank(p, u, b)
      /\ p \in H1 <=> HoldsBank(p, u, b)'
  BY WorkOthers, WorkBusy DEF BankHolders, TypeInv, TypeOK, TablesOK
<1>2. local'[p].price = local[p].price =>
          CashNeeds'[p] = CashNeeds[p] /\ CashNeeds[p] = Worth(p)
  BY <1>1, NeedsKept
<1>3. NeedsTyped
  BY NeedsAreTyped
<1>4. bank[u][b] \in Int /\ TakenBank \in Nat /\ TakenBank' \in Nat /\ TakenBank' >= TakenBank
  BY <1>1 DEF TakenMoves
<1>5. bank'[u][b] = bank[u][b] => x1 >= x /\ x1 >= bank[u][b]
  BY <1>4
<1> SUFFICES Fair(p, x, x1, H, H1, CashNeeds[p], CashNeeds'[p])
  OBVIOUS
<1>6. (p \in H <=> p \in H1) /\ bank' = bank /\ local'[p].price = local[p].price =>
          Fair(p, x, x1, H, H1, CashNeeds[p], CashNeeds'[p])
  BY <1>2, <1>5 DEF Fair
<1>7. p \notin H1 /\ bank' = bank => Fair(p, x, x1, H, H1, CashNeeds[p], CashNeeds'[p])
  BY <1>5 DEF Fair
<1> HIDE DEF H, H1, x, x1
<1>8. CASE Quiet /\ pc'[p] = pc[p] /\ local' = local
  BY <1>1, <1>6, <1>8 DEF HoldsBank, Quiet
<1>9. CASE Ends(p) \/ Begins(p) \/ Buys(p) \/ Sells(p) \/ Delivers(p)
  <2>1. ~HoldsBank(p, u, b)' /\ bank' = bank
    <3>1. FirstCall(req[p].kind) \notin {"changeAccount", "increaseBankAccount"}
             \/ req[p].kind # "deposit"
      BY DEF FirstCall, Transfers
    <3> QED
      BY <1>1, <1>9, <3>1
         DEF Ends, Begins, Buys, Sells, Delivers, Goes, Quiet, HoldsBank, Trades
  <2> QED
    BY <1>1, <1>7, <2>1
<1>10. CASE MovesMoney(p)
  <2>1. bank' = bank /\ local'[p].price = local[p].price /\ ~HoldsBank(p, u, b)
    BY <1>10 DEF MovesMoney, Goes, Quiet, HoldsBank
  <2>2. CASE HoldsBank(p, u, b)'
    <3>1. bank[u][b] >= Worth(p) /\ Worth(p) \in Int
      BY <1>1, <1>3, <1>10, <2>2 DEF MovesMoney, Goes, HoldsBank, NeedsTyped, Transfers
    <3>2. x1 >= CashNeeds'[p] /\ x1 >= x
      BY <1>2, <1>4, <2>1, <3>1 DEF x, x1
    <3> QED
      BY <1>1, <2>1, <2>2, <3>2 DEF Fair
  <2> QED
    BY <1>1, <1>7, <2>1, <2>2
<1>11. CASE Pays(p)
  <2>1. bank' = bank /\ local' = local
    BY <1>11 DEF Pays
  <2>2. HoldsBank(p, u, b)' => HoldsBank(p, u, b)
    BY <1>1, <1>11, <2>1 DEF Pays, HoldsBank, Transfers
  <2> QED
    BY <1>1, <1>6, <1>7, <2>1, <2>2
<1>12. CASE Banked(p)
  <2>1. ~HoldsBank(p, u, b)'
    BY <1>12 DEF Banked, HoldsBank
  <2>2. CASE bank'[u][b] = bank[u][b]
    BY <1>1, <1>5, <2>1, <2>2 DEF Fair
  <2>3. CASE bank'[u][b] # bank[u][b]
    <3>1. req[p].user = u /\ local[p].bank = b /\ bank'[u][b] = bank[u][b] + BankDelta(p)
      BY <1>1, <1>12, <2>3 DEF Banked
    <3>2. /\ CashNeeds[p] = Worth(p) /\ pc[p] = "increaseBankAccount"
          /\ req[p].kind \in Transfers
      BY <1>2, <1>12 DEF Banked
    <3>3. TakenBank' >= TakenBank + LargestReversal /\ LargestReversal \in Nat
      <4>1. p \in BankPending /\ p \notin BankPending'
        BY <1>1, <1>12, <3>2 DEF BankPending, Banked
      <4> QED
        BY <4>1, LargestReversalIs DEF TakenMoves
    <3>4. /\ Worth(p) = req[p].amount /\ Worth(p) \in Int /\ -Worth(p) <= LargestReversal
      BY <1>3, <3>2 DEF NeedsTyped
    <3>5. CASE req[p].kind = "deposit"
      <4>1. BankDelta(p) = -Worth(p)
        BY <3>5 DEF BankDelta
      <4>2. CASE req[p].amount >= 0
        <5>1. x1 >= x - CashNeeds[p]
          BY <1>4, <3>1, <3>2, <3>3, <3>4, <4>1 DEF x, x1
        <5>2. HoldsBank(p, u, b)
          BY <3>1, <3>2, <3>5, <4>2 DEF HoldsBank
        <5> QED
          BY <1>1, <2>1, <5>1, <5>2 DEF Fair
      <4>3. CASE ~(req[p].amount >= 0)
        <5>1. x1 >= x
          BY <1>4, <3>1, <3>3, <3>4, <4>1, <4>3 DEF x, x1
        <5> QED
          BY <1>1, <2>1, <5>1 DEF Fair
      <4> QED
        BY <4>2, <4>3
    <3>6. CASE req[p].kind # "deposit"
      <4>1. BankDelta(p) = Worth(p)
        BY <3>6 DEF BankDelta
      <4>2. x1 >= x
        BY <1>4, <3>1, <3>3, <3>4, <4>1 DEF x, x1
      <4> QED
        BY <1>1, <2>1, <4>2 DEF Fair
    <3> QED
      BY <3>5, <3>6
  <2> QED
    BY <2>2, <2>3
<1> QED
  BY <1>8, <1>9, <1>10, <1>11, <1>12, WorkSteps

\* A step of a handler is fair to the shares of every position.
LEMMA ShareFair ==
    ASSUME TypeInv, BookingInv, SoundInv, NEW p \in Workers, Work(p),
           NEW u \in Users, NEW c \in Companies
    PROVE  Fair(p, owned[u][c], owned'[u][c], ShareHolders(u, c), ShareHolders(u, c)',
                ShareNeeds[p], ShareNeeds'[p])
<1> DEFINE x == owned[u][c]
           x1 == owned'[u][c]
           H == ShareHolders(u, c)
           H1 == ShareHolders(u, c)'
<1>1. /\ req' = req /\ pc[p] # "idle"
      /\ owned \in [Users -> [Companies -> Int]]
      /\ p \in H <=> HoldsShares(p, u, c)
      /\ p \in H1 <=> HoldsShares(p, u, c)'
      /\ ShareNeeds'[p] = ShareNeeds[p] /\ ShareNeeds[p] = req[p].amount
  BY WorkOthers, WorkBusy DEF ShareHolders, TypeInv, TypeOK, TablesOK, ShareNeeds
<1> SUFFICES Fair(p, x, x1, H, H1, ShareNeeds[p], ShareNeeds'[p])
  OBVIOUS
<1>2. x \in Int
  BY <1>1
<1> HIDE DEF H, H1
<1>3. CASE Quiet /\ pc'[p] = pc[p] /\ local' = local
  BY <1>1, <1>2, <1>3 DEF Fair, HoldsShares, Quiet
<1>4. CASE Ends(p) \/ Begins(p) \/ MovesMoney(p) \/ Buys(p) \/ Pays(p) \/ Banked(p)
  <2>1. ~HoldsShares(p, u, c)' /\ x1 = x
    <3>1. FirstCall(req[p].kind) \notin {"insertTradeHistory", "upsertOwnedStock"}
             \/ req[p].kind # "sell"
      BY DEF FirstCall, Transfers
    <3> QED
      BY <1>1, <1>4, <3>1
         DEF Ends, Begins, MovesMoney, Buys, Pays, Banked, Goes, Quiet, HoldsShares
  <2> QED
    BY <1>1, <1>2, <2>1 DEF Fair
<1>5. CASE Sells(p)
  BY <1>1, <1>2, <1>5 DEF Sells, Goes, Quiet, Fair, HoldsShares
<1>6. CASE Delivers(p)
  <2>1. ~HoldsShares(p, u, c)'
    BY <1>6 DEF Delivers, HoldsShares
  <2>2. CASE x1 = x
    BY <1>1, <1>2, <2>1, <2>2 DEF Fair
  <2>3. CASE x1 # x
    <3>1. req[p].user = u /\ req[p].company = c /\ x1 = x + SharesDelta(p)
      BY <1>1, <1>6, <2>3 DEF Delivers
    <3>2. req[p].amount \in Nat
      BY <1>1, <1>6, NeedsAreTyped DEF NeedsTyped, Delivers
    <3>3. CASE req[p].kind = "sell"
      <4>1. HoldsShares(p, u, c) /\ SharesDelta(p) = -req[p].amount
        BY <1>6, <3>1, <3>3 DEF Delivers, HoldsShares, SharesDelta
      <4>2. x1 >= x - ShareNeeds[p]
        BY <1>1, <1>2, <3>1, <3>2, <4>1
      <4> QED
        BY <1>1, <2>1, <4>1, <4>2 DEF Fair
    <3>4. CASE req[p].kind # "sell"
      <4>1. SharesDelta(p) = req[p].amount
        BY <1>6, <3>4 DEF Delivers, SharesDelta, Trades
      <4> QED
        BY <1>1, <1>2, <2>1, <3>1, <3>2, <4>1 DEF Fair
    <3> QED
      BY <3>3, <3>4
  <2> QED
    BY <2>2, <2>3
<1> QED
  BY <1>3, <1>4, <1>5, <1>6, WorkSteps


-----------------------------------------------------------------------------
(* The bound. *)

\* What the holders of a balance need is a debit within the largest of its kind.
HoldersNeed ==
    \A u \in Users :
        /\ \A q \in CashHolders(u) : CashNeeds[q] \in Nat /\ CashNeeds[q] <= LargestDebit
        /\ \A b \in Banks : \A q \in BankHolders(u, b) :
              CashNeeds[q] \in Nat /\ CashNeeds[q] <= LargestAmount
        /\ \A c \in Companies : \A q \in ShareHolders(u, c) :
              ShareNeeds[q] \in Nat /\ ShareNeeds[q] <= LargestSale

\* No holder of a balance needs more of it than the largest debit.
LEMMA HoldersNeedTyped == TypeInv /\ SoundInv => HoldersNeed
<1> SUFFICES ASSUME TypeInv, SoundInv, NEW u \in Users
             PROVE  /\ \A q \in CashHolders(u) :
                         CashNeeds[q] \in Nat /\ CashNeeds[q] <= LargestDebit
                    /\ \A b \in Banks : \A q \in BankHolders(u, b) :
                         CashNeeds[q] \in Nat /\ CashNeeds[q] <= LargestAmount
                    /\ \A c \in Companies : \A q \in ShareHolders(u, c) :
                         ShareNeeds[q] \in Nat /\ ShareNeeds[q] <= LargestSale
  BY DEF HoldersNeed
<1>1. NeedsTyped
  BY NeedsAreTyped
<1>2. \A q \in CashHolders(u) : CashNeeds[q] \in Nat /\ CashNeeds[q] <= LargestDebit
  <2> SUFFICES ASSUME NEW q \in Workers, HoldsCash(q, u)
               PROVE  CashNeeds[q] \in Nat /\ CashNeeds[q] <= LargestDebit
    BY DEF CashHolders
  <2>1. \/ /\ req[q].kind \in Transfers /\ Worth(q) \in Int /\ Worth(q) >= 0
           /\ Worth(q) <= LargestAmount
        \/ req[q].kind \in Trades /\ Worth(q) \in Nat /\ Worth(q) <= LargestPurchase
    BY <1>1 DEF NeedsTyped, HoldsCash, PurchaseCalls, Transfers, Trades
  <2> QED
    BY <2>1, LargestDebitIs, LargestAmountIs, LargestPurchaseIs DEF CashNeeds
<1>3. ASSUME NEW b \in Banks, NEW q \in BankHolders(u, b)
      PROVE  CashNeeds[q] \in Nat /\ CashNeeds[q] <= LargestAmount
  BY <1>1 DEF NeedsTyped, BankHolders, HoldsBank, Transfers, CashNeeds
<1>4. ASSUME NEW c \in Companies, NEW q \in ShareHolders(u, c)
      PROVE  ShareNeeds[q] \in Nat /\ ShareNeeds[q] <= LargestSale
  BY <1>1 DEF NeedsTyped, ShareHolders, HoldsShares, Trades, ShareNeeds
<1> QED
  BY <1>2, <1>3, <1>4

\* The other threads hold and need what they did.
LEMMA FrameHolders ==
    ASSUME NEW p \in Workers, Frame(p), NEW q \in Workers \ {p}
    PROVE  /\ TradeSound(q) => TradeSound(q)'
           /\ CashNeeds'[q] = CashNeeds[q] /\ ShareNeeds'[q] = ShareNeeds[q]
           /\ \A u : q \in CashHolders(u)' <=> q \in CashHolders(u)
           /\ \A u, b : q \in BankHolders(u, b)' <=> q \in BankHolders(u, b)
           /\ \A u, c : q \in ShareHolders(u, c)' <=> q \in ShareHolders(u, c)
<1>1. pc'[q] = pc[q] /\ req'[q] = req[q] /\ local'[q] = local[q]
  BY DEF Frame
<1>2. Worth(q)' = Worth(q)
  BY <1>1 DEF Worth
<1> QED
  BY <1>1, <1>2 DEF TradeSound, CashNeeds, ShareNeeds, CashHolders, BankHolders, ShareHolders,
                    HoldsCash, HoldsBank, HoldsShares

\* A new request of an idle thread touches no balance.
LEMMA StartFair ==
    ASSUME TypeInv, NEW p \in Workers, Start(p), TakenMoves(p)
    PROVE  /\ TradeSound(p)'
           /\ \A u \in Users :
                /\ Fair(p, account[u] + TakenCash, account'[u] + TakenCash',
                        CashHolders(u), CashHolders(u)', CashNeeds[p], CashNeeds'[p])
                /\ \A b \in Banks :
                     Fair(p, bank[u][b] + TakenBank, bank'[u][b] + TakenBank',
                          BankHolders(u, b), BankHolders(u, b)', CashNeeds[p], CashNeeds'[p])
                /\ \A c \in Companies :
                     Fair(p, owned[u][c], owned'[u][c], ShareHolders(u, c), ShareHolders(u, c)',
                          ShareNeeds[p], ShareNeeds'[p])
<1>1. pc'[p] = "sidToUid" /\ UNCHANGED <<account, bank, owned>>
  BY DEF Start, tables, TypeInv, TypeOK, HandlersOK
<1>2. /\ \A u \in Users : account[u] \in Int
      /\ \A u \in Users, b \in Banks : bank[u][b] \in Int
      /\ \A u \in Users, c \in Companies : owned[u][c] \in Int
  BY DEF TypeInv, TypeOK, TablesOK
<1>3. /\ TradeSound(p)'
      /\ \A u : p \notin CashHolders(u)'
      /\ \A u, b : p \notin BankHolders(u, b)'
      /\ \A u, c : p \notin ShareHolders(u, c)'
  BY <1>1 DEF TradeSound, CashHolders, BankHolders, ShareHolders, HoldsCash, HoldsBank,
              HoldsShares, PurchaseCalls
<1>4. /\ TakenCash \in Nat /\ TakenCash' \in Nat /\ TakenCash' >= TakenCash
      /\ TakenBank \in Nat /\ TakenBank' \in Nat /\ TakenBank' >= TakenBank
  BY DEF TakenMoves
<1>5. /\ \A u \in Users : account'[u] + TakenCash' >= account[u] + TakenCash
      /\ \A u \in Users, b \in Banks : bank'[u][b] + TakenBank' >= bank[u][b] + TakenBank
      /\ \A u \in Users, c \in Companies : owned'[u][c] >= owned[u][c]
  BY <1>1, <1>2, <1>4
<1> QED
  BY <1>3, <1>5 DEF Fair

\* A thread that starts a request or takes a step leaves every balance backed.
LEMMA StepBacked ==
    ASSUME TypeInv, TypeInv', BookingInv, BackedInv, NEW p \in Workers, Start(p) \/ Work(p)
    PROVE  BackedInv'
<1>1. Frame(p) /\ SoundInv
  BY WorkFrame DEF BackedInv, SoundInv
<1>0. CountedInv' /\ TakenMoves(p)
  BY StepTaken DEF BackedInv
<1>2. /\ TradeSound(p)'
      /\ \A u \in Users :
           /\ Fair(p, account[u] + TakenCash, account'[u] + TakenCash',
                   CashHolders(u), CashHolders(u)', CashNeeds[p], CashNeeds'[p])
           /\ \A b \in Banks :
                Fair(p, bank[u][b] + TakenBank, bank'[u][b] + TakenBank',
                     BankHolders(u, b), BankHolders(u, b)', CashNeeds[p], CashNeeds'[p])
           /\ \A c \in Companies :
                Fair(p, owned[u][c], owned'[u][c], ShareHolders(u, c), ShareHolders(u, c)',
                     ShareNeeds[p], ShareNeeds'[p])
  BY <1>0, <1>1, StartFair, WorkSound, CashFair, BankFair, ShareFair
<1>3. SoundInv'
  BY <1>1, <1>2, FrameHolders DEF SoundInv
<1>4. HoldersNeed /\ HoldersNeed'
  <2>1. HoldersNeed
    BY <1>1, HoldersNeedTyped
  <2>2. HoldersNeed'
    BY <1>3, HoldersNeedTyped, PTL
  <2> QED
    BY <2>1, <2>2
<1>5. /\ account \in [Users -> Int] /\ account' \in [Users -> Int]
      /\ bank \in [Users -> [Banks -> Int]] /\ bank' \in [Users -> [Banks -> Int]]
      /\ owned \in [Users -> [Companies -> Int]] /\ owned' \in [Users -> [Companies -> Int]]
  BY DEF TypeInv, TypeOK, TablesOK
<1>6. ASSUME NEW u \in Users
      PROVE  Backed(account[u] + TakenCash, CashHolders(u), CashNeeds, LargestDebit)'
  <2> DEFINE x == account[u] + TakenCash
             x1 == account'[u] + TakenCash'
             H == CashHolders(u)
             H1 == CashHolders(u)'
             needs == CashNeeds
             needs1 == CashNeeds'
  <2>1. x \in Int /\ x1 \in Int /\ H \in SUBSET Workers /\ H1 \in SUBSET Workers
    BY <1>0, <1>5 DEF CashHolders, TakenMoves
  <2>2. /\ \A q \in H : needs[q] \in Nat /\ needs[q] <= LargestDebit
        /\ \A q \in H1 : needs1[q] \in Nat /\ needs1[q] <= LargestDebit
    BY <1>4 DEF HoldersNeed
  <2>3. \A q \in Workers \ {p} : (q \in H1 <=> q \in H) /\ needs1[q] = needs[q]
    BY <1>1, FrameHolders
  <2>4. /\ Fair(p, x, x1, H, H1, needs[p], needs1[p])
        /\ Backed(x, H, needs, LargestDebit)
    BY <1>2 DEF BackedInv
  <2> HIDE DEF x, x1, H, H1, needs, needs1
  <2>5. LargestDebit \in Nat
    BY LargestDebitIs
  <2>6. Backed(x1, H1, needs1, LargestDebit)
    BY ONLY p \in Workers, <2>1, <2>2, <2>3, <2>4, <2>5, BackedMoves
  <2> QED
    BY <2>6 DEF x1, H1, needs1, Backed
<1>7. ASSUME NEW u \in Users, NEW b \in Banks
      PROVE  Backed(bank[u][b] + TakenBank, BankHolders(u, b), CashNeeds, LargestAmount)'
  <2> DEFINE x == bank[u][b] + TakenBank
             x1 == bank'[u][b] + TakenBank'
             H == BankHolders(u, b)
             H1 == BankHolders(u, b)'
             needs == CashNeeds
             needs1 == CashNeeds'
  <2>1. x \in Int /\ x1 \in Int /\ H \in SUBSET Workers /\ H1 \in SUBSET Workers
    BY <1>0, <1>5 DEF BankHolders, TakenMoves
  <2>2. /\ \A q \in H : needs[q] \in Nat /\ needs[q] <= LargestAmount
        /\ \A q \in H1 : needs1[q] \in Nat /\ needs1[q] <= LargestAmount
    BY <1>4 DEF HoldersNeed
  <2>3. \A q \in Workers \ {p} : (q \in H1 <=> q \in H) /\ needs1[q] = needs[q]
    BY <1>1, FrameHolders
  <2>4. /\ Fair(p, x, x1, H, H1, needs[p], needs1[p])
        /\ Backed(x, H, needs, LargestAmount)
    BY <1>2 DEF BackedInv
  <2> HIDE DEF x, x1, H, H1, needs, needs1
  <2>5. Backed(x1, H1, needs1, LargestAmount)
    BY <2>1, <2>2, <2>3, <2>4, BackedMoves, LargestAmountIs
  <2> QED
    BY <2>5 DEF x1, H1, needs1, Backed
<1>8. ASSUME NEW u \in Users, NEW c \in Companies
      PROVE  Backed(owned[u][c], ShareHolders(u, c), ShareNeeds, LargestSale)'
  <2> DEFINE x == owned[u][c]
             x1 == owned'[u][c]
             H == ShareHolders(u, c)
             H1 == ShareHolders(u, c)'
             needs == ShareNeeds
             needs1 == ShareNeeds'
  <2>1. x \in Int /\ x1 \in Int /\ H \in SUBSET Workers /\ H1 \in SUBSET Workers
    BY <1>5 DEF ShareHolders
  <2>2. /\ \A q \in H : needs[q] \in Nat /\ needs[q] <= LargestSale
        /\ \A q \in H1 : needs1[q] \in Nat /\ needs1[q] <= LargestSale
    BY <1>4 DEF HoldersNeed
  <2>3. \A q \in Workers \ {p} : (q \in H1 <=> q \in H) /\ needs1[q] = needs[q]
    BY <1>1, FrameHolders
  <2>4. /\ Fair(p, x, x1, H, H1, needs[p], needs1[p])
        /\ Backed(x, H, needs, LargestSale)
    BY <1>2 DEF BackedInv
  <2> HIDE DEF x, x1, H, H1, needs, needs1
  <2>5. Backed(x1, H1, needs1, LargestSale)
    BY <2>1, <2>2, <2>3, <2>4, BackedMoves, LargestSaleIs
  <2> QED
    BY <2>5 DEF x1, H1, needs1, Backed
<1> QED
  BY <1>0, <1>3, <1>6, <1>7, <1>8 DEF BackedInv, SoundInv

\* What backs the balances does not depend on the connection.
LEMMA BackedKept ==
    BackedInv /\ UNCHANGED <<account, bank, owned, pc, req, local, started>> => BackedInv'
<1> SUFFICES ASSUME BackedInv, UNCHANGED <<account, bank, owned, pc, req, local, started>>
             PROVE  BackedInv'
  OBVIOUS
<1>1. CashPending' = CashPending /\ BankPending' = BankPending /\ Busy' = Busy
  BY DEF CashPending, BankPending, Busy
<1>2. TakenCash' = TakenCash /\ TakenBank' = TakenBank /\ CountedInv' = CountedInv
  BY <1>1 DEF TakenCash, TakenBank, Taken, CountedInv
<1>3. /\ \A u : CashHolders(u)' = CashHolders(u)
      /\ \A u, b : BankHolders(u, b)' = BankHolders(u, b)
      /\ \A u, c : ShareHolders(u, c)' = ShareHolders(u, c)
  BY DEF CashHolders, BankHolders, ShareHolders, HoldsCash, HoldsBank, HoldsShares
<1>4. CashNeeds' = CashNeeds /\ ShareNeeds' = ShareNeeds
  BY DEF CashNeeds, ShareNeeds, Worth
<1>5. \A p \in Workers : TradeSound(p)'
  BY DEF BackedInv, TradeSound
<1> QED
  BY <1>2, <1>3, <1>4, <1>5 DEF BackedInv, Backed

\* Every step of Brokerage leaves every balance backed.
LEMMA NextBacked ==
    ASSUME TypeInv, BookingInv, BackedInv, [Next]_vars
    PROVE  BackedInv'
<1>1. ASSUME NEW p \in Workers, Start(p) \/ Work(p) PROVE BackedInv'
  BY <1>1, StepBacked, NextTyped
<1>2. CASE LoseConnection \/ UNCHANGED vars
  <2>1. UNCHANGED <<account, bank, owned, pc, req, local, started>>
    BY <1>2 DEF LoseConnection, vars, tables
  <2> QED
    BY <2>1, BackedKept
<1> QED
  BY <1>1, <1>2 DEF Next, Waiting

\* The opening balances are backed: nobody holds them and none is below zero.
LEMMA InitBacked == Init => BackedInv
<1> SUFFICES ASSUME Init PROVE BackedInv
  OBVIOUS
<1>1. /\ \A u \in Users : CashHolders(u) = {}
      /\ \A u \in Users, b \in Banks : BankHolders(u, b) = {}
      /\ \A u \in Users, c \in Companies : ShareHolders(u, c) = {}
      /\ \A p \in Workers : TradeSound(p)
  BY DEF Init, CashHolders, BankHolders, ShareHolders, HoldsCash, HoldsBank, HoldsShares,
         PurchaseCalls, TradeSound
<1>2. ASSUME NEW L \in Nat, NEW x \in Nat
      PROVE  x >= -(Rivals * L)
  <2>1. Rivals \in Nat
    <3>1. /\ Cardinality(Workers) \in Nat
          /\ Cardinality(Workers) # 0
      BY WorkersAssumption, FS_EmptySet, FS_CardinalityType
    <3> QED
      BY <3>1 DEF Rivals
  <2>2. Rivals * L \in Nat
    BY <2>1
  <2> QED
    BY <2>2
<1>3. /\ LargestDebit \in Nat
      /\ LargestAmount \in Nat
      /\ LargestSale \in Nat
  BY LargestDebitIs, LargestAmountIs, LargestSaleIs
<1>4. Busy = {} /\ CashPending = {} /\ BankPending = {} /\ started = 0
  BY DEF Init, Busy, CashPending, BankPending
<1>5. CountedInv /\ TakenCash = 0 /\ TakenBank = 0
  <2>1. Cardinality({}) = 0 /\ 0 * LargestReversal = 0
    BY FS_EmptySet, LargestReversalIs
  <2> QED
    BY <1>4, <2>1 DEF CountedInv, TakenCash, TakenBank, Taken
<1> QED
  BY <1>1, <1>2, <1>3, <1>4, <1>5, MoneyAssumption DEF Init, BackedInv, Backed

-----------------------------------------------------------------------------
\* There is a thread, so the rivals of one are a natural number of threads.
LEMMA RivalsIs == Rivals \in Nat
<1>1. Cardinality(Workers) \in Nat /\ Cardinality(Workers) # 0
  BY WorkersAssumption, FS_EmptySet, FS_CardinalityType
<1> QED
  BY <1>1 DEF Rivals

\* Negative transfers have taken at most their largest for every request so far.
LEMMA TakenBounded ==
    ASSUME TypeInv, CountedInv
    PROVE  /\ TakenCash \in Nat /\ TakenCash <= started * LargestReversal
           /\ TakenBank \in Nat /\ TakenBank <= started * LargestReversal
           /\ started * LargestReversal \in Nat
<1>1. started \in Nat /\ LargestReversal \in Nat /\ Cardinality(Busy) <= started
  BY LargestReversalIs DEF TypeInv, TypeOK, HandlersOK, CountedInv
<1>2. ASSUME NEW P \in SUBSET Workers, P \subseteq Busy
      PROVE  Taken(started, P) \in Nat /\ Taken(started, P) <= started * LargestReversal
  <2>1. /\ IsFiniteSet(Busy) /\ Busy \subseteq Workers
        /\ Cardinality(P) <= Cardinality(Busy)
        /\ Cardinality(P) \in Nat /\ Cardinality(Busy) \in Nat
    <3>1. IsFiniteSet(Busy) /\ Busy \subseteq Workers
      BY WorkersAssumption, FS_Subset DEF Busy
    <3>2. IsFiniteSet(P) /\ Cardinality(P) <= Cardinality(Busy)
      BY <1>2, <3>1, FS_Subset
    <3> QED
      BY <3>1, <3>2, FS_CardinalityType
  <2>2. Cardinality(P) <= started
    BY <1>1, <2>1
  <2>3. \E p \in Workers : TRUE
    BY WorkersAssumption
  <2> QED
    BY <1>1, <2>2, <2>3, TakenGrows
<1>3. /\ CashPending \in SUBSET Workers /\ CashPending \subseteq Busy
      /\ BankPending \in SUBSET Workers /\ BankPending \subseteq Busy
  BY DEF CashPending, BankPending, Busy
<1> QED
  BY <1>1, <1>2, <1>3 DEF TakenCash, TakenBank

\* What backs the balances bounds how far below zero they are.
LEMMA BackedBounds == TypeInv /\ BackedInv => OverdraftBound
<1> SUFFICES ASSUME TypeInv, BackedInv PROVE OverdraftBound
  OBVIOUS
<1>1. HoldersNeed
  BY HoldersNeedTyped DEF BackedInv, SoundInv
<1>0. /\ TakenCash \in Nat /\ TakenCash <= started * LargestReversal
      /\ TakenBank \in Nat /\ TakenBank <= started * LargestReversal
      /\ started * LargestReversal \in Nat
  BY TakenBounded DEF BackedInv
<1>2. /\ account \in [Users -> Int]
      /\ bank \in [Users -> [Banks -> Int]]
      /\ owned \in [Users -> [Companies -> Int]]
  BY DEF TypeInv, TypeOK, TablesOK
<1>3. /\ LargestDebit \in Nat
      /\ LargestAmount \in Nat
      /\ LargestSale \in Nat
  BY LargestDebitIs, LargestAmountIs, LargestSaleIs
<1>4. ASSUME NEW u \in Users
      PROVE  account[u] >= -(Rivals * LargestDebit) - started * LargestReversal
  <2>1. /\ account[u] + TakenCash \in Int
        /\ CashHolders(u) \in SUBSET Workers
        /\ Backed(account[u] + TakenCash, CashHolders(u), CashNeeds, LargestDebit)
    BY <1>0, <1>2 DEF CashHolders, BackedInv
  <2>2. \A q \in CashHolders(u) : CashNeeds[q] \in Nat
    BY <1>1 DEF HoldersNeed
  <2>3. account[u] + TakenCash >= -(Rivals * LargestDebit)
    BY ONLY <1>3, <2>1, <2>2, BackedIsBounded
  <2>4. account[u] \in Int /\ Rivals * LargestDebit \in Int
    BY <1>2, <1>3, RivalsIs
  <2> QED
    BY ONLY <1>0, <2>3, <2>4
<1>5. ASSUME NEW u \in Users, NEW b \in Banks
      PROVE  bank[u][b] >= -(Rivals * LargestAmount) - started * LargestReversal
  <2>0. bank[u][b] \in Int /\ BankHolders(u, b) \in SUBSET Workers
    BY <1>2 DEF BankHolders
  <2>1. /\ bank[u][b] + TakenBank \in Int
        /\ BankHolders(u, b) \in SUBSET Workers
        /\ Backed(bank[u][b] + TakenBank, BankHolders(u, b), CashNeeds, LargestAmount)
    BY <1>0, <2>0 DEF BackedInv
  <2>2. \A q \in BankHolders(u, b) : CashNeeds[q] \in Nat
    BY <1>1 DEF HoldersNeed
  <2>3. bank[u][b] + TakenBank >= -(Rivals * LargestAmount)
    BY ONLY <1>3, <2>1, <2>2, BackedIsBounded
  <2>4. bank[u][b] \in Int /\ Rivals * LargestAmount \in Int
    BY <1>2, <1>3, RivalsIs
  <2> QED
    BY ONLY <1>0, <2>3, <2>4
<1>6. ASSUME NEW u \in Users, NEW c \in Companies
      PROVE  owned[u][c] >= -(Rivals * LargestSale)
  <2>1. /\ owned[u][c] \in Int
        /\ ShareHolders(u, c) \in SUBSET Workers
        /\ Backed(owned[u][c], ShareHolders(u, c), ShareNeeds, LargestSale)
    BY <1>2 DEF ShareHolders, BackedInv
  <2>2. \A q \in ShareHolders(u, c) : ShareNeeds[q] \in Nat
    BY <1>1 DEF HoldersNeed
  <2> QED
    BY ONLY <1>3, <2>1, <2>2, BackedIsBounded
<1> QED
  BY <1>4, <1>5, <1>6 DEF OverdraftBound

\* However many threads serve the users, however their checks interleave with
\* each other's writes, and of whatever sign the amounts are, a balance goes below
\* zero by at most what every thread but one can spend of it and what a negative
\* transfer can take for every request so far.
THEOREM OverdraftIsBounded == Spec => []OverdraftBound
<1>1. Init => AccountedInv
  BY DEF Init, AccountedInv, Accounted
<1>2. TypeInv /\ AccountedInv /\ [Next]_vars => AccountedInv'
  BY NextAccounted
<1>3. TypeInv /\ AccountedInv /\ BooksInv /\ [Next]_vars => BooksInv'
  BY NextBooks
<1>4. TypeInv /\ BooksInv /\ BackedInv /\ [Next]_vars => BackedInv'
  BY NextBacked DEF BooksInv
<1> QED
  BY <1>1, <1>2, <1>3, <1>4, InitBooks, InitBacked, BackedBounds, TypeCorrect, PTL DEF Spec
=================================================================================
