------------------------------ MODULE ServerProperties ------------------------------
(***************************************************************************)
(* What the server as a whole guarantees: the properties of the handlers,   *)
(* kept through crashes and restarts, and what the reading requests show    *)
(* while the handlers write.                                                *)
(***************************************************************************)
EXTENDS Server, BrokerageProperties

Answers ==
    [kind : {"none", "error", "redirect"}]
    \union [kind : {"balances"}, total : Int]
    \union [kind : {"list", "nothing", "bracket"}, stocks : SUBSET Companies]
ViewStates ==
    [at : {"idle"}, told : Answers]
    \union [at : {"session", "bankAccounts", "ownedStock"}, kind : Views, user : Users]
    \union [at : {"accountInfo"}, kind : {"balances"}, user : Users, bank : Int, overlaps : Nat]
    \union [at : {"avgPrice", "render"}, kind : {"portfolio"}, user : Users,
            rows : SUBSET Companies, nonzero : SUBSET Companies]

\* Every variable keeps its type, and a thread serves one request at a time.
ServerTypeOK ==
    /\ TypeOK
    /\ averages \subseteq Users \X Companies
    /\ view \in [Workers -> ViewStates]
    /\ \A p \in Workers : pc[p] = "idle" \/ ~Viewing(p)

\* Whatever shares the portfolio has counted, it has an average price for:
\* jointProduct drops no company with shares, also when the purchase is made
\* between the two reads, was cut off by an exception or by the end of the
\* process, or has sold the last share meanwhile.
PortfolioIsComplete ==
    \A p \in Workers :
        view[p].at = "render" => view[p].nonzero \subseteq view[p].rows

Distance(a, b) == IF a < b THEN b - a ELSE a - b
ShownTo(p) == view[p].at = "accountInfo" /\ view'[p].at = "idle"

\* The most one transfer moves, in either direction.
LargestTransfer == Max({LargestAmount, LargestReversal})

\* The balances a client sees come from two transactions. They add up to what
\* the user has in the tables, except for one transfer for each transfer of the
\* user that was under way meanwhile, and exactly to it if there was none.
BalancesNearTruth ==
    [][\A p \in Workers :
         ShownTo(p) /\ view'[p].told.kind = "balances" =>
           Distance(view'[p].told.total,
                    BankTotal(view[p].user) + account[view[p].user])
             <= view[p].overlaps * LargestTransfer]_serverVars

\* Every request is answered or ends with the process, whatever the other threads
\* and the connection do: a thread that meets another's transaction fails, it
\* does not wait.
EveryRequestEnds ==
    \A p \in Workers :
        pc[p] # "idle" \/ Viewing(p) ~> pc[p] = "idle" /\ ~Viewing(p)
===================================================================================
