\* Two threads serve a user while the connection may break at any point, also
\* between a commit and its answer, and the process may die and start again.
SPECIFICATION FairServerSpec
CONSTANTS
  Free = Free
  Banks = {KU, YU}
  OtherAccounts = {}
  Companies = {A}
  Dollar = 2
  Indefinite <- LowestInt
  Workers = {w1, w2}
  Users = {u}
  Orphans = {}
  Kinds = {"deposit", "withdraw", "buy"}
  Views = {"balances", "portfolio"}
  Amounts = {3}
  Shares = {1}
  Prices = {3}
  OpeningBalance = 4
  MayLose = TRUE
  MayCrash = TRUE
  MaxRequests = 3
INVARIANT ServerTypeOK
INVARIANT BooksBalance
INVARIANT OverdraftBound
INVARIANT ReplyIsTruthful
INVARIANT WritesInCodeOrder
INVARIANT AverageWithinPrices
INVARIANT PortfolioIsComplete
PROPERTY BalancesNearTruth
PROPERTY EveryRequestEnds
