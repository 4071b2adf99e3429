\* One thread and a connection that holds: the checks mean what they say.
SPECIFICATION Spec
CONSTANTS
  Free = Free
  Banks = {KU, YU}
  OtherAccounts = {other}
  Companies = {A}
  Dollar = 2
  Indefinite <- LowestInt
  Workers = {w}
  Users = {u}
  Orphans = {}
  Kinds = {"deposit", "withdraw", "buy", "sell", "poll"}
  Amounts <- SomeAmounts
  Shares = {0, 1, 2}
  Prices = {3, 4}
  OpeningBalance = 6
  MayLose = FALSE
  MaxRequests = 4
INVARIANT BooksBalance
INVARIANT AverageWithinPrices
PROPERTY ChecksHold
PROPERTY ImplementsExchange
