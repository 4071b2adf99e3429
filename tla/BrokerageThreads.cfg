\* Two threads serve a user and one without a balance row; four requests reach
\* every race of two of them after the deposit and the purchase they need. Amounts have
\* both signs, and the connection may break.
SPECIFICATION Spec
CONSTANTS
  Free = Free
  Banks = {KU, YU}
  OtherAccounts = {}
  Companies = {A}
  Dollar = 2
  Indefinite <- LowestInt
  Workers = {w1, w2}
  Users = {u, o}
  Orphans = {o}
  Kinds = {"deposit", "withdraw", "buy", "sell"}
  Amounts <- FewAmounts
  Shares = {1}
  Prices = {3}
  OpeningBalance = 4
  MayLose = TRUE
  MaxRequests = 4
SYMMETRY Alike
INVARIANT TypeOK
INVARIANT BooksBalance
INVARIANT ReplyIsTruthful
INVARIANT WritesInCodeOrder
INVARIANT OverdraftBound
