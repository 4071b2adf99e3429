\* Two purchases of one user pass the same balance.
SPECIFICATION Spec
CONSTANTS
  Free = Free
  Banks = {KU, YU}
  OtherAccounts = {}
  Companies = {A}
  Dollar = 2
  Indefinite <- LowestInt
  Workers = {w1, w2}
  Users = {u}
  Orphans = {}
  Kinds = {"deposit", "buy"}
  Amounts = {3}
  Shares = {1}
  Prices = {3}
  OpeningBalance = 12
  MayLose = FALSE
  MaxRequests = 3
SYMMETRY Alike
INVARIANT NoOverdraft
