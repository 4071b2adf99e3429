\* One thread: requests follow one another, and only the clock and the reaper
\* come between the calls of one.
SPECIFICATION Spec
CONSTANTS
  Free = Free
  Nobody = Nobody
  NoSid = NoSid
  Workers = {w}
  Clients = {c, d}
  Users = {u, v}
  Passwords = {x, y}
  Sids = {s1, s2, s3, s4}
  Kinds = {"login", "logout", "home", "page", "balance", "trade", "transfer", "stocks", "changePassword"}
  Collide = FALSE
  MayCrash = TRUE
  MaxRequests = 4
SYMMETRY Interchangeable
INVARIANT OneSessionPerUser
PROPERTY SessionIsKept
