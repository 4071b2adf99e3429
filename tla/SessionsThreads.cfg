\* Two threads, two clients and two users.
SPECIFICATION Spec
CONSTANTS
  Free = Free
  Nobody = Nobody
  NoSid = NoSid
  Workers = {w1, w2}
  Clients = {c, d}
  Users = {u, v}
  Passwords = {x, y}
  Sids = {s1, s2, s3}
  Kinds = {"login", "logout", "home", "page", "balance", "trade", "transfer", "stocks", "changePassword"}
  Collide = FALSE
  MayCrash = TRUE
  MaxRequests = 3
SYMMETRY Interchangeable
INVARIANT TypeOK
INVARIANT ActsForOwnUser
INVARIANT HeldSidsAreCommitted
PROPERTY LostOnlyByRollback
PROPERTY LoginSticks
