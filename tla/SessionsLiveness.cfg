\* Two threads and two sids for two users: a login can draw a sid that is taken.
SPECIFICATION FairSpec
CONSTANTS
  Free = Free
  Nobody = Nobody
  NoSid = NoSid
  Workers = {w1, w2}
  Clients = {c}
  Users = {u, v}
  Passwords = {x}
  Sids = {s1, s2}
  Kinds = {"login", "page"}
  Collide = TRUE
  MayCrash = TRUE
  MaxRequests = 3
PROPERTY EveryRequestAnswered
PROPERTY LockoutEnds
