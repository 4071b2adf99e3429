\* Two logins of one user on two threads.
SPECIFICATION Spec
CONSTANTS
  Free = Free
  Nobody = Nobody
  NoSid = NoSid
  Workers = {w1, w2}
  Clients = {c}
  Users = {u}
  Passwords = {x}
  Sids = {s1, s2}
  Kinds = {"login"}
  Collide = FALSE
  MayCrash = FALSE
  MaxRequests = 2
SYMMETRY Interchangeable
INVARIANT OneSessionPerUser
