--------------------------------- MODULE Sessions ---------------------------------
(***************************************************************************)
(* Login, logout, the guards of the pages and the password change of        *)
(* main.cpp, the session table they keep in PostgreSQL, and the thread of   *)
(* db::DBConnection that deletes expired sessions over a connection of its  *)
(* own.                                                                    *)
(*                                                                         *)
(* As in Brokerage the handlers share one connection, each call is a        *)
(* transaction on it, and opening one while another thread's is registered  *)
(* throws. tryInsertSession is the exception: it commits, which ends its    *)
(* transaction, and then inserts. The INSERT runs by itself, or in whatever *)
(* transaction another thread has opened on the connection by then, and is  *)
(* committed or rolled back with that one.                                  *)
(***************************************************************************)
EXTENDS Naturals, FiniteSets

CONSTANTS
    Workers,     \* threads of app.multithreaded()
    Clients,     \* cookie sessions of Crow's InMemoryStore
    Users,       \* registered users
    Nobody,      \* a user name nobody registered; also no uid
    Passwords,   \* passwords clients know
    Sids,        \* values gen_rand_str(SID_LEN) may return
    NoSid,       \* the empty sid of a client that is not logged in
    Free,        \* value of txn when the connection has no transaction
    Kinds,       \* which requests clients make
    Collide,     \* whether a sid can be drawn a second time
    MayCrash,    \* whether the process can die
    MaxRequests  \* bound on the requests of a behaviour

\* "page" stands for the pages behind the login, "balance" for
\* /getUserFinancialData, "trade" for /trade and /owned_stocks, "transfer" for
\* /profile_action and "stocks" for /api/stocks.
Authenticated == {"balance", "trade", "transfer", "stocks", "changePassword"}
\* The handlers that do not look up a sid that is empty.
Guarded == {"home", "page", "balance", "transfer", "changePassword"}

ASSUME SessionWorkersAssumption == Free \notin Workers
ASSUME SessionUsersAssumption == Nobody \notin Users
ASSUME SidsAssumption == NoSid \notin Sids
ASSUME SessionKindsAssumption ==
    Kinds \subseteq {"login", "logout", "home", "page"} \union Authenticated
ASSUME SessionRequestsAssumption ==
    Collide \in BOOLEAN /\ MayCrash \in BOOLEAN /\ MaxRequests \in Nat

VARIABLES
    sessions,   \* rows of the session table
    pending,    \* rows inserted in the transaction open on the connection
    passwords,  \* salt and hash of a user: the password they were made from
    txn,        \* worker whose transaction is registered, or Free
    jar,        \* the sid Crow keeps for a client
    pc,         \* what a worker does next, or "idle"
    req,        \* the request it serves, or served last
    local,      \* the locals of its handler
    reply,      \* what the client was told, "none" until then
    started,    \* number of requests so far
    known,      \* history: users whose password a client has presented
    drawn       \* history: sids drawn, when they do not collide

vars == <<sessions, pending, passwords, txn, jar, pc, req, local, reply,
          started, known, drawn>>

\* The table has no key: by, the worker whose INSERT made it, tells a row from
\* another of the same sid and user. No worker inserts again for a user while it
\* sees a row of it.
Rows == [sid : Sids, uid : Users, by : Workers, expired : BOOLEAN]

\* What a statement on the shared connection sees.
Visible == sessions \union pending
WithSid(sid) == {row \in Visible : row.sid = sid}
WithUid(uid) == {row \in Visible : row.uid = uid}

Requests ==
    [kind : Kinds \intersect {"login"}, client : Clients,
     user : Users \union {Nobody}, password : Passwords]
    \union [kind : Kinds \intersect {"changePassword"}, client : Clients,
            password : Passwords]
    \union [kind : Kinds \ {"login", "changePassword"}, client : Clients]
NoRequest == [kind |-> "none"]
NoLocals == [sid |-> NoSid, uid |-> Nobody]

Init ==
    /\ sessions = {} /\ pending = {}
    /\ passwords \in [Users -> Passwords]
    /\ txn = Free
    /\ jar = [c \in Clients |-> NoSid]
    /\ pc = [p \in Workers |-> "idle"]
    /\ req = [p \in Workers |-> NoRequest]
    /\ local = [p \in Workers |-> NoLocals]
    /\ reply = [p \in Workers |-> "none"]
    /\ started = 0
    /\ known = [c \in Clients |-> {}]
    /\ drawn = {}

-----------------------------------------------------------------------------
(* The connection. *)

\* The calls that open a transaction; the others use no connection, or use it
\* without one.
Transactional == {"selectFromAccountSecurity", "selectIdFromAccountSecurity",
                  "existSession", "uidToSid", "isValidSid", "sidToUid",
                  "updatePassword"}

Open(p) ==
    /\ pc[p] \in Transactional /\ txn = Free
    /\ txn' = p
    /\ UNCHANGED <<sessions, pending, passwords, jar, pc, req, local, reply,
                   started, known, drawn>>

Calling(p, call) == txn = p /\ pc[p] = call

Continue(p, next) == pc' = [pc EXCEPT ![p] = next] /\ UNCHANGED reply
Answer(p, outcome) ==
    /\ pc' = [pc EXCEPT ![p] = "idle"]
    /\ reply' = [reply EXCEPT ![p] = outcome]

\* The end of a transaction takes along what others inserted in it.
Commit == sessions' = sessions \union pending /\ pending' = {} /\ txn' = Free
Abort == pending' = {} /\ txn' = Free /\ UNCHANGED sessions

Refused(p) ==
    /\ pc[p] \in Transactional /\ txn \notin {Free, p}
    /\ Answer(p, "error")
    /\ UNCHANGED <<sessions, pending, passwords, txn, jar, req, local, started,
                   known, drawn>>

-----------------------------------------------------------------------------
(* Requests. The sid is read from the cookie session when the handler starts. *)

FirstStep(kind, sid) ==
    CASE kind = "login" -> "selectFromAccountSecurity"
      [] kind = "logout" -> "removeSid"
      [] kind = "stocks" -> "sidToUid"
      [] kind = "trade" \/ (kind \in Guarded /\ sid # NoSid) -> "isValidSid"
      [] kind = "home" /\ sid = NoSid -> "idle"
      [] kind \in Guarded \ {"home"} /\ sid = NoSid -> "removeSid"

Start(p) ==
    /\ pc[p] = "idle" /\ started < MaxRequests
    /\ \E r \in Requests :
         LET sid == jar[r.client]
         IN  /\ req' = [req EXCEPT ![p] = r]
             /\ local' = [local EXCEPT ![p] = [sid |-> sid, uid |-> Nobody]]
             /\ pc' = [pc EXCEPT ![p] = FirstStep(r.kind, sid)]
             /\ reply' = [reply EXCEPT ![p] =
                            IF FirstStep(r.kind, sid) = "idle" THEN "page" ELSE "none"]
    /\ started' = started + 1
    /\ UNCHANGED <<sessions, pending, passwords, txn, jar, known, drawn>>

-----------------------------------------------------------------------------
(* /authenticate. *)

\* A name nobody registered returns before the commit: the transaction is
\* rolled back when the function is left.
SelectFromAccountSecurity(p) ==
    LET name == req[p].user
        matches == name \in Users /\ passwords[name] = req[p].password
    IN  /\ Calling(p, "selectFromAccountSecurity")
        /\ IF name \in Users THEN Commit ELSE Abort
        /\ IF matches THEN Continue(p, "selectIdFromAccountSecurity")
           ELSE Answer(p, "failed")
        /\ known' = IF matches
                    THEN [known EXCEPT ![req[p].client] = @ \union {name}] ELSE known
        /\ UNCHANGED <<passwords, jar, req, local, started, drawn>>

\* Mutant: the commit is left out, and the destructor of the work rolls back.
SelectIdFromAccountSecurityUncommitted(p) ==
    /\ Calling(p, "selectIdFromAccountSecurity")
    /\ local' = [local EXCEPT ![p].uid = req[p].user]
    /\ Abort
    /\ Continue(p, "existSession")
    /\ UNCHANGED <<passwords, jar, req, started, known, drawn>>

SelectIdFromAccountSecurity(p) ==
    /\ Calling(p, "selectIdFromAccountSecurity")
    /\ local' = [local EXCEPT ![p].uid = req[p].user]
    /\ Commit
    /\ Continue(p, "existSession")
    /\ UNCHANGED <<passwords, jar, req, started, known, drawn>>

\* Mutant: only a session that has not expired counts.
ExistSessionUnexpired(p) ==
    LET theirs == {row \in WithUid(local[p].uid) : ~row.expired}
    IN  /\ Calling(p, "existSession")
        /\ Commit
        /\ \/ theirs # {} /\ Continue(p, "uidToSid") /\ UNCHANGED <<local, drawn>>
           \/ /\ theirs = {}
              /\ \E sid \in Sids \ drawn :
                   /\ local' = [local EXCEPT ![p].sid = sid]
                   /\ drawn' = drawn \union {sid}
                   /\ Continue(p, "insertSession")
        /\ UNCHANGED <<passwords, jar, req, started, known>>

\* A user that has a session keeps it, expired or not. Otherwise a sid is drawn
\* and looked up, and the transaction is over.
ExistSession(p) ==
    /\ Calling(p, "existSession")
    /\ Commit
    /\ \/ /\ WithUid(local[p].uid) # {}
          /\ Continue(p, "uidToSid")
          /\ UNCHANGED <<local, drawn>>
       \/ /\ WithUid(local[p].uid) = {}
          /\ \E sid \in Sids \ drawn :
               /\ local' = [local EXCEPT ![p].sid = sid]
               /\ drawn' = IF Collide THEN drawn ELSE drawn \union {sid}
               /\ Continue(p, IF Cardinality(WithSid(sid)) = 1 THEN "isTaken"
                              ELSE "insertSession")
    /\ UNCHANGED <<passwords, jar, req, started, known>>

\* The loop looks the same sid up again, until its row is gone.
IsTaken(p) ==
    /\ pc[p] = "isTaken"
    /\ Cardinality(WithSid(local[p].sid)) # 1
    /\ Continue(p, "insertSession")
    /\ UNCHANGED <<sessions, pending, passwords, txn, jar, req, local, started,
                   known, drawn>>

\* Mutants: the client gets the sid that was inserted, which is not read back, and
\* the row always waits for the next commit.
InsertSessionThenSetSid(p) ==
    LET row == [sid |-> local[p].sid, uid |-> local[p].uid, by |-> p, expired |-> FALSE]
    IN  /\ pc[p] = "insertSession"
        /\ IF txn = Free
           THEN sessions' = sessions \union {row} /\ UNCHANGED pending
           ELSE pending' = pending \union {row} /\ UNCHANGED sessions
        /\ Continue(p, "setSid")
        /\ UNCHANGED <<passwords, txn, jar, req, local, started, known, drawn>>
InsertSessionDeferred(p) ==
    /\ pc[p] = "insertSession"
    /\ pending' = pending \union
                   {[sid |-> local[p].sid, uid |-> local[p].uid, by |-> p, expired |-> FALSE]}
    /\ Continue(p, "uidToSid")
    /\ UNCHANGED <<sessions, passwords, txn, jar, req, local, started, known, drawn>>

InsertSession(p) ==
    LET row == [sid |-> local[p].sid, uid |-> local[p].uid, by |-> p, expired |-> FALSE]
    IN  /\ pc[p] = "insertSession"
        /\ IF txn = Free
           THEN sessions' = sessions \union {row} /\ UNCHANGED pending
           ELSE pending' = pending \union {row} /\ UNCHANGED sessions
        /\ Continue(p, "uidToSid")
        /\ UNCHANGED <<passwords, txn, jar, req, local, started, known, drawn>>

\* Mutant: the first row of the table, whoever's it is.
UidToSidAnyRow(p) ==
    /\ Calling(p, "uidToSid")
    /\ \E row \in Visible : local' = [local EXCEPT ![p].sid = row.sid]
    /\ Commit
    /\ Continue(p, "setSid")
    /\ UNCHANGED <<passwords, jar, req, started, known, drawn>>

\* exec_prepared1 takes exactly one row and throws otherwise.
UidToSid(p) ==
    /\ Calling(p, "uidToSid")
    /\ \/ /\ Cardinality(WithUid(local[p].uid)) = 1
          /\ \E row \in WithUid(local[p].uid) : local' = [local EXCEPT ![p].sid = row.sid]
          /\ Commit
          /\ Continue(p, "setSid")
       \/ /\ Cardinality(WithUid(local[p].uid)) # 1
          /\ Abort
          /\ Answer(p, "error")
          /\ UNCHANGED local
    /\ UNCHANGED <<passwords, jar, req, started, known, drawn>>

SetSid(p) ==
    /\ pc[p] = "setSid"
    /\ jar' = [jar EXCEPT ![req[p].client] = local[p].sid]
    /\ Answer(p, "loggedIn")
    /\ UNCHANGED <<sessions, pending, passwords, txn, req, local, started, known, drawn>>

-----------------------------------------------------------------------------
(* The guards, and what they let through. *)

AfterGuard(kind) ==
    CASE kind \in {"balance", "trade", "changePassword"} -> "sidToUid"
      [] kind = "transfer" -> "getSid"

\* Mutant: an expired session is not valid.
IsValidSidUnexpired(p) ==
    LET valid == \E row \in WithSid(local[p].sid) : ~row.expired
        kind == req[p].kind
    IN  /\ Calling(p, "isValidSid")
        /\ Commit
        /\ \/ ~valid /\ Continue(p, "removeSid")
           \/ valid /\ kind \in {"home", "page"} /\ Answer(p, "page")
           \/ valid /\ kind = "changePassword" /\ Answer(p, "failed")
           \/ valid /\ kind \in Authenticated /\ Continue(p, AfterGuard(kind))
        /\ UNCHANGED <<passwords, jar, req, local, started, known, drawn>>

\* The new password of a change is looked at before the user is looked up.
IsValidSid(p) ==
    LET valid == Cardinality(WithSid(local[p].sid)) = 1
        kind == req[p].kind
    IN  /\ Calling(p, "isValidSid")
        /\ Commit
        /\ \/ ~valid /\ Continue(p, "removeSid")
           \/ valid /\ kind \in {"home", "page"} /\ Answer(p, "page")
           \/ valid /\ kind = "changePassword" /\ Answer(p, "failed")
           \/ valid /\ kind \in Authenticated /\ Continue(p, AfterGuard(kind))
        /\ UNCHANGED <<passwords, jar, req, local, started, known, drawn>>

\* Removes the sid the client has by now, not the one that was looked up.
RemoveSid(p) ==
    /\ pc[p] = "removeSid"
    /\ jar' = [jar EXCEPT ![req[p].client] = NoSid]
    /\ Answer(p, "redirect")
    /\ UNCHANGED <<sessions, pending, passwords, txn, req, local, started, known, drawn>>

\* /profile_action reads the sid of its client a second time.
GetSid(p) ==
    /\ pc[p] = "getSid"
    /\ local' = [local EXCEPT ![p].sid = jar[req[p].client]]
    /\ Continue(p, "sidToUid")
    /\ UNCHANGED <<sessions, pending, passwords, txn, jar, req, started, known, drawn>>

SidToUid(p) ==
    /\ Calling(p, "sidToUid")
    /\ \/ /\ Cardinality(WithSid(local[p].sid)) = 1
          /\ \E row \in WithSid(local[p].sid) : local' = [local EXCEPT ![p].uid = row.uid]
          /\ Commit
          /\ IF req[p].kind = "changePassword" THEN Continue(p, "updatePassword")
             ELSE Answer(p, "served")
       \/ /\ Cardinality(WithSid(local[p].sid)) # 1
          /\ Abort
          /\ Answer(p, "error")
          /\ UNCHANGED local
    /\ UNCHANGED <<passwords, jar, req, started, known, drawn>>

UpdatePassword(p) ==
    /\ Calling(p, "updatePassword")
    /\ passwords' = [passwords EXCEPT ![local[p].uid] = req[p].password]
    /\ Commit
    /\ Answer(p, "served")
    /\ UNCHANGED <<jar, req, local, started, known, drawn>>

-----------------------------------------------------------------------------
(* Time. *)

\* Mutant: a session has no expiry.
ExpireNever == FALSE

Expire ==
    /\ \E row \in sessions :
         /\ ~row.expired
         /\ sessions' = (sessions \ {row}) \union {[row EXCEPT !.expired = TRUE]}
    /\ UNCHANGED <<pending, passwords, txn, jar, pc, req, local, reply, started,
                   known, drawn>>

\* Mutants: the comparison turned around, and a thread whose flag is never set.
DeleteIfExpiryAhead ==
    /\ sessions' = {row \in sessions : row.expired}
    /\ UNCHANGED <<pending, passwords, txn, jar, pc, req, local, reply, started,
                   known, drawn>>
DeleteIfExpiryOverCancelled == FALSE

\* The worker thread, once a second, on its own connection.
DeleteIfExpiryOver ==
    /\ \E row \in sessions : row.expired
    /\ sessions' = {row \in sessions : ~row.expired}
    /\ UNCHANGED <<pending, passwords, txn, jar, pc, req, local, reply, started,
                   known, drawn>>

-----------------------------------------------------------------------------
\* The process dies, as it does when a statement of the thread that deletes
\* sessions throws, and is started again. The table is as the last commit left
\* it; the cookie sessions of Crow were in memory.
Restart ==
    /\ MayCrash
    /\ pending' = {} /\ txn' = Free
    /\ jar' = [c \in Clients |-> NoSid]
    /\ pc' = [p \in Workers |-> "idle"]
    /\ UNCHANGED <<sessions, passwords, req, local, reply, started, known, drawn>>

-----------------------------------------------------------------------------
Work(p) ==
    \/ Open(p) \/ Refused(p)
    \/ SelectFromAccountSecurity(p) \/ SelectIdFromAccountSecurity(p)
    \/ ExistSession(p) \/ IsTaken(p) \/ InsertSession(p) \/ UidToSid(p) \/ SetSid(p)
    \/ IsValidSid(p) \/ RemoveSid(p) \/ GetSid(p) \/ SidToUid(p) \/ UpdatePassword(p)

\* The server waits for clients.
Waiting ==
    /\ started = MaxRequests /\ \A p \in Workers : pc[p] = "idle"
    /\ UNCHANGED vars

Next ==
    \/ \E p \in Workers : Start(p) \/ Work(p)
    \/ Expire
    \/ DeleteIfExpiryOver
    \/ Restart
    \/ Waiting

Spec == Init /\ [][Next]_vars

\* Threads run, sessions expire after their hour and the reaper has its turn.
FairSpec ==
    /\ Spec
    /\ \A p \in Workers : WF_vars(Work(p))
    /\ WF_vars(Expire) /\ WF_vars(DeleteIfExpiryOver)
===================================================================================
