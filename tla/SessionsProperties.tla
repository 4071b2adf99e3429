---------------------------- MODULE SessionsProperties ----------------------------
(***************************************************************************)
(* What Sessions guarantees to the users of the site, and what it does not. *)
(***************************************************************************)
EXTENDS Sessions

Steps == Transactional \union {"isTaken", "insertSession", "setSid", "removeSid", "getSid"}
Replies == {"none", "page", "redirect", "failed", "loggedIn", "served", "error"}
Locals == [sid : Sids \union {NoSid}, uid : Users \union {Nobody}]

\* Every variable keeps its type, and rows wait for a commit only while a
\* transaction is open.
TypeOK ==
    /\ sessions \subseteq Rows /\ pending \subseteq Rows
    /\ passwords \in [Users -> Passwords]
    /\ txn \in Workers \union {Free}
    /\ jar \in [Clients -> Sids \union {NoSid}]
    /\ pc \in [Workers -> Steps \union {"idle"}]
    /\ req \in [Workers -> Requests \union {NoRequest}]
    /\ local \in [Workers -> Locals]
    /\ reply \in [Workers -> Replies]
    /\ started \in Nat
    /\ known \in [Clients -> SUBSET Users]
    /\ drawn \subseteq Sids
    /\ txn = Free => pending = {}

-----------------------------------------------------------------------------
\* A client acts only for users whose password it has presented, also when a
\* login, a logout and the reaper run between the two reads of its session and
\* when it logs in again under another name meanwhile.
ActsForOwnUser ==
    \A p \in Workers :
        reply[p] = "served" => local[p].uid \in known[req[p].client]

\* Nobody is logged out by anybody else: a sid that still stands for a session
\* is taken from a client only when the server restarts or by a request of that
\* client itself, its logout or one that came with another sid. That one has
\* found its own sid without a session, and takes what the client has by then:
\* with several threads a login of the same client meanwhile.
LoginSticks ==
    [][\A c \in Clients :
         jar[c] # NoSid /\ jar'[c] = NoSid /\ WithSid(jar[c]) # {}
           => \/ Restart
              \/ \E p \in Workers :
                   /\ pc[p] = "removeSid" /\ pc'[p] = "idle" /\ req[p].client = c
                   /\ req[p].kind = "logout" \/ local[p].sid # jar[c]]_vars

\* A user has one session at a time. existSession is there to see to it, and
\* uidToSid throws when it is not so.
OneSessionPerUser == \A u \in Users : Cardinality(WithUid(u)) <= 1

StillThere(row) == \E r \in Visible' : r.sid = row.sid /\ r.uid = row.uid

\* With one thread a session, once inserted, stays until it expires, also when the
\* server restarts.
SessionIsKept == [][\A row \in Visible : ~row.expired => StillThere(row)]_vars

\* With several it can be lost with a transaction it was never part of, but then
\* that transaction's own request fails, or the server dies before it ends: no
\* request that goes on, or is answered as asked, undoes another's login.
LostOnlyByRollback ==
    [][\A row \in Visible : ~row.expired /\ ~StillThere(row) =>
         /\ row \in pending
         /\ Restart \/ \E p \in Workers : txn = p /\ pc'[p] = "idle"
                                        /\ reply'[p] \in {"failed", "error"}]_vars

\* A client never holds a sid that can still be rolled back: the row a login has
\* inserted into another thread's transaction is committed before the cookie
\* session gets its sid, or the login fails.
HeldSidsAreCommitted ==
    \A row \in pending :
        /\ \A c \in Clients : jar[c] # row.sid
        /\ \A p \in Workers : pc[p] = "setSid" => local[p].sid # row.sid

-----------------------------------------------------------------------------
\* Every request is answered, a login too whose sid is taken: the row it waits
\* for expires and the reaper deletes it.
EveryRequestAnswered == \A p \in Workers : pc[p] # "idle" ~> pc[p] = "idle"

\* A user with several sessions cannot log in, but not for ever.
LockoutEnds ==
    \A u \in Users : Cardinality(WithUid(u)) > 1 ~> Cardinality(WithUid(u)) <= 1
===================================================================================
