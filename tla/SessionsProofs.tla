------------------------------ MODULE SessionsProofs ------------------------------
(***************************************************************************)
(* Proofs about Sessions for any number of threads, clients, users and      *)
(* requests.                                                                *)
(***************************************************************************)
EXTENDS SessionsProperties, FiniteSetTheorems, TLAPS

\* The steps of the handler of each kind of request.
StepsOf(kind) ==
    CASE kind = "login" ->
           {"selectFromAccountSecurity", "selectIdFromAccountSecurity", "existSession",
            "isTaken", "insertSession", "uidToSid", "setSid"}
      [] kind = "logout" -> {"removeSid"}
      [] kind \in {"home", "page"} -> {"isValidSid", "removeSid"}
      [] kind \in {"balance", "trade"} -> {"isValidSid", "removeSid", "sidToUid"}
      [] kind = "transfer" -> {"isValidSid", "removeSid", "getSid", "sidToUid"}
      [] kind = "stocks" -> {"sidToUid"}
      [] kind = "changePassword" -> {"isValidSid", "removeSid", "sidToUid", "updatePassword"}

Serving(p) == pc[p] # "idle" => req[p] \in Requests /\ pc[p] \in StepsOf(req[p].kind)

\* A login goes on only for a registered user, whom it looks up by id from then
\* on, and inserts a sid it has drawn.
LoggingIn(p) ==
    /\ pc[p] \in StepsOf("login") \ {"selectFromAccountSecurity"} => req[p].user \in Users
    /\ pc[p] \in {"existSession", "isTaken", "insertSession", "uidToSid", "setSid"} =>
         local[p].uid = req[p].user
    /\ pc[p] \in {"isTaken", "insertSession"} => local[p].sid \in Sids

TypeInv == TypeOK /\ \A p \in Workers : Serving(p) /\ LoggingIn(p)

\* What a request holds, by kind.
LEMMA RequestFields ==
    ASSUME NEW r \in Requests
    PROVE  /\ r.client \in Clients
           /\ r.kind \in {"login", "logout", "home", "page", "balance", "trade",
                          "transfer", "stocks", "changePassword"}
           /\ r.kind = "login" => r.user \in Users \union {Nobody} /\ r.password \in Passwords
           /\ r.kind = "changePassword" => r.password \in Passwords
BY SessionKindsAssumption DEF Requests, Authenticated

\* The empty table and idle workers of a new server are well typed.
LEMMA InitTyped == Init => TypeInv
<1> SUFFICES ASSUME Init PROVE TypeInv
  OBVIOUS
<1>1. TypeOK
  BY DEF Init, TypeOK, NoLocals, Locals, Replies
<1>2. \A p \in Workers : Serving(p) /\ LoggingIn(p)
  <2>1. "idle" \notin StepsOf("login")
    BY DEF StepsOf
  <2> QED
    BY <2>1 DEF Init, Serving, LoggingIn
<1> QED
  BY <1>1, <1>2 DEF TypeInv

\* Starting a request preserves typing.
LEMMA StartTyped ==
    ASSUME TypeInv, NEW p \in Workers, Start(p)
    PROVE  TypeInv'
<1>1. PICK r \in Requests :
        /\ req' = [req EXCEPT ![p] = r]
        /\ local' = [local EXCEPT ![p] = [sid |-> jar[r.client], uid |-> Nobody]]
        /\ pc' = [pc EXCEPT ![p] = FirstStep(r.kind, jar[r.client])]
        /\ reply' = [reply EXCEPT ![p] =
                       IF FirstStep(r.kind, jar[r.client]) = "idle" THEN "page" ELSE "none"]
  BY DEF Start
<1> DEFINE first == FirstStep(r.kind, jar[r.client])
<1>2. /\ first = "idle" \/ first \in StepsOf(r.kind)
      /\ first \in Steps \union {"idle"}
  BY RequestFields DEF FirstStep, StepsOf, Guarded, Steps, Transactional
<1>3. [sid |-> jar[r.client], uid |-> Nobody] \in Locals
  BY RequestFields DEF TypeInv, TypeOK, Locals
<1>4. TypeOK'
  BY <1>1, <1>2, <1>3 DEF Start, TypeInv, TypeOK, Replies
<1>5. \A q \in Workers : Serving(q)'
  BY <1>1, <1>2 DEF TypeInv, TypeOK, Serving
<1>6. first \notin StepsOf("login") \ {"selectFromAccountSecurity"}
      /\ first \notin {"existSession", "isTaken", "insertSession", "uidToSid", "setSid"}
  BY RequestFields DEF FirstStep, StepsOf, Guarded
<1>7. \A q \in Workers : LoggingIn(q)'
  BY <1>1, <1>6 DEF TypeInv, TypeOK, LoggingIn
<1> QED
  BY <1>4, <1>5, <1>7 DEF TypeInv

\* Typing in three parts: the rows and their transaction, the handlers, the rest.
RowsTyped ==
    /\ sessions \subseteq Rows /\ pending \subseteq Rows
    /\ txn \in Workers \union {Free} /\ (txn = Free => pending = {})
HandlersTyped ==
    /\ pc \in [Workers -> Steps \union {"idle"}]
    /\ req \in [Workers -> Requests \union {NoRequest}]
    /\ local \in [Workers -> Locals]
    /\ reply \in [Workers -> Replies]
    /\ \A q \in Workers : Serving(q) /\ LoggingIn(q)
RestTyped ==
    /\ passwords \in [Users -> Passwords]
    /\ jar \in [Clients -> Sids \union {NoSid}]
    /\ started \in Nat
    /\ known \in [Clients -> SUBSET Users]
    /\ drawn \subseteq Sids

\* The three parts are all of it, before and after a step.
LEMMA Reassemble == /\ TypeInv <=> RowsTyped /\ HandlersTyped /\ RestTyped
                    /\ TypeInv' <=> RowsTyped' /\ HandlersTyped' /\ RestTyped'
BY DEF TypeInv, TypeOK, RowsTyped, HandlersTyped, RestTyped

\* A transaction that ends, or does not take part, leaves the rows well typed.
LEMMA EndTyped ==
    ASSUME RowsTyped, Commit \/ Abort \/ UNCHANGED <<sessions, pending, txn>>
    PROVE  RowsTyped'
BY DEF RowsTyped, Commit, Abort

\* The handler goes on with a step of its kind of request.
LEMMA ContinueTyped ==
    ASSUME HandlersTyped, NEW p \in Workers, pc[p] # "idle", UNCHANGED req,
           NEW next \in Steps, next \in StepsOf(req[p].kind), Continue(p, next),
           NEW l \in Locals, local' = [local EXCEPT ![p] = l], LoggingIn(p)'
    PROVE  HandlersTyped'
BY DEF HandlersTyped, Continue, Serving, LoggingIn

\* The handler answers.
LEMMA AnswerTyped ==
    ASSUME HandlersTyped, NEW p \in Workers, UNCHANGED req,
           NEW outcome \in Replies, Answer(p, outcome),
           NEW l \in Locals, local' = [local EXCEPT ![p] = l]
    PROVE  HandlersTyped'
<1>1. "idle" \notin StepsOf("login")
  BY DEF StepsOf
<1> QED
  BY <1>1 DEF HandlersTyped, Answer, Serving, LoggingIn

\* What a worker that is not idle holds.
LEMMA Busy ==
    ASSUME HandlersTyped, NEW p \in Workers, pc[p] # "idle"
    PROVE  /\ req[p] \in Requests /\ req[p].client \in Clients
           /\ pc[p] \in StepsOf(req[p].kind)
           /\ pc[p] \in StepsOf("login") <=> req[p].kind = "login"
           /\ local[p] \in Locals /\ local = [local EXCEPT ![p] = local[p]]
           /\ LoggingIn(p)
<1>1. req[p] \in Requests /\ pc[p] \in StepsOf(req[p].kind)
  BY DEF HandlersTyped, Serving
<1>2. pc[p] \in StepsOf("login") <=> req[p].kind = "login"
  BY <1>1, RequestFields DEF StepsOf
<1> QED
  BY <1>1, <1>2, RequestFields DEF HandlersTyped

\* The steps of a login preserve typing.
LEMMA LoginTyped ==
    ASSUME TypeInv, NEW p \in Workers,
           \/ SelectFromAccountSecurity(p) \/ SelectIdFromAccountSecurity(p)
           \/ ExistSession(p) \/ IsTaken(p) \/ InsertSession(p) \/ UidToSid(p) \/ SetSid(p)
    PROVE  TypeInv'
<1>1. RowsTyped /\ HandlersTyped /\ RestTyped
  BY Reassemble
<1>2. /\ {"selectFromAccountSecurity", "selectIdFromAccountSecurity", "existSession",
          "isTaken", "insertSession", "uidToSid", "setSid"} = StepsOf("login")
      /\ StepsOf("login") \subseteq Steps
      /\ {"failed", "error", "loggedIn"} \subseteq Replies
  BY DEF StepsOf, Steps, Transactional, Replies
<1>3. pc[p] # "idle" /\ pc[p] \in StepsOf("login")
  BY <1>2 DEF SelectFromAccountSecurity, SelectIdFromAccountSecurity, ExistSession,
         IsTaken, InsertSession, UidToSid, SetSid, Calling
<1>4. /\ req[p] \in Requests /\ req[p].client \in Clients /\ req[p].kind = "login"
      /\ local[p] \in Locals /\ local = [local EXCEPT ![p] = local[p]] /\ LoggingIn(p)
  BY <1>1, <1>3, Busy
<1>5. CASE SelectFromAccountSecurity(p)
  <2>1. /\ UNCHANGED <<passwords, jar, req, local, started, drawn>>
        /\ Commit \/ Abort
        /\ \/ Continue(p, "selectIdFromAccountSecurity") /\ req[p].user \in Users
           \/ Answer(p, "failed")
    BY <1>5 DEF SelectFromAccountSecurity
  <2>2. RestTyped'
    BY <1>1, <1>4, <1>5, <2>1 DEF SelectFromAccountSecurity, RestTyped
  <2>3. CASE Continue(p, "selectIdFromAccountSecurity") /\ req[p].user \in Users
    <3>1. LoggingIn(p)'
      BY <1>1, <1>2, <2>1, <2>3 DEF LoggingIn, Continue, HandlersTyped
    <3> QED
      BY <1>1, <1>2, <1>3, <1>4, <2>1, <2>2, <2>3, <3>1, EndTyped, ContinueTyped, Reassemble
  <2>4. CASE Answer(p, "failed")
    BY <1>1, <1>2, <1>4, <2>1, <2>2, <2>4, EndTyped, AnswerTyped, Reassemble
  <2> QED
    BY <2>1, <2>3, <2>4
<1>6. CASE SelectIdFromAccountSecurity(p)
  <2> DEFINE l == [local[p] EXCEPT !.uid = req[p].user]
  <2>1. /\ UNCHANGED <<passwords, jar, req, started, known, drawn>>
        /\ Commit /\ Continue(p, "existSession") /\ local' = [local EXCEPT ![p] = l]
        /\ pc[p] = "selectIdFromAccountSecurity"
    BY <1>6 DEF SelectIdFromAccountSecurity, Calling
  <2>2. req[p].user \in Users
    BY <1>2, <1>4, <2>1 DEF LoggingIn
  <2>3. l \in Locals /\ l.uid = req[p].user
    BY <1>4, <2>2 DEF Locals
  <2>4. LoggingIn(p)'
    BY <1>1, <2>1, <2>2, <2>3 DEF LoggingIn, Continue, HandlersTyped
  <2>5. RestTyped'
    BY <1>1, <2>1 DEF RestTyped
  <2> QED
    BY <1>1, <1>2, <1>3, <1>4, <2>1, <2>3, <2>4, <2>5, EndTyped, ContinueTyped, Reassemble
<1>7. CASE ExistSession(p)
  <2>1. /\ UNCHANGED <<passwords, jar, req, started, known>> /\ Commit
        /\ pc[p] = "existSession"
    BY <1>7 DEF ExistSession, Calling
  <2>2. req[p].user \in Users /\ local[p].uid = req[p].user
    BY <1>2, <1>4, <2>1 DEF LoggingIn
  <2>3. CASE Continue(p, "uidToSid") /\ UNCHANGED <<local, drawn>>
    <3>1. LoggingIn(p)'
      BY <1>1, <2>1, <2>2, <2>3 DEF LoggingIn, Continue, HandlersTyped
    <3>2. RestTyped'
      BY <1>1, <2>1, <2>3 DEF RestTyped
    <3> QED
      BY <1>1, <1>2, <1>3, <1>4, <2>1, <2>3, <3>1, <3>2, EndTyped, ContinueTyped, Reassemble
  <2>4. ASSUME NEW sid \in Sids, NEW next \in {"isTaken", "insertSession"},
               local' = [local EXCEPT ![p].sid = sid], Continue(p, next),
               drawn' \in {drawn, drawn \union {sid}}
        PROVE  TypeInv'
    <3> DEFINE l == [local[p] EXCEPT !.sid = sid]
    <3>1. l \in Locals /\ l.uid = req[p].user /\ l.sid = sid
      BY <1>4, <2>2 DEF Locals
    <3>2. LoggingIn(p)'
      BY <1>1, <2>1, <2>2, <2>4, <3>1 DEF LoggingIn, Continue, HandlersTyped
    <3>3. RestTyped'
      BY <1>1, <2>1, <2>4 DEF RestTyped
    <3> QED
      BY <1>1, <1>2, <1>3, <1>4, <2>1, <2>4, <3>1, <3>2, <3>3, EndTyped, ContinueTyped, Reassemble
  <2>5. \/ Continue(p, "uidToSid") /\ UNCHANGED <<local, drawn>>
        \/ \E sid \in Sids : \E next \in {"isTaken", "insertSession"} :
             /\ local' = [local EXCEPT ![p].sid = sid] /\ Continue(p, next)
             /\ drawn' \in {drawn, drawn \union {sid}}
    <3>1. CASE WithUid(local[p].uid) # {}
      BY <1>7, <3>1 DEF ExistSession
    <3>2. CASE WithUid(local[p].uid) = {}
      <4>1. PICK sid \in Sids \ drawn :
              /\ local' = [local EXCEPT ![p].sid = sid]
              /\ drawn' = IF Collide THEN drawn ELSE drawn \union {sid}
              /\ Continue(p, IF Cardinality(WithSid(sid)) = 1 THEN "isTaken"
                             ELSE "insertSession")
        BY <1>7, <3>2 DEF ExistSession
      <4>2. drawn' \in {drawn, drawn \union {sid}}
        BY <4>1
      <4>3. (IF Cardinality(WithSid(sid)) = 1 THEN "isTaken" ELSE "insertSession")
              \in {"isTaken", "insertSession"}
        OBVIOUS
      <4> QED
        BY <4>1, <4>2, <4>3
    <3> QED
      BY <3>1, <3>2
  <2> QED
    BY <2>3, <2>4, <2>5
<1>8. CASE IsTaken(p)
  <2>1. /\ UNCHANGED <<sessions, pending, passwords, txn, jar, req, local, started, known, drawn>>
        /\ Continue(p, "insertSession") /\ pc[p] = "isTaken"
    BY <1>8 DEF IsTaken
  <2>2. LoggingIn(p)'
    BY <1>1, <1>4, <2>1 DEF LoggingIn, Continue, HandlersTyped, StepsOf
  <2>3. RestTyped'
    BY <1>1, <2>1 DEF RestTyped
  <2> QED
    BY <1>1, <1>2, <1>3, <1>4, <2>1, <2>2, <2>3, EndTyped, ContinueTyped, Reassemble
<1>9. CASE InsertSession(p)
  <2> DEFINE row == [sid |-> local[p].sid, uid |-> local[p].uid, by |-> p, expired |-> FALSE]
  <2>1. /\ UNCHANGED <<passwords, txn, jar, req, local, started, known, drawn>>
        /\ Continue(p, "uidToSid") /\ pc[p] = "insertSession"
    BY <1>9 DEF InsertSession
  <2>2. req[p].user \in Users /\ local[p].uid = req[p].user /\ local[p].sid \in Sids
    BY <1>2, <1>4, <2>1 DEF LoggingIn
  <2>3. row \in Rows
    BY <2>2 DEF Rows
  <2>4. RowsTyped'
    BY <1>1, <1>9, <2>1, <2>3 DEF RowsTyped, InsertSession
  <2>5. LoggingIn(p)'
    BY <1>1, <2>1, <2>2 DEF LoggingIn, Continue, HandlersTyped
  <2>6. RestTyped'
    BY <1>1, <2>1 DEF RestTyped
  <2> QED
    BY <1>1, <1>2, <1>3, <1>4, <2>1, <2>4, <2>5, <2>6, ContinueTyped, Reassemble
<1>10. CASE UidToSid(p)
  <2>1. UNCHANGED <<passwords, jar, req, started, known, drawn>> /\ pc[p] = "uidToSid"
    BY <1>10 DEF UidToSid, Calling
  <2>2. RestTyped'
    BY <1>1, <2>1 DEF RestTyped
  <2>3. CASE Abort /\ Answer(p, "error") /\ UNCHANGED local
    BY <1>1, <1>2, <1>4, <2>1, <2>2, <2>3, EndTyped, AnswerTyped, Reassemble
  <2>4. ASSUME NEW row \in WithUid(local[p].uid), local' = [local EXCEPT ![p].sid = row.sid],
               Commit, Continue(p, "setSid")
        PROVE  TypeInv'
    <3> DEFINE l == [local[p] EXCEPT !.sid = row.sid]
    <3>1. l \in Locals /\ l.uid = local[p].uid
      BY <1>1, <1>4, <2>4 DEF Locals, RowsTyped, WithUid, Visible, Rows
    <3>2. LoggingIn(p)'
      BY <1>1, <1>2, <1>4, <2>1, <2>4, <3>1 DEF LoggingIn, Continue, HandlersTyped
    <3> QED
      BY <1>1, <1>2, <1>3, <1>4, <2>1, <2>2, <2>4, <3>1, <3>2, EndTyped, ContinueTyped, Reassemble
  <2>5. \/ Abort /\ Answer(p, "error") /\ UNCHANGED local
        \/ \E row \in WithUid(local[p].uid) :
             local' = [local EXCEPT ![p].sid = row.sid] /\ Commit /\ Continue(p, "setSid")
    BY <1>10 DEF UidToSid
  <2> QED
    BY <2>3, <2>4, <2>5
<1>11. CASE SetSid(p)
  <2>1. /\ UNCHANGED <<sessions, pending, passwords, txn, req, local, started, known, drawn>>
        /\ Answer(p, "loggedIn") /\ jar' = [jar EXCEPT ![req[p].client] = local[p].sid]
    BY <1>11 DEF SetSid
  <2>2. RestTyped'
    BY <1>1, <1>4, <2>1 DEF RestTyped, Locals
  <2> QED
    BY <1>1, <1>2, <1>4, <2>1, <2>2, EndTyped, AnswerTyped, Reassemble
<1> QED
  BY <1>5, <1>6, <1>7, <1>8, <1>9, <1>10, <1>11

\* The steps of the other handlers preserve typing.
LEMMA GuardTyped ==
    ASSUME TypeInv, NEW p \in Workers,
           IsValidSid(p) \/ RemoveSid(p) \/ GetSid(p) \/ SidToUid(p) \/ UpdatePassword(p)
    PROVE  TypeInv'
<1>1. RowsTyped /\ HandlersTyped /\ RestTyped
  BY Reassemble
<1>2. /\ {"isValidSid", "removeSid", "getSid", "sidToUid", "updatePassword"} \subseteq Steps
      /\ {"page", "failed", "error", "redirect", "served"} \subseteq Replies
      /\ StepsOf("login") = {"selectFromAccountSecurity", "selectIdFromAccountSecurity",
                             "existSession", "isTaken", "insertSession", "uidToSid", "setSid"}
  BY DEF StepsOf, Steps, Transactional, Replies
<1>3. pc[p] \in {"isValidSid", "removeSid", "getSid", "sidToUid", "updatePassword"}
  BY DEF IsValidSid, RemoveSid, GetSid, SidToUid, UpdatePassword, Calling
<1>4. /\ req[p] \in Requests /\ req[p].client \in Clients /\ pc[p] \in StepsOf(req[p].kind)
      /\ local[p] \in Locals /\ local = [local EXCEPT ![p] = local[p]] /\ pc[p] # "idle"
  BY <1>1, <1>3, Busy
<1>5. ASSUME NEW next \in {"isValidSid", "removeSid", "getSid", "sidToUid", "updatePassword"},
             Continue(p, next)
      PROVE  LoggingIn(p)'
  BY <1>1, <1>2, <1>5 DEF LoggingIn, Continue, HandlersTyped
<1>6. CASE IsValidSid(p)
  <2>1. /\ UNCHANGED <<passwords, jar, req, local, started, known, drawn>> /\ Commit
        /\ pc[p] = "isValidSid"
        /\ \/ Continue(p, "removeSid") \/ Answer(p, "page") \/ Answer(p, "failed")
           \/ req[p].kind \in Authenticated /\ Continue(p, AfterGuard(req[p].kind))
    BY <1>6 DEF IsValidSid, Calling
  <2>2. RestTyped'
    BY <1>1, <2>1 DEF RestTyped
  <2>3. "removeSid" \in StepsOf(req[p].kind)
    BY <1>4, <2>1, RequestFields DEF StepsOf
  <2>4. req[p].kind \in Authenticated =>
          AfterGuard(req[p].kind) \in {"sidToUid", "getSid"} \intersect StepsOf(req[p].kind)
    BY <1>4, <2>1, RequestFields DEF StepsOf, AfterGuard, Authenticated
  <2>5. CASE \E next \in {"page", "failed"} : Answer(p, next)
    BY <1>1, <1>2, <1>4, <2>1, <2>2, <2>5, EndTyped, AnswerTyped, Reassemble
  <2>6. ASSUME NEW next \in {"removeSid", "sidToUid", "getSid"}, next \in StepsOf(req[p].kind),
               Continue(p, next)
        PROVE  TypeInv'
    BY <1>1, <1>2, <1>4, <1>5, <2>1, <2>2, <2>6, EndTyped, ContinueTyped, Reassemble
  <2> QED
    BY <2>1, <2>3, <2>4, <2>5, <2>6
<1>7. CASE RemoveSid(p)
  <2>1. /\ UNCHANGED <<sessions, pending, passwords, txn, req, local, started, known, drawn>>
        /\ Answer(p, "redirect") /\ jar' = [jar EXCEPT ![req[p].client] = NoSid]
    BY <1>7 DEF RemoveSid
  <2>2. RestTyped'
    BY <1>1, <1>4, <2>1 DEF RestTyped
  <2> QED
    BY <1>1, <1>2, <1>4, <2>1, <2>2, EndTyped, AnswerTyped, Reassemble
<1>8. CASE GetSid(p)
  <2> DEFINE l == [local[p] EXCEPT !.sid = jar[req[p].client]]
  <2>1. /\ UNCHANGED <<sessions, pending, passwords, txn, jar, req, started, known, drawn>>
        /\ Continue(p, "sidToUid") /\ local' = [local EXCEPT ![p] = l] /\ pc[p] = "getSid"
    BY <1>8 DEF GetSid
  <2>2. l \in Locals
    BY <1>1, <1>4 DEF Locals, RestTyped
  <2>3. "sidToUid" \in StepsOf(req[p].kind)
    BY <1>4, <2>1, RequestFields DEF StepsOf
  <2>4. RestTyped'
    BY <1>1, <2>1 DEF RestTyped
  <2> QED
    BY <1>1, <1>2, <1>4, <1>5, <2>1, <2>2, <2>3, <2>4, EndTyped, ContinueTyped, Reassemble
<1>9. CASE SidToUid(p)
  <2>1. UNCHANGED <<passwords, jar, req, started, known, drawn>> /\ pc[p] = "sidToUid"
    BY <1>9 DEF SidToUid, Calling
  <2>2. RestTyped'
    BY <1>1, <2>1 DEF RestTyped
  <2>3. CASE Abort /\ Answer(p, "error") /\ UNCHANGED local
    BY <1>1, <1>2, <1>4, <2>1, <2>2, <2>3, EndTyped, AnswerTyped, Reassemble
  <2>4. ASSUME NEW row \in WithSid(local[p].sid), local' = [local EXCEPT ![p].uid = row.uid],
               Commit,
               \/ req[p].kind = "changePassword" /\ Continue(p, "updatePassword")
               \/ Answer(p, "served")
        PROVE  TypeInv'
    <3> DEFINE l == [local[p] EXCEPT !.uid = row.uid]
    <3>1. l \in Locals
      BY <1>1, <1>4, <2>4 DEF Locals, RowsTyped, WithSid, Visible, Rows
    <3>2. req[p].kind = "changePassword" => "updatePassword" \in StepsOf(req[p].kind)
      BY DEF StepsOf
    <3>3. CASE Answer(p, "served")
      BY <1>1, <1>2, <1>4, <2>1, <2>2, <2>4, <3>1, <3>3, EndTyped, AnswerTyped, Reassemble
    <3>4. CASE req[p].kind = "changePassword" /\ Continue(p, "updatePassword")
      BY <1>1, <1>2, <1>4, <1>5, <2>1, <2>2, <2>4, <3>1, <3>2, <3>4, EndTyped, ContinueTyped,
         Reassemble
    <3> QED
      BY <2>4, <3>3, <3>4
  <2>5. \/ Abort /\ Answer(p, "error") /\ UNCHANGED local
        \/ \E row \in WithSid(local[p].sid) :
             /\ local' = [local EXCEPT ![p].uid = row.uid] /\ Commit
             /\ \/ req[p].kind = "changePassword" /\ Continue(p, "updatePassword")
                \/ Answer(p, "served")
    BY <1>9 DEF SidToUid
  <2> QED
    BY <2>3, <2>4, <2>5
<1>10. CASE UpdatePassword(p)
  <2>1. /\ UNCHANGED <<jar, req, local, started, known, drawn>> /\ Commit /\ Answer(p, "served")
        /\ passwords' = [passwords EXCEPT ![local[p].uid] = req[p].password]
        /\ pc[p] = "updatePassword"
    BY <1>10 DEF UpdatePassword, Calling
  <2>2. req[p].password \in Passwords
    BY <1>4, <2>1, RequestFields DEF StepsOf
  <2>3. RestTyped'
    BY <1>1, <2>1, <2>2 DEF RestTyped
  <2> QED
    BY <1>1, <1>2, <1>4, <2>1, <2>3, EndTyped, AnswerTyped, Reassemble
<1> QED
  BY <1>6, <1>7, <1>8, <1>9, <1>10

\* The clock and the reaper preserve typing.
LEMMA TimeTyped ==
    ASSUME TypeInv, Expire \/ DeleteIfExpiryOver
    PROVE  TypeInv'
<1>1. UNCHANGED <<pending, passwords, txn, jar, pc, req, local, reply, started, known, drawn>>
  BY DEF Expire, DeleteIfExpiryOver
<1>2. sessions \subseteq Rows
  BY DEF TypeInv, TypeOK
<1>3. \A row \in Rows : [row EXCEPT !.expired = TRUE] \in Rows
  BY DEF Rows
<1>4. sessions' \subseteq Rows
  BY <1>2, <1>3 DEF Expire, DeleteIfExpiryOver
<1> QED
  BY <1>1, <1>4 DEF TypeInv, TypeOK, Serving, LoggingIn

\* TypeInv is inductive.
LEMMA NextTyped == TypeInv /\ [Next]_vars => TypeInv'
<1> SUFFICES ASSUME TypeInv, [Next]_vars PROVE TypeInv'
  OBVIOUS
<1>1. ASSUME NEW p \in Workers, Open(p) PROVE TypeInv'
  BY <1>1 DEF Open, TypeInv, TypeOK, Serving, LoggingIn
<1>2. ASSUME NEW p \in Workers, Refused(p) PROVE TypeInv'
  <2>1. /\ UNCHANGED <<sessions, pending, passwords, txn, jar, req, local, started, known, drawn>>
        /\ Answer(p, "error") /\ "error" \in Replies
    BY <1>2 DEF Refused, Replies
  <2>2. local[p] \in Locals /\ local = [local EXCEPT ![p] = local[p]]
    BY DEF TypeInv, TypeOK
  <2>3. RestTyped'
    BY <2>1, Reassemble DEF RestTyped
  <2> QED
    BY <2>1, <2>2, <2>3, EndTyped, AnswerTyped, Reassemble
<1>3. CASE UNCHANGED vars
  BY <1>3 DEF vars, TypeInv, TypeOK, Serving, LoggingIn
<1>4. CASE Restart
  <2>1. "idle" \notin StepsOf("login")
    BY DEF StepsOf
  <2> QED
    BY <1>4, <2>1 DEF Restart, TypeInv, TypeOK, Serving, LoggingIn
<1> QED
  BY <1>1, <1>2, <1>3, <1>4, StartTyped, LoginTyped, GuardTyped, TimeTyped DEF Next, Work, Waiting

\* Rows, handlers and cookies keep their types, and rows wait for a commit only
\* while some thread's transaction is open.
THEOREM SessionsTypeCorrect == Spec => []TypeOK
<1>1. TypeInv => TypeOK
  BY DEF TypeInv
<1> QED
  BY <1>1, InitTyped, NextTyped, PTL DEF Spec

-----------------------------------------------------------------------------
(* Whose sid is whose, when a sid is never drawn twice.                     *)

\* A sid about to be inserted is nobody else's yet.
Fresh(p) ==
    pc[p] = "insertSession" =>
        /\ \A row \in Visible : row.sid # local[p].sid
        /\ \A c \in Clients : jar[c] # local[p].sid
        /\ \A q \in Workers \ {p} : local[q].sid # local[p].sid

\* What a worker holds stands for users its client has logged in as.
Mine(p) ==
    /\ pc[p] # "isTaken"
    /\ Fresh(p)
    /\ req[p] \in Requests =>
         \A row \in Visible : row.sid = local[p].sid => row.uid \in known[req[p].client]
    /\ pc[p] \in StepsOf("login") \ {"selectFromAccountSecurity"} =>
         req[p].user \in known[req[p].client]
    /\ pc[p] = "updatePassword" \/ reply[p] = "served" =>
         req[p] \in Requests /\ local[p].uid \in known[req[p].client]

OwnInv ==
    /\ \A row \in Visible : row.sid \in drawn
    /\ \A c \in Clients : jar[c] \in drawn \union {NoSid}
    /\ \A p \in Workers : local[p].sid \in drawn \union {NoSid}
    /\ \A r, q \in Visible : r.sid = q.sid => r.uid = q.uid
    /\ \A c \in Clients : \A row \in Visible : row.sid = jar[c] => row.uid \in known[c]
    /\ \A p \in Workers : Mine(p)

\* Every row of the next state has the sid and the user of a row of this one.
NoNewRows == \A row \in Visible' : \E old \in Visible : old.sid = row.sid /\ old.uid = row.uid

\* The end of a transaction, or none, brings no new rows.
LEMMA EndRows ==
    ASSUME Commit \/ Abort \/ UNCHANGED <<sessions, pending>>
    PROVE  NoNewRows
BY DEF NoNewRows, Commit, Abort, Visible

\* No step of one worker touches what another holds.
Others(p) ==
    \A q \in Workers \ {p} : /\ pc'[q] = pc[q] /\ req'[q] = req[q]
                             /\ local'[q] = local[q] /\ reply'[q] = reply[q]

\* A step without new rows is sound when what it does for its own worker is.
LEMMA Frame ==
    ASSUME TypeInv, OwnInv, NEW p \in Workers, NoNewRows, Others(p),
           \A c \in Clients : known[c] \subseteq known'[c],
           drawn \subseteq drawn',
           \A c \in Clients : \/ jar'[c] \in {jar[c], NoSid}
                              \/ c = req[p].client /\ req[p] \in Requests
                                 /\ pc[p] # "insertSession" /\ jar'[c] = local[p].sid,
           local'[p].sid \in drawn' \union {NoSid},
           \A q \in Workers \ {p} : pc[q] = "insertSession" => local'[p].sid # local[q].sid,
           Mine(p)'
    PROVE  OwnInv'
<1> USE DEF NoNewRows
<1>1. \A row \in Visible : row.sid \in Sids
  BY DEF TypeInv, TypeOK, Visible, Rows
<1>2. (\A row \in Visible : row.sid \in drawn)'
  BY DEF OwnInv
<1>3. (\A r, q \in Visible : r.sid = q.sid => r.uid = q.uid)'
  BY DEF OwnInv
<1>4. (\A c \in Clients : jar[c] \in drawn \union {NoSid})'
  BY DEF OwnInv
<1>5. (\A q \in Workers : local[q].sid \in drawn \union {NoSid})'
  BY DEF OwnInv, Others
<1>6. (\A c \in Clients : \A row \in Visible : row.sid = jar[c] => row.uid \in known[c])'
  <2> SUFFICES ASSUME NEW c \in Clients, NEW row \in Visible', row.sid = jar'[c]
               PROVE  row.uid \in known'[c]
    OBVIOUS
  <2>1. PICK old \in Visible : old.sid = row.sid /\ old.uid = row.uid
    OBVIOUS
  <2>2. jar'[c] # NoSid
    BY <1>1, <2>1, SidsAssumption
  <2>3. CASE jar'[c] = jar[c]
    BY <2>1, <2>3 DEF OwnInv
  <2>4. CASE c = req[p].client /\ req[p] \in Requests /\ jar'[c] = local[p].sid
    BY <2>1, <2>4 DEF OwnInv, Mine
  <2> QED
    BY <2>2, <2>3, <2>4
<1>7. ASSUME NEW q \in Workers \ {p}
      PROVE  Mine(q)'
  <2>1. /\ pc'[q] = pc[q] /\ req'[q] = req[q] /\ local'[q] = local[q] /\ reply'[q] = reply[q]
        /\ Mine(q) /\ Fresh(q)
    BY <1>7 DEF Others, OwnInv, Mine
  <2>2. req[q] \in Requests => req[q].client \in Clients
    BY RequestFields
  <2>3. Fresh(q)'
    <3> SUFFICES ASSUME pc[q] = "insertSession"
                 PROVE  /\ \A row \in Visible' : row.sid # local[q].sid
                        /\ \A c \in Clients : jar'[c] # local[q].sid
                        /\ \A o \in Workers \ {q} : local'[o].sid # local[q].sid
      BY <2>1 DEF Fresh
    <3>1. local[q].sid \in Sids
      BY <1>7 DEF TypeInv, LoggingIn
    <3>2. \A row \in Visible' : row.sid # local[q].sid
      BY <2>1 DEF Fresh
    <3>3. \A c \in Clients : jar'[c] # local[q].sid
      BY <1>7, <2>1, <3>1, SidsAssumption DEF Fresh
    <3>4. \A o \in Workers \ {q} : local'[o].sid # local[q].sid
      BY <1>7, <2>1 DEF Fresh, Others
    <3> QED
      BY <3>2, <3>3, <3>4
  <2>4. (req[q] \in Requests =>
           \A row \in Visible : row.sid = local[q].sid => row.uid \in known[req[q].client])'
    BY <2>1, <2>2 DEF Mine
  <2>5. pc[q] # "idle" => req[q] \in Requests
    BY <1>7 DEF TypeInv, Serving
  <2>6. "idle" \notin StepsOf("login")
    BY DEF StepsOf
  <2>7. reply[q] = "served" => req[q] \in Requests
    BY <2>1 DEF Mine
  <2> QED
    BY <2>1, <2>2, <2>3, <2>4, <2>5, <2>6, <2>7 DEF Mine
<1> QED
  BY <1>2, <1>3, <1>4, <1>5, <1>6, <1>7 DEF OwnInv

\* A step within one request, that neither draws nor inserts a sid.
LEMMA SameSid ==
    ASSUME TypeInv, OwnInv, NEW p \in Workers, NoNewRows, Others(p), UNCHANGED <<req, drawn>>,
           \A c \in Clients : known[c] \subseteq known'[c],
           \A c \in Clients : \/ jar'[c] \in {jar[c], NoSid}
                              \/ c = req[p].client /\ pc[p] # "insertSession"
                                 /\ jar'[c] = local[p].sid,
           pc[p] # "idle", local'[p].sid = local[p].sid,
           pc'[p] \notin {"isTaken", "insertSession"},
           pc'[p] \in StepsOf("login") \ {"selectFromAccountSecurity"} =>
             req[p].user \in known'[req[p].client],
           pc'[p] = "updatePassword" \/ reply'[p] = "served" =>
             local'[p].uid \in known'[req[p].client]
    PROVE  OwnInv'
<1>1. req[p] \in Requests /\ req[p].client \in Clients
  BY RequestFields DEF TypeInv, Serving
<1>2. (\A row \in Visible : row.sid = local[p].sid => row.uid \in known[req[p].client])'
  BY <1>1 DEF OwnInv, Mine, NoNewRows
<1>3. \A q \in Workers \ {p} : pc[q] = "insertSession" => local'[p].sid # local[q].sid
  BY DEF OwnInv, Mine, Fresh
<1>4. Mine(p)'
  BY <1>1, <1>2 DEF Mine, Fresh
<1> QED
  BY <1>1, <1>3, <1>4, Frame DEF OwnInv

\* A request starts with the sid of its client.
LEMMA StartOwn ==
    ASSUME TypeInv, OwnInv, NEW p \in Workers, Start(p)
    PROVE  OwnInv'
<1>1. PICK r \in Requests :
        /\ req' = [req EXCEPT ![p] = r]
        /\ local' = [local EXCEPT ![p] = [sid |-> jar[r.client], uid |-> Nobody]]
        /\ pc' = [pc EXCEPT ![p] = FirstStep(r.kind, jar[r.client])]
        /\ reply' = [reply EXCEPT ![p] =
                       IF FirstStep(r.kind, jar[r.client]) = "idle" THEN "page" ELSE "none"]
  BY DEF Start
<1>2. UNCHANGED <<sessions, pending, jar, known, drawn>> /\ r.client \in Clients
  BY RequestFields DEF Start
<1>3. /\ pc \in [Workers -> Steps \union {"idle"}] /\ req \in [Workers -> Requests \union {NoRequest}]
      /\ local \in [Workers -> Locals] /\ reply \in [Workers -> Replies]
  BY DEF TypeInv, TypeOK
<1>4. FirstStep(r.kind, jar[r.client]) \notin
        {"isTaken", "insertSession", "updatePassword"}
          \union (StepsOf("login") \ {"selectFromAccountSecurity"})
  BY RequestFields DEF FirstStep, StepsOf, Guarded
<1>5. /\ pc'[p] = FirstStep(r.kind, jar[r.client]) /\ req'[p] = r
      /\ local'[p].sid = jar[r.client] /\ reply'[p] \in {"page", "none"}
  BY <1>1, <1>3
<1>6. Others(p)
  BY <1>1, <1>3 DEF Others
<1>7. NoNewRows
  BY <1>2, EndRows
<1>8. Mine(p)'
  BY <1>2, <1>4, <1>5 DEF Mine, Fresh, OwnInv, Visible
<1>9. \A q \in Workers \ {p} : pc[q] = "insertSession" => local'[p].sid # local[q].sid
  BY <1>2, <1>5 DEF OwnInv, Mine, Fresh
<1>10. local'[p].sid \in drawn' \union {NoSid}
  BY <1>2, <1>5 DEF OwnInv
<1> QED
  BY <1>2, <1>6, <1>7, <1>8, <1>9, <1>10, Frame

\* The steps of a login that draw no sid.
LEMMA LoginOwn ==
    ASSUME TypeInv, OwnInv, NEW p \in Workers,
           SelectFromAccountSecurity(p) \/ SelectIdFromAccountSecurity(p) \/ SetSid(p)
    PROVE  OwnInv'
<1>1. /\ pc \in [Workers -> Steps \union {"idle"}] /\ local \in [Workers -> Locals]
      /\ reply \in [Workers -> Replies] /\ jar \in [Clients -> Sids \union {NoSid}]
      /\ known \in [Clients -> SUBSET Users]
  BY DEF TypeInv, TypeOK
<1>2. pc[p] \in {"selectFromAccountSecurity", "selectIdFromAccountSecurity", "setSid"}
  BY DEF SelectFromAccountSecurity, SelectIdFromAccountSecurity, SetSid, Calling
<1>3. "idle" \notin StepsOf("login") /\ {"selectIdFromAccountSecurity", "setSid"} \subseteq StepsOf("login")
  BY DEF StepsOf
<1>4. req[p] \in Requests /\ req[p].client \in Clients
  BY <1>2, RequestFields DEF TypeInv, Serving
<1>5. CASE SelectFromAccountSecurity(p)
  <2>1. /\ UNCHANGED <<passwords, jar, req, local, started, drawn>>
        /\ NoNewRows
        /\ \/ /\ Continue(p, "selectIdFromAccountSecurity")
              /\ known' = [known EXCEPT ![req[p].client] = @ \union {req[p].user}]
           \/ Answer(p, "failed") /\ known' = known
    BY <1>5, EndRows DEF SelectFromAccountSecurity
  <2>2. Others(p)
    BY <1>1, <2>1 DEF Others, Continue, Answer
  <2>3. \A c \in Clients : known[c] \subseteq known'[c]
    BY <1>1, <2>1
  <2>4. CASE /\ Continue(p, "selectIdFromAccountSecurity")
             /\ known' = [known EXCEPT ![req[p].client] = @ \union {req[p].user}]
    <3>1. pc'[p] = "selectIdFromAccountSecurity" /\ reply' = reply
          /\ req[p].user \in known'[req[p].client]
      BY <1>1, <1>4, <2>4 DEF Continue
    <3>2. reply[p] = "served" => local[p].uid \in known[req[p].client]
      BY DEF OwnInv, Mine
    <3> QED
      BY <1>2, <1>4, <2>1, <2>2, <2>3, <3>1, <3>2, SameSid
  <2>5. CASE Answer(p, "failed") /\ known' = known
    <3>1. pc'[p] = "idle" /\ reply'[p] = "failed"
      BY <1>1, <2>5 DEF Answer
    <3> QED
      BY <1>2, <1>3, <2>1, <2>2, <2>3, <3>1, SameSid
  <2> QED
    BY <2>1, <2>4, <2>5
<1>6. CASE SelectIdFromAccountSecurity(p)
  <2>1. /\ UNCHANGED <<passwords, jar, req, started, known, drawn, reply>>
        /\ NoNewRows /\ pc' = [pc EXCEPT ![p] = "existSession"]
        /\ local' = [local EXCEPT ![p].uid = req[p].user]
        /\ pc[p] = "selectIdFromAccountSecurity"
    BY <1>6, EndRows DEF SelectIdFromAccountSecurity, Continue, Calling
  <2>2. Others(p) /\ pc'[p] = "existSession" /\ local'[p].sid = local[p].sid
        /\ local'[p].uid = req[p].user
    BY <1>1, <2>1 DEF Others, Locals
  <2>3. req[p].user \in known[req[p].client]
    BY <1>3, <2>1 DEF OwnInv, Mine
  <2> QED
    BY <1>2, <2>1, <2>2, <2>3, SameSid
<1>7. CASE SetSid(p)
  <2>1. /\ UNCHANGED <<sessions, pending, req, local, drawn, known>>
        /\ jar' = [jar EXCEPT ![req[p].client] = local[p].sid] /\ Answer(p, "loggedIn")
        /\ pc[p] = "setSid"
    BY <1>7 DEF SetSid
  <2>2. Others(p) /\ pc'[p] = "idle" /\ reply'[p] = "loggedIn" /\ NoNewRows
    BY <1>1, <2>1, EndRows DEF Others, Answer
  <2>3. \A c \in Clients : \/ jar'[c] \in {jar[c], NoSid}
                           \/ c = req[p].client /\ jar'[c] = local[p].sid
    BY <1>1, <2>1
  <2> QED
    BY <1>3, <2>1, <2>2, <2>3, SameSid
<1> QED
  BY <1>5, <1>6, <1>7

\* A sid is drawn that nothing holds, so that the loop on a taken one is not
\* entered.
LEMMA DrawOwn ==
    ASSUME Collide = FALSE, TypeInv, OwnInv, NEW p \in Workers, ExistSession(p)
    PROVE  OwnInv'
<1>1. /\ pc \in [Workers -> Steps \union {"idle"}] /\ local \in [Workers -> Locals]
  BY DEF TypeInv, TypeOK
<1>2. /\ UNCHANGED <<jar, req, known, reply>> /\ pc[p] = "existSession" /\ NoNewRows
  BY EndRows DEF ExistSession, Calling, Continue
<1>3. req[p] \in Requests /\ req[p].client \in Clients
  BY <1>2, RequestFields DEF TypeInv, Serving
<1>4. req[p].user \in known[req[p].client]
      /\ (reply[p] = "served" => local[p].uid \in known[req[p].client])
  BY <1>2 DEF OwnInv, Mine, StepsOf
<1>5. CASE Continue(p, "uidToSid") /\ UNCHANGED <<local, drawn>>
  <2>1. Others(p) /\ pc'[p] = "uidToSid"
    BY <1>1, <1>2, <1>5 DEF Others, Continue
  <2> QED
    BY <1>2, <1>4, <1>5, <2>1, SameSid
<1>6. CASE WithUid(local[p].uid) = {}
  <2>1. PICK sid \in Sids \ drawn :
          /\ local' = [local EXCEPT ![p].sid = sid] /\ drawn' = drawn \union {sid}
          /\ Continue(p, IF Cardinality(WithSid(sid)) = 1 THEN "isTaken" ELSE "insertSession")
    BY <1>6 DEF ExistSession
  <2>2. sid # NoSid
    BY SidsAssumption
  <2>3. WithSid(sid) = {}
    BY <2>1 DEF WithSid, OwnInv
  <2>4. Cardinality(WithSid(sid)) # 1
    BY <2>3, FS_EmptySet
  <2>5. /\ pc' = [pc EXCEPT ![p] = "insertSession"]
        /\ local'[p].sid = sid /\ local'[p].uid = local[p].uid
    BY <1>1, <2>1, <2>4 DEF Continue, Locals
  <2>6. Others(p) /\ pc'[p] = "insertSession"
    BY <1>1, <1>2, <2>1, <2>5 DEF Others
  <2>7. /\ \A row \in Visible' : row.sid # sid
        /\ \A c \in Clients : jar'[c] # sid
        /\ \A q \in Workers \ {p} : local'[q].sid # sid
    BY <1>2, <2>2, <2>1, <2>6 DEF OwnInv, NoNewRows, Others
  <2>8. Mine(p)'
    BY <1>2, <1>3, <1>4, <2>5, <2>6, <2>7 DEF Mine, Fresh
  <2>9. \A q \in Workers \ {p} : pc[q] = "insertSession" => local'[p].sid # local[q].sid
    BY <2>5, <2>6, <2>7 DEF Others
  <2> QED
    BY <1>2, <2>1, <2>5, <2>6, <2>8, <2>9, Frame
<1> QED
  BY <1>5, <1>6 DEF ExistSession

\* The row inserted has a fresh sid and is the user's own.
LEMMA InsertOwn ==
    ASSUME TypeInv, OwnInv, NEW p \in Workers, InsertSession(p)
    PROVE  OwnInv'
<1> DEFINE new == [sid |-> local[p].sid, uid |-> local[p].uid, by |-> p, expired |-> FALSE]
<1>1. /\ pc \in [Workers -> Steps \union {"idle"}]
  BY DEF TypeInv, TypeOK
<1>2. /\ UNCHANGED <<jar, req, local, known, drawn, reply>>
      /\ pc' = [pc EXCEPT ![p] = "uidToSid"] /\ pc[p] = "insertSession"
      /\ Visible' = Visible \union {new}
  BY DEF InsertSession, Continue, Visible
<1>3. req[p] \in Requests /\ req[p].client \in Clients
  BY <1>2, RequestFields DEF TypeInv, Serving
<1>4. /\ "insertSession" \in StepsOf("login") \ {"selectFromAccountSecurity"}
      /\ local[p].uid = req[p].user /\ local[p].sid \in Sids
      /\ req[p].user \in known[req[p].client]
  BY <1>2 DEF TypeInv, LoggingIn, OwnInv, Mine, StepsOf
<1>5. /\ new.sid = local[p].sid /\ new.uid \in known[req[p].client]
      /\ local[p].sid \in drawn
  BY <1>4, SidsAssumption DEF OwnInv
<1>6. /\ \A row \in Visible : row.sid # local[p].sid
      /\ \A c \in Clients : jar[c] # local[p].sid
      /\ \A q \in Workers \ {p} : local[q].sid # local[p].sid
  BY <1>2 DEF OwnInv, Mine, Fresh
<1>7. Mine(p)'
  <2>1. pc'[p] = "uidToSid"
    BY <1>1, <1>2
  <2>2. \A row \in Visible' : row.sid = local[p].sid => row.uid \in known[req[p].client]
    BY <1>2, <1>5, <1>6
  <2>3. reply[p] = "served" => local[p].uid \in known[req[p].client]
    BY DEF OwnInv, Mine
  <2> QED
    BY <1>2, <1>3, <1>4, <2>1, <2>2, <2>3 DEF Mine, Fresh
<1>8. ASSUME NEW q \in Workers \ {p} PROVE Mine(q)'
  <2>1. pc'[q] = pc[q] /\ Mine(q) /\ Fresh(q) /\ local[q].sid # local[p].sid
    BY <1>1, <1>2, <1>6, <1>8 DEF OwnInv, Mine
  <2>2. Fresh(q)'
    BY <1>2, <1>5, <2>1 DEF Fresh
  <2>3. \A row \in Visible' : row.sid = local[q].sid => row \in Visible
    BY <1>2, <1>5, <2>1
  <2> QED
    BY <1>2, <2>1, <2>2, <2>3 DEF Mine
<1>9. (\A row \in Visible : row.sid \in drawn)'
  BY <1>2, <1>5 DEF OwnInv
<1>10. (\A r, q \in Visible : r.sid = q.sid => r.uid = q.uid)'
  BY <1>2, <1>5, <1>6 DEF OwnInv
<1>11. (\A c \in Clients : \A row \in Visible : row.sid = jar[c] => row.uid \in known[c])'
  BY <1>2, <1>5, <1>6 DEF OwnInv
<1>12. (\A c \in Clients : jar[c] \in drawn \union {NoSid})'
       /\ (\A q \in Workers : local[q].sid \in drawn \union {NoSid})'
  BY <1>2 DEF OwnInv
<1> QED
  BY <1>7, <1>8, <1>9, <1>10, <1>11, <1>12 DEF OwnInv

\* The sid looked up for a login is its user's own.
LEMMA LookupOwn ==
    ASSUME TypeInv, OwnInv, NEW p \in Workers, UidToSid(p)
    PROVE  OwnInv'
<1>1. /\ pc \in [Workers -> Steps \union {"idle"}] /\ local \in [Workers -> Locals]
      /\ reply \in [Workers -> Replies]
  BY DEF TypeInv, TypeOK
<1>2. UNCHANGED <<jar, req, known, drawn>> /\ pc[p] = "uidToSid"
  BY DEF UidToSid, Calling
<1>3. /\ req[p] \in Requests /\ req[p].client \in Clients
      /\ local[p].uid = req[p].user /\ req[p].user \in known[req[p].client]
  BY <1>2, RequestFields DEF TypeInv, Serving, LoggingIn, OwnInv, Mine, StepsOf
<1>4. CASE Abort /\ Answer(p, "error") /\ UNCHANGED local
  <2>1. Others(p) /\ pc'[p] = "idle" /\ reply'[p] = "error" /\ NoNewRows
    BY <1>1, <1>2, <1>4, EndRows DEF Others, Answer
  <2>2. "idle" \notin StepsOf("login")
    BY DEF StepsOf
  <2> QED
    BY <1>2, <1>4, <2>1, <2>2, SameSid
<1>5. ASSUME NEW row \in WithUid(local[p].uid), local' = [local EXCEPT ![p].sid = row.sid],
             Commit, Continue(p, "setSid")
      PROVE  OwnInv'
  <2>1. /\ Others(p) /\ pc'[p] = "setSid" /\ reply'[p] = reply[p]
        /\ local'[p].sid = row.sid /\ local'[p].uid = local[p].uid
    BY <1>1, <1>2, <1>5 DEF Others, Continue, Locals
  <2>2. row \in Visible /\ row.uid = req[p].user
    BY <1>3, <1>5 DEF WithUid
  <2>3. NoNewRows
    BY <1>5, EndRows
  <2>4. \A r \in Visible' : r.sid = row.sid => r.uid \in known[req[p].client]
    BY <1>3, <2>2, <2>3 DEF OwnInv, NoNewRows
  <2>5. Mine(p)'
    <3>1. reply[p] = "served" => local[p].uid \in known[req[p].client]
      BY <1>3
    <3> QED
      BY <1>2, <1>3, <2>1, <2>4, <3>1 DEF Mine, Fresh
  <2>6. \A q \in Workers \ {p} : pc[q] = "insertSession" => local'[p].sid # local[q].sid
    BY <2>1, <2>2 DEF OwnInv, Mine, Fresh
  <2>7. local'[p].sid \in drawn' \union {NoSid}
    BY <1>2, <2>1, <2>2 DEF OwnInv
  <2> QED
    BY <1>2, <2>1, <2>3, <2>5, <2>6, <2>7, Frame
<1>6. \/ Abort /\ Answer(p, "error") /\ UNCHANGED local
      \/ \E row \in WithUid(local[p].uid) :
           local' = [local EXCEPT ![p].sid = row.sid] /\ Commit /\ Continue(p, "setSid")
  BY DEF UidToSid
<1> QED
  BY <1>4, <1>5, <1>6

\* The steps of the guards, and what they let through.
LEMMA GuardOwn ==
    ASSUME TypeInv, OwnInv, NEW p \in Workers,
           IsValidSid(p) \/ RemoveSid(p) \/ GetSid(p) \/ SidToUid(p) \/ UpdatePassword(p)
    PROVE  OwnInv'
<1>1. /\ pc \in [Workers -> Steps \union {"idle"}] /\ local \in [Workers -> Locals]
      /\ reply \in [Workers -> Replies] /\ jar \in [Clients -> Sids \union {NoSid}]
  BY DEF TypeInv, TypeOK
<1>2. /\ UNCHANGED <<req, known, drawn>>
      /\ pc[p] \in {"isValidSid", "removeSid", "getSid", "sidToUid", "updatePassword"}
  BY DEF IsValidSid, RemoveSid, GetSid, SidToUid, UpdatePassword, Calling
<1>3. req[p] \in Requests /\ req[p].client \in Clients
  BY <1>2, RequestFields DEF TypeInv, Serving
<1>4. StepsOf("login") = {"selectFromAccountSecurity", "selectIdFromAccountSecurity",
                          "existSession", "isTaken", "insertSession", "uidToSid", "setSid"}
  BY DEF StepsOf
<1>5. reply[p] = "served" => local[p].uid \in known[req[p].client]
  BY DEF OwnInv, Mine
<1>6. CASE IsValidSid(p)
  <2>1. /\ UNCHANGED <<jar, local>> /\ NoNewRows
        /\ \/ Continue(p, "removeSid") \/ Answer(p, "page") \/ Answer(p, "failed")
           \/ req[p].kind \in Authenticated /\ Continue(p, AfterGuard(req[p].kind))
    BY <1>6, EndRows DEF IsValidSid
  <2>2. /\ Others(p)
        /\ pc'[p] \in {"idle", "removeSid", "sidToUid", "getSid"}
        /\ (reply'[p] = "served" => reply[p] = "served")
    <3>1. CASE \E next \in {"page", "failed"} : Answer(p, next)
      BY <1>1, <1>2, <2>1, <3>1 DEF Others, Answer
    <3>2. ASSUME NEW next \in {"removeSid", "sidToUid", "getSid"}, Continue(p, next)
          PROVE  /\ Others(p) /\ pc'[p] = next /\ reply'[p] = reply[p]
      BY <1>1, <1>2, <2>1, <3>2 DEF Others, Continue
    <3>3. pc[p] = "isValidSid"
      BY <1>6 DEF IsValidSid, Calling
    <3>4. req[p].kind \in Authenticated => AfterGuard(req[p].kind) \in {"sidToUid", "getSid"}
      BY <1>3, <3>3, RequestFields DEF AfterGuard, Authenticated, TypeInv, Serving, StepsOf
    <3> QED
      BY <2>1, <3>1, <3>2, <3>4
  <2> QED
    BY <1>2, <1>4, <1>5, <2>1, <2>2, SameSid
<1>7. CASE RemoveSid(p)
  <2>1. /\ UNCHANGED <<sessions, pending, local>> /\ Answer(p, "redirect")
        /\ jar' = [jar EXCEPT ![req[p].client] = NoSid]
    BY <1>7 DEF RemoveSid
  <2>2. /\ Others(p) /\ NoNewRows /\ pc'[p] = "idle" /\ reply'[p] = "redirect"
        /\ \A c \in Clients : jar'[c] \in {jar[c], NoSid}
    BY <1>1, <1>2, <1>3, <2>1, EndRows DEF Others, Answer
  <2> QED
    BY <1>2, <1>4, <2>1, <2>2, SameSid
<1>8. CASE GetSid(p)
  <2>1. /\ UNCHANGED <<sessions, pending, jar, reply>> /\ pc' = [pc EXCEPT ![p] = "sidToUid"]
        /\ local' = [local EXCEPT ![p].sid = jar[req[p].client]]
    BY <1>8 DEF GetSid, Continue
  <2>2. /\ Others(p) /\ NoNewRows /\ pc'[p] = "sidToUid"
        /\ local'[p].sid = jar[req[p].client] /\ local'[p].uid = local[p].uid
    BY <1>1, <1>2, <1>3, <2>1, EndRows DEF Others, Locals
  <2>3. Mine(p)'
    BY <1>2, <1>3, <1>4, <1>5, <2>1, <2>2 DEF Mine, Fresh, OwnInv, Visible
  <2>4. \A q \in Workers \ {p} : pc[q] = "insertSession" => local'[p].sid # local[q].sid
    BY <1>3, <2>2 DEF OwnInv, Mine, Fresh
  <2>5. local'[p].sid \in drawn' \union {NoSid}
    BY <1>2, <1>3, <2>2 DEF OwnInv
  <2> QED
    BY <1>2, <2>1, <2>2, <2>3, <2>4, <2>5, Frame
<1>9. CASE SidToUid(p)
  <2>1. UNCHANGED jar
    BY <1>9 DEF SidToUid
  <2>2. CASE Abort /\ Answer(p, "error") /\ UNCHANGED local
    <3>1. Others(p) /\ NoNewRows /\ pc'[p] = "idle" /\ reply'[p] = "error"
      BY <1>1, <1>2, <2>2, EndRows DEF Others, Answer
    <3> QED
      BY <1>2, <1>4, <2>1, <2>2, <3>1, SameSid
  <2>3. ASSUME NEW row \in WithSid(local[p].sid), local' = [local EXCEPT ![p].uid = row.uid],
               Commit, Continue(p, "updatePassword") \/ Answer(p, "served")
        PROVE  OwnInv'
    <3>1. NoNewRows
      BY <2>3, EndRows
    <3>2. /\ Others(p) /\ pc'[p] \in {"idle", "updatePassword"}
          /\ local'[p].sid = local[p].sid /\ local'[p].uid = row.uid
      BY <1>1, <1>2, <2>3 DEF Others, Continue, Answer, Locals
    <3>3. row.uid \in known[req[p].client]
      BY <1>3, <2>3 DEF OwnInv, Mine, WithSid
    <3> QED
      BY <1>2, <1>4, <2>1, <3>1, <3>2, <3>3, SameSid
  <2>4. \/ Abort /\ Answer(p, "error") /\ UNCHANGED local
        \/ \E row \in WithSid(local[p].sid) :
             /\ local' = [local EXCEPT ![p].uid = row.uid] /\ Commit
             /\ Continue(p, "updatePassword") \/ Answer(p, "served")
    BY <1>9 DEF SidToUid
  <2> QED
    BY <2>2, <2>3, <2>4
<1>10. CASE UpdatePassword(p)
  <2>1. /\ UNCHANGED <<jar, local>> /\ NoNewRows /\ Answer(p, "served")
        /\ pc[p] = "updatePassword"
    BY <1>10, EndRows DEF UpdatePassword, Calling
  <2>2. Others(p) /\ pc'[p] = "idle"
    BY <1>1, <1>2, <2>1 DEF Others, Answer
  <2>3. local[p].uid \in known[req[p].client]
    BY <2>1 DEF OwnInv, Mine
  <2> QED
    BY <1>2, <1>4, <2>1, <2>2, <2>3, SameSid
<1> QED
  BY <1>6, <1>7, <1>8, <1>9, <1>10

\* A new server has no rows, and its workers and clients hold no sid.
LEMMA InitOwn == Init => OwnInv
<1> SUFFICES ASSUME Init PROVE OwnInv
  OBVIOUS
<1>1. NoRequest \notin Requests
  <2>1. NoRequest.kind = "none"
    BY DEF NoRequest
  <2> QED
    BY <2>1, RequestFields
<1>2. "idle" \notin StepsOf("login")
  BY DEF StepsOf
<1> QED
  BY <1>1, <1>2 DEF Init, OwnInv, Mine, Fresh, NoLocals, Visible

\* A step that changes none of what OwnInv speaks about but the rows, and brings
\* no new ones.
LEMMA RowsOwn ==
    ASSUME OwnInv, NoNewRows, UNCHANGED <<jar, pc, req, local, reply, known, drawn>>
    PROVE  OwnInv'
<1> USE DEF NoNewRows
<1>1. (\A row \in Visible : row.sid \in drawn)'
  BY DEF OwnInv
<1>2. (\A r, q \in Visible : r.sid = q.sid => r.uid = q.uid)'
  BY DEF OwnInv
<1>3. (\A c \in Clients : \A row \in Visible : row.sid = jar[c] => row.uid \in known[c])'
  BY DEF OwnInv
<1>4. \A p \in Workers : Mine(p)'
  BY DEF OwnInv, Mine, Fresh
<1> QED
  BY <1>1, <1>2, <1>3, <1>4 DEF OwnInv

\* OwnInv is inductive, together with typing.
LEMMA NextOwn == Collide = FALSE /\ TypeInv /\ OwnInv /\ [Next]_vars => OwnInv'
<1> SUFFICES ASSUME Collide = FALSE, TypeInv, OwnInv, [Next]_vars PROVE OwnInv'
  OBVIOUS
<1>1. ASSUME NEW p \in Workers, Open(p) PROVE OwnInv'
  BY <1>1, EndRows, RowsOwn DEF Open
<1>2. ASSUME NEW p \in Workers, Refused(p) PROVE OwnInv'
  <2>1. /\ UNCHANGED <<sessions, pending, jar, req, local, known, drawn>>
        /\ Answer(p, "error") /\ pc[p] \in Transactional
    BY <1>2 DEF Refused
  <2>2. NoNewRows
    BY <2>1, EndRows
  <2>3. Others(p) /\ pc'[p] = "idle" /\ reply'[p] = "error"
    BY <2>1 DEF TypeInv, TypeOK, Others, Answer
  <2>4. "idle" \notin Transactional \union StepsOf("login")
    BY DEF Transactional, StepsOf
  <2> QED
    BY <2>1, <2>2, <2>3, <2>4, SameSid
<1>3. ASSUME NEW p \in Workers, IsTaken(p) PROVE OwnInv'
  BY <1>3 DEF IsTaken, OwnInv, Mine
<1>4. CASE Expire \/ DeleteIfExpiryOver
  <2>1. UNCHANGED <<pending, jar, pc, req, local, reply, known, drawn>>
    BY <1>4 DEF Expire, DeleteIfExpiryOver
  <2>2. sessions \subseteq Rows
    BY DEF TypeInv, TypeOK
  <2>3. \A row \in Rows : LET late == [row EXCEPT !.expired = TRUE]
                          IN  late.sid = row.sid /\ late.uid = row.uid
    BY DEF Rows
  <2>4. \A row \in sessions' : \E old \in sessions : old.sid = row.sid /\ old.uid = row.uid
    BY <1>4, <2>2, <2>3 DEF Expire, DeleteIfExpiryOver
  <2> QED
    BY <2>1, <2>4, RowsOwn DEF NoNewRows, Visible
<1>5. CASE UNCHANGED vars
  BY <1>5, EndRows, RowsOwn DEF vars
<1>6. CASE Restart
  <2>1. "idle" \notin StepsOf("login")
    BY DEF StepsOf
  <2>2. NoNewRows
    BY <1>6 DEF Restart, NoNewRows, Visible
  <2>3. /\ UNCHANGED <<req, local, reply, known, drawn>>
        /\ jar' = [c \in Clients |-> NoSid] /\ pc' = [p \in Workers |-> "idle"]
    BY <1>6 DEF Restart
  <2>4. \A row \in Visible : row.sid # NoSid
    BY SidsAssumption DEF Visible, Rows, TypeInv, TypeOK
  <2>5. \A p \in Workers : Mine(p)'
    BY <2>1, <2>2, <2>3 DEF OwnInv, Mine, Fresh, NoNewRows
  <2>6. (\A c \in Clients : \A row \in Visible : row.sid = jar[c] => row.uid \in known[c])'
    BY <2>2, <2>3, <2>4 DEF NoNewRows
  <2>7. (\A row \in Visible : row.sid \in drawn)'
        /\ (\A r, q \in Visible : r.sid = q.sid => r.uid = q.uid)'
    BY <2>2, <2>3 DEF OwnInv, NoNewRows
  <2>8. (\A c \in Clients : jar[c] \in drawn \union {NoSid})'
        /\ (\A p \in Workers : local[p].sid \in drawn \union {NoSid})'
    BY <2>3 DEF OwnInv
  <2> QED
    BY <2>5, <2>6, <2>7, <2>8 DEF OwnInv
<1> QED
  BY <1>1, <1>2, <1>3, <1>4, <1>5, <1>6, StartOwn, LoginOwn, DrawOwn, InsertOwn, LookupOwn, GuardOwn
  DEF Next, Work, Waiting

\* When sids do not collide, a request that is served acts for a user whose
\* password its client has presented, whatever other logins, logouts and the
\* reaper do between the reads of its session.
THEOREM ClientsActForThemselves == Collide = FALSE => (Spec => []ActsForOwnUser)
<1> SUFFICES ASSUME Collide = FALSE PROVE Spec => []ActsForOwnUser
  OBVIOUS
<1>1. Init => TypeInv /\ OwnInv
  BY InitTyped, InitOwn
<1>2. TypeInv /\ OwnInv /\ [Next]_vars => (TypeInv /\ OwnInv)'
  BY NextTyped, NextOwn
<1>3. TypeInv /\ OwnInv => ActsForOwnUser
  BY DEF OwnInv, Mine, ActsForOwnUser
<1> QED
  BY <1>1, <1>2, <1>3, PTL DEF Spec

-----------------------------------------------------------------------------
(* Sessions that wait for another thread's commit. *)

\* A client never holds a sid that can still be rolled back, whatever the threads,
\* the clock and crashes do: a fresh sid enters another's transaction, and its
\* login sees the row again only in a transaction that commits it.
LEMMA NextHeld ==
    TypeInv /\ OwnInv /\ HeldSidsAreCommitted /\ [Next]_vars => HeldSidsAreCommitted'
<1> SUFFICES ASSUME TypeInv, OwnInv, HeldSidsAreCommitted, [Next]_vars
             PROVE  HeldSidsAreCommitted'
  OBVIOUS
<1> USE DEF HeldSidsAreCommitted
<1>1. CASE Commit \/ Abort \/ Restart
  BY <1>1 DEF Commit, Abort, Restart
<1>2. \A row \in pending : row.sid # NoSid
  BY SidsAssumption DEF TypeInv, TypeOK, Rows
<1>3. ASSUME UNCHANGED pending,
             \A c \in Clients : jar'[c] \in {jar[c], NoSid},
             \A p \in Workers : pc'[p] = "setSid" => pc[p] = "setSid" /\ local'[p] = local[p]
      PROVE  HeldSidsAreCommitted'
  BY <1>2, <1>3
<1>4. /\ pc \in [Workers -> Steps \union {"idle"}] /\ jar \in [Clients -> Sids \union {NoSid}]
      /\ local \in [Workers -> Locals]
  BY DEF TypeInv, TypeOK
<1>5. ASSUME NEW p \in Workers, InsertSession(p) PROVE HeldSidsAreCommitted'
  <2> DEFINE new == [sid |-> local[p].sid, uid |-> local[p].uid, by |-> p, expired |-> FALSE]
  <2>1. /\ UNCHANGED <<jar, local>> /\ pending' \subseteq pending \union {new}
        /\ pc' = [pc EXCEPT ![p] = "uidToSid"] /\ pc[p] = "insertSession"
    BY <1>5 DEF InsertSession, Continue
  <2>2. /\ \A c \in Clients : jar[c] # new.sid
        /\ \A q \in Workers \ {p} : local[q].sid # new.sid
    BY <2>1 DEF OwnInv, Mine, Fresh
  <2> QED
    BY <1>4, <2>1, <2>2
<1>6. ASSUME NEW p \in Workers, SetSid(p) PROVE HeldSidsAreCommitted'
  <2>1. /\ UNCHANGED <<pending, local>> /\ pc[p] = "setSid" /\ pc' = [pc EXCEPT ![p] = "idle"]
        /\ jar' = [jar EXCEPT ![req[p].client] = local[p].sid]
    BY <1>6 DEF SetSid, Answer
  <2> QED
    BY <1>4, <2>1
<1>7. ASSUME NEW p \in Workers, Start(p) PROVE HeldSidsAreCommitted'
  <2>1. PICK r \in Requests :
          /\ local' = [local EXCEPT ![p] = [sid |-> jar[r.client], uid |-> Nobody]]
          /\ pc' = [pc EXCEPT ![p] = FirstStep(r.kind, jar[r.client])]
    BY <1>7 DEF Start
  <2>2. FirstStep(r.kind, jar[r.client]) # "setSid"
    BY RequestFields DEF FirstStep, Guarded
  <2>3. UNCHANGED <<pending, jar>>
    BY <1>7 DEF Start
  <2> QED
    BY <1>3, <1>4, <2>1, <2>2, <2>3
<1>8. ASSUME NEW p \in Workers,
             Open(p) \/ Refused(p) \/ IsTaken(p) \/ RemoveSid(p) \/ GetSid(p)
      PROVE  HeldSidsAreCommitted'
  <2>1. /\ UNCHANGED pending
        /\ UNCHANGED jar \/ jar' = [jar EXCEPT ![req[p].client] = NoSid]
        /\ \/ UNCHANGED <<pc, local>>
           \/ /\ \E next \in {"idle", "insertSession", "sidToUid"} : pc' = [pc EXCEPT ![p] = next]
              /\ \/ UNCHANGED local
                 \/ local' = [local EXCEPT ![p].sid = jar[req[p].client]]
    BY <1>8 DEF Open, Refused, IsTaken, RemoveSid, GetSid, Answer, Continue
  <2>2. \A c \in Clients : jar'[c] \in {jar[c], NoSid}
    BY <1>4, <2>1
  <2>3. \A q \in Workers : pc'[q] = "setSid" => pc[q] = "setSid" /\ local'[q] = local[q]
    BY <1>4, <2>1
  <2> QED
    BY <1>3, <2>1, <2>2, <2>3
<1>9. CASE Expire \/ DeleteIfExpiryOver \/ UNCHANGED vars
  BY <1>3, <1>9 DEF Expire, DeleteIfExpiryOver, vars
<1>10. ASSUME NEW p \in Workers,
              \/ SelectFromAccountSecurity(p) \/ SelectIdFromAccountSecurity(p)
              \/ ExistSession(p) \/ UidToSid(p) \/ IsValidSid(p) \/ SidToUid(p)
              \/ UpdatePassword(p)
       PROVE  Commit \/ Abort
  BY <1>10 DEF SelectFromAccountSecurity, SelectIdFromAccountSecurity, ExistSession,
       UidToSid, IsValidSid, SidToUid, UpdatePassword
<1> QED
  BY <1>1, <1>5, <1>6, <1>7, <1>8, <1>9, <1>10 DEF Next, Work, Waiting

\* A login that is answered "loggedIn" is durable: when sids do not collide, no sid
\* a client holds belongs to a row that a rollback or a crash could take back.
THEOREM HeldSidsCommitted == Collide = FALSE => (Spec => []HeldSidsAreCommitted)
<1> SUFFICES ASSUME Collide = FALSE PROVE Spec => []HeldSidsAreCommitted
  OBVIOUS
<1>1. Init => TypeInv /\ OwnInv /\ HeldSidsAreCommitted
  BY InitTyped, InitOwn DEF Init, HeldSidsAreCommitted
<1>2. TypeInv /\ OwnInv /\ HeldSidsAreCommitted /\ [Next]_vars
        => (TypeInv /\ OwnInv /\ HeldSidsAreCommitted)'
  BY NextTyped, NextOwn, NextHeld
<1> QED
  BY <1>1, <1>2, PTL DEF Spec

\* What a step can do to a session that has not expired.
Undone(row) ==
    /\ row \in pending
    /\ Restart \/ \E p \in Workers : txn = p /\ pc'[p] = "idle" /\ reply'[p] \in {"failed", "error"}

\* Rows leave the tables when they have expired, or when the transaction they wait
\* in is not committed.
LEMMA NextLost ==
    ASSUME TypeInv, [Next]_vars, NEW row \in Visible, ~row.expired, ~StillThere(row)
    PROVE  Undone(row)
<1>1. Visible' # Visible
  BY DEF StillThere
<1>2. /\ pc \in [Workers -> Steps \union {"idle"}] /\ reply \in [Workers -> Replies]
      /\ sessions \subseteq Rows
  BY DEF TypeInv, TypeOK
<1>3. ASSUME UNCHANGED pending, NEW old \in sessions, old \in Rows,
             sessions' = (sessions \ {old}) \union {[old EXCEPT !.expired = TRUE]}
      PROVE  FALSE
  <2>1. [old EXCEPT !.expired = TRUE].sid = old.sid /\ [old EXCEPT !.expired = TRUE].uid = old.uid
    BY <1>3 DEF Rows
  <2> QED
    BY <1>3, <2>1 DEF StillThere, Visible
<1>4. CASE Expire
  BY <1>2, <1>3, <1>4 DEF Expire
<1>5. CASE DeleteIfExpiryOver
  BY <1>5 DEF DeleteIfExpiryOver, StillThere, Visible
<1>6. CASE Restart
  BY <1>6 DEF Restart, Undone, StillThere, Visible
<1>7. ~Commit
  BY DEF Commit, StillThere, Visible
<1>8. ASSUME NEW p \in Workers, Calling(p, pc[p]), Abort,
             \E outcome \in {"failed", "error"} : Answer(p, outcome)
      PROVE  Undone(row)
  <2>1. row \in pending
    BY <1>8 DEF Abort, StillThere, Visible
  <2>2. txn = p /\ pc'[p] = "idle" /\ reply'[p] \in {"failed", "error"}
    BY <1>2, <1>8 DEF Calling, Answer
  <2> QED
    BY <2>1, <2>2 DEF Undone
<1>9. ASSUME NEW p \in Workers,
             SelectFromAccountSecurity(p) \/ UidToSid(p) \/ SidToUid(p)
      PROVE  Undone(row)
  <2>1. Calling(p, pc[p]) /\ Abort /\ \E outcome \in {"failed", "error"} : Answer(p, outcome)
    BY <1>7, <1>9 DEF SelectFromAccountSecurity, UidToSid, SidToUid, Calling
  <2> QED
    BY <1>8, <2>1
<1>10. ASSUME NEW p \in Workers, InsertSession(p)
       PROVE  FALSE
  BY <1>10 DEF InsertSession, StillThere, Visible
<1>11. ASSUME UNCHANGED <<sessions, pending>> PROVE FALSE
  BY <1>1, <1>11 DEF Visible
<1>12. ASSUME NEW p \in Workers,
              \/ Start(p) \/ Open(p) \/ Refused(p) \/ IsTaken(p) \/ SetSid(p)
              \/ RemoveSid(p) \/ GetSid(p)
       PROVE  UNCHANGED <<sessions, pending>>
  BY <1>12 DEF Start, Open, Refused, IsTaken, SetSid, RemoveSid, GetSid
<1>13. ASSUME NEW p \in Workers,
              \/ SelectIdFromAccountSecurity(p) \/ ExistSession(p) \/ IsValidSid(p)
              \/ UpdatePassword(p)
       PROVE  Commit
  BY <1>13 DEF SelectIdFromAccountSecurity, ExistSession, IsValidSid, UpdatePassword
<1>14. CASE Waiting \/ UNCHANGED vars
  BY <1>11, <1>14 DEF Waiting, vars
<1> QED
  BY <1>4, <1>5, <1>6, <1>7, <1>9, <1>10, <1>11, <1>12, <1>13, <1>14 DEF Next, Work

\* No request that goes on, or is answered as asked, undoes another's login: a
\* session is lost before it expires only with a transaction that fails or that
\* the process does not live to end.
THEOREM SessionsLostByRollback == Spec => LostOnlyByRollback
<1>1. TypeInv /\ [Next]_vars =>
        [\A row \in Visible : ~row.expired /\ ~StillThere(row) =>
           /\ row \in pending
           /\ Restart \/ \E p \in Workers : txn = p /\ pc'[p] = "idle"
                                          /\ reply'[p] \in {"failed", "error"}]_vars
  BY NextLost DEF Undone
<1> QED
  BY <1>1, InitTyped, NextTyped, PTL DEF Spec, LostOnlyByRollback

-----------------------------------------------------------------------------
(* One thread. *)

\* With one thread an INSERT meets no transaction, and nobody logs its user in
\* between the lookup and the INSERT: the clock and the reaper only take rows away.
OneThreadInv ==
    /\ pending = {}
    /\ \A p \in Workers : txn = p => pc[p] \in Transactional
    /\ \A p \in Workers : pc[p] \in {"isTaken", "insertSession"} =>
         \A row \in sessions : row.uid # local[p].uid
    /\ \A r, q \in sessions : r.uid = q.uid => r = q

LEMMA NextOneThread ==
    ASSUME NEW w, Workers = {w}, TypeInv, OneThreadInv, [Next]_vars
    PROVE  OneThreadInv'
<1> USE DEF OneThreadInv
<1>1. /\ pc \in [Workers -> Steps \union {"idle"}] /\ local \in [Workers -> Locals]
      /\ txn \in Workers \union {Free} /\ sessions \subseteq Rows /\ w # Free
  BY SessionWorkersAssumption DEF TypeInv, TypeOK
<1>2. ASSUME Commit \/ Abort, pc'[w] \notin {"isTaken", "insertSession"}
      PROVE  OneThreadInv'
  BY <1>1, <1>2 DEF Commit, Abort
<1>3. ASSUME UNCHANGED <<sessions, pending, txn>>, txn = Free,
             pc'[w] \notin {"isTaken", "insertSession"}
      PROVE  OneThreadInv'
  BY <1>1, <1>3
<1>4. ASSUME Open(w) PROVE OneThreadInv'
  BY <1>1, <1>4 DEF Open, Transactional
<1>5. ASSUME Refused(w) PROVE FALSE
  BY <1>1, <1>5 DEF Refused
<1>6. ASSUME \/ SelectFromAccountSecurity(w) \/ SelectIdFromAccountSecurity(w) \/ UidToSid(w)
             \/ IsValidSid(w) \/ SidToUid(w) \/ UpdatePassword(w)
      PROVE  OneThreadInv'
  <2>1. Commit \/ Abort
    BY <1>6 DEF SelectFromAccountSecurity, SelectIdFromAccountSecurity, UidToSid, IsValidSid,
         SidToUid, UpdatePassword
  <2>2. PICK next : pc' = [pc EXCEPT ![w] = next] /\ next \notin {"isTaken", "insertSession"}
    <3>1. IsValidSid(w) /\ req[w].kind \in Authenticated =>
            AfterGuard(req[w].kind) \in {"sidToUid", "getSid"}
      <4> SUFFICES ASSUME IsValidSid(w), req[w].kind \in Authenticated
                   PROVE  AfterGuard(req[w].kind) \in {"sidToUid", "getSid"}
        OBVIOUS
      <4>1. pc[w] = "isValidSid"
        BY DEF IsValidSid, Calling
      <4> QED
        BY <4>1, RequestFields DEF AfterGuard, Authenticated, TypeInv, Serving, StepsOf
    <3> QED
      BY <1>6, <3>1 DEF SelectFromAccountSecurity, SelectIdFromAccountSecurity, UidToSid,
           IsValidSid, SidToUid, UpdatePassword, Continue, Answer
  <2> QED
    BY <1>1, <1>2, <2>1, <2>2
<1>7. ASSUME SetSid(w) \/ RemoveSid(w) \/ GetSid(w) PROVE OneThreadInv'
  <2>1. /\ pc[w] \notin Transactional /\ UNCHANGED <<sessions, pending, txn>>
        /\ \E next \in {"idle", "sidToUid"} : pc' = [pc EXCEPT ![w] = next]
    BY <1>7 DEF SetSid, RemoveSid, GetSid, Continue, Answer, Transactional
  <2> QED
    BY <1>1, <1>3, <2>1
<1>8. ASSUME Start(w) PROVE OneThreadInv'
  <2>1. PICK r \in Requests : pc' = [pc EXCEPT ![w] = FirstStep(r.kind, jar[r.client])]
    BY <1>8 DEF Start
  <2>2. FirstStep(r.kind, jar[r.client]) \notin {"isTaken", "insertSession"}
    BY RequestFields DEF FirstStep, Guarded
  <2>3. UNCHANGED <<sessions, pending, txn>> /\ pc[w] \notin Transactional
    BY <1>8 DEF Start, Transactional
  <2> QED
    BY <1>1, <1>3, <2>1, <2>2, <2>3
<1>9. ASSUME ExistSession(w) PROVE OneThreadInv'
  <2>1. Commit /\ UNCHANGED sessions /\ Visible = sessions
    BY <1>9 DEF ExistSession, Commit, Visible
  <2>2. CASE Continue(w, "uidToSid")
    BY <1>1, <1>2, <2>1, <2>2 DEF Continue
  <2>3. CASE WithUid(local[w].uid) = {}
    <3>1. PICK sid \in Sids : local' = [local EXCEPT ![w].sid = sid]
      BY <1>9, <2>3 DEF ExistSession
    <3>2. local'[w].uid = local[w].uid
      BY <1>1, <3>1 DEF Locals
    <3> QED
      BY <1>1, <2>1, <2>3, <3>2 DEF Commit, WithUid
  <2> QED
    BY <1>9, <2>2, <2>3 DEF ExistSession
<1>10. ASSUME IsTaken(w) PROVE OneThreadInv'
  BY <1>1, <1>10 DEF IsTaken, Continue, Transactional
<1>11. ASSUME InsertSession(w) PROVE OneThreadInv'
  <2> DEFINE new == [sid |-> local[w].sid, uid |-> local[w].uid, by |-> w, expired |-> FALSE]
  <2>1. txn = Free
    BY <1>1, <1>11 DEF InsertSession, Transactional
  <2>2. /\ sessions' = sessions \union {new} /\ UNCHANGED <<pending, txn>>
        /\ pc' = [pc EXCEPT ![w] = "uidToSid"] /\ pc[w] = "insertSession"
    BY <1>11, <2>1 DEF InsertSession, Continue
  <2>3. \A row \in sessions : row.uid # new.uid
    BY <2>2
  <2> QED
    BY <1>1, <2>1, <2>2, <2>3
<1>12. CASE Expire
  <2>1. \A row \in Rows : [row EXCEPT !.expired = TRUE].uid = row.uid
    BY DEF Rows
  <2>2. PICK old \in sessions : \E late :
          late.uid = old.uid /\ sessions' = (sessions \ {old}) \union {late}
    BY <1>1, <1>12, <2>1 DEF Expire
  <2>3. UNCHANGED <<pending, txn, pc, local>>
    BY <1>12 DEF Expire
  <2>4. ASSUME NEW r \in sessions', NEW q \in sessions', r.uid = q.uid PROVE r = q
    BY <2>2, <2>4
  <2>5. ASSUME NEW p \in Workers, pc[p] \in {"isTaken", "insertSession"},
               NEW row \in sessions'
        PROVE  row.uid # local[p].uid
    BY <2>2, <2>5
  <2> QED
    BY <2>3, <2>4, <2>5
<1>13. CASE DeleteIfExpiryOver
  BY <1>13 DEF DeleteIfExpiryOver
<1>14. CASE Restart
  BY <1>1, <1>14 DEF Restart
<1>15. CASE Waiting \/ UNCHANGED vars
  BY <1>15 DEF Waiting, vars
<1> QED
  BY <1>4, <1>5, <1>6, <1>7, <1>8, <1>9, <1>10, <1>11, <1>12, <1>13, <1>14, <1>15
  DEF Next, Work

\* A new server has no rows and no transaction.
LEMMA InitOneThread == Init => OneThreadInv
BY SessionWorkersAssumption DEF Init, OneThreadInv

\* On a server with one thread a user has one session at a time, so that uidToSid
\* never throws, through expiry, the reaper, restarts and sids drawn twice.
THEOREM OneThreadOneSession == \A w : Workers = {w} => (Spec => []OneSessionPerUser)
<1> SUFFICES ASSUME NEW w, Workers = {w} PROVE Spec => []OneSessionPerUser
  OBVIOUS
<1>1. OneThreadInv => OneSessionPerUser
  <2> SUFFICES ASSUME OneThreadInv, NEW u \in Users PROVE Cardinality(WithUid(u)) <= 1
    BY DEF OneSessionPerUser
  <2>1. \A r, q \in WithUid(u) : r = q
    BY DEF OneThreadInv, WithUid, Visible
  <2>2. CASE WithUid(u) = {}
    BY <2>2, FS_EmptySet
  <2>3. ASSUME NEW r \in WithUid(u) PROVE Cardinality(WithUid(u)) <= 1
    <3>1. WithUid(u) = {r}
      BY <2>1
    <3> QED
      BY <3>1, FS_Singleton
  <2> QED
    BY <2>2, <2>3
<1>2. TypeInv /\ OneThreadInv /\ [Next]_vars => (TypeInv /\ OneThreadInv)'
  BY NextTyped, NextOneThread
<1> QED
  BY <1>1, <1>2, InitTyped, InitOneThread, PTL DEF Spec

\* On a server with one thread a session stays until it expires, through restarts:
\* no row ever waits for another's commit.
THEOREM OneThreadKeepsSessions == \A w : Workers = {w} => (Spec => SessionIsKept)
<1> SUFFICES ASSUME NEW w, Workers = {w} PROVE Spec => SessionIsKept
  OBVIOUS
<1>1. TypeInv /\ OneThreadInv /\ [Next]_vars
        => [\A row \in Visible : ~row.expired => StillThere(row)]_vars
  BY NextLost DEF Undone, OneThreadInv
<1>2. TypeInv /\ OneThreadInv /\ [Next]_vars => (TypeInv /\ OneThreadInv)'
  BY NextTyped, NextOneThread
<1> QED
  BY <1>1, <1>2, InitTyped, InitOneThread, PTL DEF Spec, SessionIsKept

-----------------------------------------------------------------------------
(* Who takes a sid from a client, on any number of threads.                 *)

\* When sids do not collide no two rows have the same, wherever they are.
UniqueSids ==
    /\ \A r, q \in sessions : r.sid = q.sid => r = q
    /\ \A r, q \in pending : r.sid = q.sid => r = q
    /\ \A r \in sessions, q \in pending : r.sid # q.sid

\* A worker removes a sid for a logout, or has looked up one that no row has and,
\* since it was drawn before, no row will have. A login sets the sid of a row.
Sticks(p) ==
    /\ pc[p] = "removeSid" /\ req[p].kind # "logout" =>
         \A row \in Visible : row.sid # local[p].sid
    /\ pc[p] = "setSid" => local[p].sid \in Sids

SticksInv == UniqueSids /\ \A p \in Workers : Sticks(p)

\* A sid that is in the table is there once.
LEMMA OneRowPerSid ==
    ASSUME UniqueSids, NEW sid, WithSid(sid) # {}
    PROVE  Cardinality(WithSid(sid)) = 1
<1>1. PICK row : row \in WithSid(sid)
  OBVIOUS
<1>2. \A r, q \in WithSid(sid) : r = q
  BY DEF UniqueSids, WithSid, Visible
<1>3. WithSid(sid) = {row}
  BY <1>1, <1>2
<1> QED
  BY <1>3, FS_Singleton

\* Sids stay unique: the only one that is new is fresh.
LEMMA NextUnique ==
    ASSUME TypeInv, OwnInv, UniqueSids, [Next]_vars
    PROVE  UniqueSids'
<1> USE DEF UniqueSids
<1>1. ASSUME Commit \/ Abort \/ UNCHANGED <<sessions, pending>> PROVE UniqueSids'
  BY <1>1 DEF Commit, Abort
<1>2. ASSUME NEW p \in Workers, InsertSession(p) PROVE UniqueSids'
  <2> DEFINE new == [sid |-> local[p].sid, uid |-> local[p].uid, by |-> p, expired |-> FALSE]
  <2>1. \A row \in Visible : row.sid # new.sid
    BY <1>2 DEF InsertSession, OwnInv, Mine, Fresh
  <2>2. \/ sessions' = sessions \union {new} /\ UNCHANGED pending
        \/ pending' = pending \union {new} /\ UNCHANGED sessions
    BY <1>2 DEF InsertSession
  <2> HIDE DEF new
  <2> QED
    BY <2>1, <2>2 DEF Visible
<1>3. CASE Expire
  <2>1. PICK old \in sessions : \E late : /\ late.sid = old.sid
                                          /\ sessions' = (sessions \ {old}) \union {late}
    <3>1. \A row \in sessions : [row EXCEPT !.expired = TRUE].sid = row.sid
      BY DEF TypeInv, TypeOK, Rows
    <3> QED
      BY <1>3, <3>1 DEF Expire
  <2>2. UNCHANGED pending
    BY <1>3 DEF Expire
  <2> QED
    BY <2>1, <2>2
<1>4. CASE DeleteIfExpiryOver
  BY <1>4 DEF DeleteIfExpiryOver
<1>5. CASE Restart
  BY <1>5 DEF Restart
<1>6. ASSUME NEW p \in Workers, Start(p) \/ Work(p), ~InsertSession(p)
      PROVE  Commit \/ Abort \/ UNCHANGED <<sessions, pending>>
  BY <1>6 DEF Work, Start, Open, Refused, SelectFromAccountSecurity,
       SelectIdFromAccountSecurity, ExistSession, IsTaken, UidToSid, SetSid, IsValidSid,
       RemoveSid, GetSid, SidToUid, UpdatePassword
<1>7. CASE Waiting \/ UNCHANGED vars
  BY <1>1, <1>7 DEF Waiting, vars
<1> QED
  BY <1>1, <1>2, <1>3, <1>4, <1>5, <1>6, <1>7 DEF Next, Work

\* What a worker holds stays so while others work and the clock runs: of the sids
\* it may have looked up none is inserted again.
LEMMA SticksKept ==
    ASSUME NEW p \in Workers, Sticks(p), pc'[p] = pc[p], req'[p] = req[p], local'[p] = local[p],
           \A row \in Visible' : \/ \E old \in Visible : old.sid = row.sid
                                 \/ row.sid # local[p].sid
    PROVE  Sticks(p)'
BY DEF Sticks

\* The rows a step adds have no sid that another worker holds.
LEMMA AddedRows ==
    ASSUME TypeInv, OwnInv, NEW p \in Workers, Start(p) \/ Work(p)
    PROVE  \/ NoNewRows
           \/ /\ InsertSession(p)
              /\ \A row \in Visible' : row \in Visible \/ row.sid = local[p].sid
              /\ \A q \in Workers \ {p} : local[q].sid # local[p].sid
<1>1. CASE InsertSession(p)
  <2> DEFINE new == [sid |-> local[p].sid, uid |-> local[p].uid, by |-> p, expired |-> FALSE]
  <2>1. pc[p] = "insertSession" /\ Visible' = Visible \union {new} /\ new.sid = local[p].sid
    BY <1>1 DEF InsertSession, Visible
  <2>2. \A q \in Workers \ {p} : local[q].sid # local[p].sid
    BY <2>1 DEF OwnInv, Mine, Fresh
  <2> QED
    BY <1>1, <2>1, <2>2
<1>2. CASE ~InsertSession(p)
  <2>1. Commit \/ Abort \/ UNCHANGED <<sessions, pending>>
    BY <1>2 DEF Work, Start, Open, Refused, SelectFromAccountSecurity,
         SelectIdFromAccountSecurity, ExistSession, IsTaken, UidToSid, SetSid, IsValidSid,
         RemoveSid, GetSid, SidToUid, UpdatePassword
  <2> QED
    BY <2>1, EndRows
<1> QED
  BY <1>1, <1>2

\* A step of one worker is no other worker's.
LEMMA OneWorks ==
    ASSUME TypeInv, NEW p \in Workers, Start(p) \/ Work(p)
    PROVE  Others(p)
<1>1. /\ pc \in [Workers -> Steps \union {"idle"}] /\ local \in [Workers -> Locals]
      /\ reply \in [Workers -> Replies] /\ req \in [Workers -> Requests \union {NoRequest}]
  BY DEF TypeInv, TypeOK
<1>2. \A q \in Workers \ {p} : pc'[q] = pc[q] /\ reply'[q] = reply[q]
  BY <1>1 DEF Work, Start, Open, Refused, SelectFromAccountSecurity,
       SelectIdFromAccountSecurity, ExistSession, IsTaken, InsertSession, UidToSid, SetSid,
       IsValidSid, RemoveSid, GetSid, SidToUid, UpdatePassword, Continue, Answer
<1>3. \A q \in Workers \ {p} : req'[q] = req[q] /\ local'[q] = local[q]
  BY <1>1 DEF Work, Start, Open, Refused, SelectFromAccountSecurity,
       SelectIdFromAccountSecurity, ExistSession, IsTaken, InsertSession, UidToSid, SetSid,
       IsValidSid, RemoveSid, GetSid, SidToUid, UpdatePassword
<1> QED
  BY <1>2, <1>3 DEF Others

\* Only the start of a request and the guard lead to the removal of a sid, only the
\* lookup of a login to setting one.
LEMMA HowItGoesOn ==
    ASSUME TypeInv, NEW p \in Workers, Start(p) \/ Work(p)
    PROVE  /\ pc'[p] = "removeSid" => Start(p) \/ IsValidSid(p)
           /\ pc'[p] = "setSid" => UidToSid(p)
<1>1. pc \in [Workers -> Steps \union {"idle"}]
  BY DEF TypeInv, TypeOK
<1>2. CASE Start(p)
  <2>1. PICK r \in Requests : pc' = [pc EXCEPT ![p] = FirstStep(r.kind, jar[r.client])]
    BY <1>2 DEF Start
  <2>2. FirstStep(r.kind, jar[r.client]) # "setSid"
    BY RequestFields DEF FirstStep, Guarded
  <2> QED
    BY <1>1, <1>2, <2>1, <2>2
<1>3. CASE Open(p) \/ Refused(p)
  BY <1>1, <1>3 DEF Open, Refused, Answer, Transactional
<1>4. CASE \/ SelectFromAccountSecurity(p) \/ SelectIdFromAccountSecurity(p)
           \/ ExistSession(p) \/ IsTaken(p) \/ InsertSession(p)
  BY <1>1, <1>4 DEF SelectFromAccountSecurity, SelectIdFromAccountSecurity, ExistSession,
       IsTaken, InsertSession, Continue, Answer
<1>5. CASE UidToSid(p)
  BY <1>1, <1>5 DEF UidToSid, Continue, Answer
<1>6. CASE SetSid(p) \/ RemoveSid(p) \/ GetSid(p) \/ SidToUid(p) \/ UpdatePassword(p)
  BY <1>1, <1>6 DEF SetSid, RemoveSid, GetSid, SidToUid, UpdatePassword, Continue, Answer
<1>7. CASE IsValidSid(p)
  <2>1. req[p].kind \in Authenticated => AfterGuard(req[p].kind) \in {"sidToUid", "getSid"}
    <3>1. pc[p] = "isValidSid"
      BY <1>7 DEF IsValidSid, Calling
    <3> QED
      BY <3>1, RequestFields DEF AfterGuard, Authenticated, TypeInv, Serving, StepsOf
  <2>2. pc'[p] # "setSid"
    BY <1>1, <1>7, <2>1 DEF IsValidSid, Continue, Answer
  <2> QED
    BY <1>7, <2>2
<1> QED
  BY <1>2, <1>3, <1>4, <1>5, <1>6, <1>7 DEF Work

\* What a worker comes to hold by a step of its own.
LEMMA OwnSticks ==
    ASSUME TypeInv, UniqueSids, NEW p \in Workers, Start(p) \/ Work(p)
    PROVE  Sticks(p)'
<1>1. /\ pc \in [Workers -> Steps \union {"idle"}] /\ local \in [Workers -> Locals]
      /\ req \in [Workers -> Requests \union {NoRequest}]
      /\ \A row \in Visible : row.sid \in Sids
  BY DEF TypeInv, TypeOK, Visible, Rows
<1>2. ASSUME pc'[p] = "removeSid", Start(p), req'[p].kind # "logout"
      PROVE  \A row \in Visible' : row.sid # local'[p].sid
  <2>1. PICK r \in Requests :
          /\ req' = [req EXCEPT ![p] = r]
          /\ local' = [local EXCEPT ![p] = [sid |-> jar[r.client], uid |-> Nobody]]
          /\ pc' = [pc EXCEPT ![p] = FirstStep(r.kind, jar[r.client])]
          /\ UNCHANGED <<sessions, pending>>
    BY <1>2 DEF Start
  <2>2. jar[r.client] = NoSid
    BY <1>1, <1>2, <2>1, RequestFields DEF FirstStep, Guarded
  <2> QED
    BY <1>1, <2>1, <2>2, SidsAssumption DEF Visible
<1>3. ASSUME pc'[p] = "removeSid", IsValidSid(p)
      PROVE  \A row \in Visible' : row.sid # local'[p].sid
  <2>1. NoNewRows /\ UNCHANGED local
    BY <1>3, EndRows DEF IsValidSid
  <2>2. Cardinality(WithSid(local[p].sid)) # 1
    <3>1. req[p].kind \in Authenticated => AfterGuard(req[p].kind) \in {"sidToUid", "getSid"}
      <4>1. pc[p] = "isValidSid"
        BY <1>3 DEF IsValidSid, Calling
      <4> QED
        BY <4>1, RequestFields DEF AfterGuard, Authenticated, TypeInv, Serving, StepsOf
    <3> QED
      BY <1>1, <1>3, <3>1 DEF IsValidSid, Continue, Answer
  <2>3. WithSid(local[p].sid) = {}
    BY <2>2, OneRowPerSid
  <2> QED
    BY <2>1, <2>3 DEF WithSid, NoNewRows
<1>4. ASSUME pc'[p] = "setSid", UidToSid(p)
      PROVE  local'[p].sid \in Sids
  BY <1>1, <1>4 DEF UidToSid, Answer, WithUid, Locals
<1> QED
  BY <1>2, <1>3, <1>4, HowItGoesOn DEF Sticks

\* No step brings back a sid that a worker is about to remove as gone.
LEMMA NextSticks ==
    ASSUME TypeInv, OwnInv, SticksInv, [Next]_vars
    PROVE  SticksInv'
<1>1. UniqueSids'
  BY NextUnique DEF SticksInv
<1>2. ASSUME NEW p \in Workers, Start(p) \/ Work(p), NEW q \in Workers \ {p}
      PROVE  Sticks(q)'
  <2>1. Sticks(q) /\ pc'[q] = pc[q] /\ req'[q] = req[q] /\ local'[q] = local[q]
    BY <1>2, OneWorks DEF SticksInv, Others
  <2>2. \A row \in Visible' : \/ \E old \in Visible : old.sid = row.sid
                              \/ row.sid # local[q].sid
    <3>1. CASE NoNewRows
      BY <3>1 DEF NoNewRows
    <3>2. CASE /\ \A row \in Visible' : row \in Visible \/ row.sid = local[p].sid
               /\ \A o \in Workers \ {p} : local[o].sid # local[p].sid
      BY <1>2, <3>2
    <3> QED
      BY <1>2, <3>1, <3>2, AddedRows
  <2> QED
    BY <2>1, <2>2, SticksKept
<1>3. ASSUME NEW p \in Workers, Start(p) \/ Work(p) PROVE SticksInv'
  BY <1>1, <1>2, <1>3, OwnSticks DEF SticksInv
<1>4. ASSUME NoNewRows, UNCHANGED <<pc, req, local>> PROVE SticksInv'
  BY <1>1, <1>4, SticksKept DEF SticksInv, NoNewRows
<1>5. CASE Expire
  <2>1. NoNewRows
    <3>1. \A row \in sessions : /\ [row EXCEPT !.expired = TRUE].sid = row.sid
                                /\ [row EXCEPT !.expired = TRUE].uid = row.uid
      BY DEF TypeInv, TypeOK, Rows
    <3> QED
      BY <1>5, <3>1 DEF Expire, NoNewRows, Visible
  <2> QED
    BY <1>4, <1>5, <2>1 DEF Expire
<1>6. CASE DeleteIfExpiryOver
  BY <1>4, <1>6 DEF DeleteIfExpiryOver, NoNewRows, Visible
<1>7. CASE Restart
  BY <1>1, <1>7 DEF Restart, SticksInv, Sticks
<1>8. CASE Waiting \/ UNCHANGED vars
  BY <1>4, <1>8, EndRows DEF Waiting, vars
<1> QED
  BY <1>3, <1>5, <1>6, <1>7, <1>8 DEF Next

\* A client loses its sid only when the server restarts, or to the removal in a
\* request of its own that asked for it or came with another sid.
LEMMA NextJar ==
    ASSUME TypeInv, SticksInv, [Next]_vars, NEW c \in Clients,
           jar[c] # NoSid, jar'[c] = NoSid, WithSid(jar[c]) # {}
    PROVE  \/ Restart
           \/ \E p \in Workers :
                /\ pc[p] = "removeSid" /\ pc'[p] = "idle" /\ req[p].client = c
                /\ req[p].kind = "logout" \/ local[p].sid # jar[c]
<1>1. pc \in [Workers -> Steps \union {"idle"}] /\ jar \in [Clients -> Sids \union {NoSid}]
  BY DEF TypeInv, TypeOK
<1>2. ASSUME NEW p \in Workers, RemoveSid(p)
      PROVE  /\ pc[p] = "removeSid" /\ pc'[p] = "idle" /\ req[p].client = c
             /\ req[p].kind = "logout" \/ local[p].sid # jar[c]
  <2>1. pc[p] = "removeSid" /\ pc'[p] = "idle" /\ req[p].client = c
    BY <1>1, <1>2 DEF RemoveSid, Answer
  <2>2. req[p].kind # "logout" => \A row \in Visible : row.sid # local[p].sid
    BY <1>2, <2>1 DEF SticksInv, Sticks
  <2> QED
    BY <2>1, <2>2 DEF WithSid
<1>3. ASSUME NEW p \in Workers, SetSid(p) PROVE FALSE
  BY <1>1, <1>3, SidsAssumption DEF SetSid, SticksInv, Sticks
<1>4. ASSUME NEW p \in Workers, Start(p) \/ Work(p), ~RemoveSid(p), ~SetSid(p)
      PROVE  UNCHANGED jar
  BY <1>4 DEF Work, Start, Open, Refused, SelectFromAccountSecurity,
       SelectIdFromAccountSecurity, ExistSession, IsTaken, InsertSession, UidToSid,
       IsValidSid, GetSid, SidToUid, UpdatePassword
<1>5. CASE Expire \/ DeleteIfExpiryOver \/ Waiting \/ UNCHANGED vars
  BY <1>5 DEF Expire, DeleteIfExpiryOver, Waiting, vars
<1> QED
  BY <1>2, <1>3, <1>4, <1>5 DEF Next

\* On any number of threads, through expiry, the reaper and restarts, a sid that
\* still stands for a session leaves its client only with a restart or a request of
\* that client, its logout or one that came with another sid: when sids are not
\* drawn twice nobody is logged out by anybody else.
THEOREM LoginsStick == Collide = FALSE => (Spec => LoginSticks)
<1> SUFFICES ASSUME Collide = FALSE PROVE Spec => LoginSticks
  OBVIOUS
<1>1. Init => SticksInv
  BY DEF Init, SticksInv, UniqueSids, Sticks
<1>2. TypeInv /\ OwnInv /\ SticksInv /\ [Next]_vars => (TypeInv /\ OwnInv /\ SticksInv)'
  BY NextTyped, NextOwn, NextSticks
<1>3. TypeInv /\ SticksInv /\ [Next]_vars =>
        [\A c \in Clients :
           jar[c] # NoSid /\ jar'[c] = NoSid /\ WithSid(jar[c]) # {}
             => \/ Restart
                \/ \E p \in Workers :
                     /\ pc[p] = "removeSid" /\ pc'[p] = "idle" /\ req[p].client = c
                     /\ req[p].kind = "logout" \/ local[p].sid # jar[c]]_vars
  BY NextJar
<1> QED
  BY <1>1, <1>2, <1>3, InitTyped, InitOwn, PTL DEF Spec, LoginSticks

===================================================================================
