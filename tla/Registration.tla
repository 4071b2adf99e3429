------------------------------- MODULE Registration -------------------------------
(***************************************************************************)
(* POST /register of main.cpp: db::DBConnection::insertAccount, one INSERT  *)
(* into account_security, and the two triggers of init.sql that run in the  *)
(* same transaction: insert_account_info gives the new user a balance row,  *)
(* insert_banks the two bank accounts.                                      *)
(*                                                                         *)
(* A user's balance row is found by id (account_info.id = uid), yet the id  *)
(* of the row comes from a sequence of its own. PostgreSQL takes a sequence *)
(* value before it checks a row, and never gives one back: a refused or     *)
(* rolled back INSERT burns the values it took.                             *)
(***************************************************************************)
EXTENDS Integers, FiniteSets

CONSTANTS
    Names,       \* user names clients ask for
    Banks,       \* the banks insert_banks opens an account with
    MaxAttempts  \* bound on the INSERTs of a behaviour

ASSUME AttemptsAssumption == MaxAttempts \in Nat

VARIABLES
    security,    \* account_security: set of [id, username]
    info,        \* ids of the rows of account_info
    banks,       \* bank_account: set of [owner, name]
    securitySeq, \* last value of account_security's id sequence
    infoSeq,     \* last value of account_info's id sequence
    reply,       \* what the last client was told, and the name it asked for
    duplicates   \* history: INSERTs refused for a name that was taken

vars == <<security, info, banks, securitySeq, infoSeq, reply, duplicates>>

Replies == {"none", "registered", "exists", "invalid", "error"}
Taken == {row.username : row \in security}
Attempts == securitySeq  \* every INSERT takes one value

Init ==
    /\ security = {}
    /\ info = {}
    /\ banks = {}
    /\ securitySeq = 0
    /\ infoSeq = 0
    /\ reply = [outcome |-> "none"]
    /\ duplicates = 0

Told(name, outcome) == reply' = [outcome |-> outcome, username |-> name]

\* No credentials in the header, or a name or password that is not printable
\* ASCII, or too short or long.
Invalid(name) ==
    /\ Told(name, "invalid")
    /\ UNCHANGED <<security, info, banks, securitySeq, infoSeq, duplicates>>

\* No salt or hash, or the connection is not to be had: nothing is sent.
NotSent(name) ==
    /\ Told(name, "error")
    /\ UNCHANGED <<security, info, banks, securitySeq, infoSeq, duplicates>>

\* Mutant: the name is looked up before the row takes its id.
InsertDuplicateLookedUp(name) ==
    /\ name \in Taken
    /\ duplicates' = duplicates + 1
    /\ Told(name, "exists")
    /\ UNCHANGED <<security, info, banks, securitySeq, infoSeq>>

\* The new row takes the next id before the unique index is looked at, and no
\* trigger runs for a row that is refused. When the connection breaks before the
\* refusal arrives the client is told of an error.
InsertDuplicate(name) ==
    /\ Attempts < MaxAttempts
    /\ name \in Taken
    /\ securitySeq' = securitySeq + 1
    /\ duplicates' = duplicates + 1
    /\ Told(name, "exists") \/ Told(name, "error")
    /\ UNCHANGED <<security, info, banks, infoSeq>>

\* Mutant: min(id) for max(id).
OldestId(rows) == CHOOSE id \in {r.id : r \in rows} : \A r \in rows : r.id >= id

\* The id insert_banks gives its two rows: max(id) of the table, new row included.
NewestId(rows) == CHOOSE id \in {r.id : r \in rows} : \A r \in rows : r.id <= id

\* Mutant: no unique index on the name.
InsertAccountAnyName(name) ==
    LET row == [id |-> securitySeq + 1, username |-> name]
    IN  /\ Attempts < MaxAttempts
        /\ securitySeq' = securitySeq + 1
        /\ infoSeq' = infoSeq + 1
        /\ security' = security \union {row}
        /\ info' = info \union {infoSeq + 1}
        /\ banks' = banks \union {[owner |-> NewestId(security \union {row}), name |-> b] :
                                   b \in Banks}
        /\ Told(name, "registered")
        /\ UNCHANGED duplicates

\* The row, its balance and its bank accounts are committed together. When the
\* connection breaks after the server committed, the client is told of an error.
InsertAccount(name) ==
    LET row == [id |-> securitySeq + 1, username |-> name]
        owner == NewestId(security \union {row})
    IN  /\ Attempts < MaxAttempts
        /\ name \notin Taken
        /\ securitySeq' = securitySeq + 1
        /\ infoSeq' = infoSeq + 1
        /\ security' = security \union {row}
        /\ info' = info \union {infoSeq + 1}
        /\ banks' = banks \union {[owner |-> owner, name |-> b] : b \in Banks}
        /\ Told(name, "registered") \/ Told(name, "error")
        /\ UNCHANGED duplicates

\* Mutants: the trigger runs at commit only, or before the row takes its id,
\* or the sequences are set back.
RolledBackSequences(name) ==
    /\ name \notin Taken
    /\ securitySeq' = securitySeq - 1
    /\ infoSeq' = infoSeq - 1
    /\ Told(name, "error")
    /\ UNCHANGED <<security, info, banks, duplicates>>
RolledBackBeforeTrigger(name) ==
    /\ Attempts < MaxAttempts /\ name \notin Taken
    /\ securitySeq' = securitySeq + 1
    /\ Told(name, "error")
    /\ UNCHANGED <<security, info, banks, infoSeq, duplicates>>
RolledBackAfterTrigger(name) ==
    /\ infoSeq < MaxAttempts /\ name \notin Taken
    /\ infoSeq' = infoSeq + 1
    /\ Told(name, "error")
    /\ UNCHANGED <<security, info, banks, securitySeq, duplicates>>

\* The transaction is lost before its commit, after the statement ran.
RolledBack(name) ==
    /\ Attempts < MaxAttempts
    /\ name \notin Taken
    /\ securitySeq' = securitySeq + 1
    /\ infoSeq' = infoSeq + 1
    /\ Told(name, "error")
    /\ UNCHANGED <<security, info, banks, duplicates>>

Next ==
    \E name \in Names :
        \/ Invalid(name)
        \/ NotSent(name)
        \/ InsertDuplicate(name)
        \/ InsertAccount(name)
        \/ RolledBack(name)

Spec == Init /\ [][Next]_vars

-----------------------------------------------------------------------------
Rows == [id : Nat, username : Names]

\* Every variable keeps its type.
TypeOK ==
    /\ security \subseteq Rows
    /\ info \subseteq Nat
    /\ banks \subseteq [owner : Nat, name : Banks]
    /\ securitySeq \in Nat /\ infoSeq \in Nat /\ duplicates \in Nat
    /\ reply \in [outcome : {"none"}] \union [outcome : Replies, username : Names]

\* The two sequences part by exactly one for every registration under a name
\* that was taken, and never come together again: rolled back registrations
\* move both.
SequencesDrift ==
    /\ securitySeq = infoSeq + duplicates
    /\ \A row \in security : row.id <= securitySeq
    /\ \A id \in info : id <= infoSeq

\* Balance rows are never ahead of users: nobody registers and finds a row, and
\* with it a balance, that was there before.
NoInheritedBalance ==
    [][\A row \in security' \ security : row.id \notin info]_vars

\* Without a duplicate every user has the balance row its id selects.
AlignedUntilDuplicate ==
    duplicates = 0 => \A row \in security : row.id \in info

\* A user has one account with each bank and nobody else's, although the
\* trigger takes max(id) for the owner and not the id of the row it runs for.
BanksOfUsers ==
    /\ \A row \in security, b \in Banks : [owner |-> row.id, name |-> b] \in banks
    /\ \A account \in banks : \E row \in security : row.id = account.owner

\* Names are unique and so are ids, and who is told "registered", or that the
\* name exists, finds the name in the table.
UsersAreDistinct ==
    /\ \A r, s \in security : r.id = s.id \/ r.username = s.username => r = s
    /\ reply.outcome \in {"registered", "exists"} => reply.username \in Taken

\* Every user has the balance row its id selects.
EveryUserHasAccount == \A row \in security : row.id \in info
===================================================================================
