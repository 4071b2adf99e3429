---------------------------- MODULE RegistrationProofs ----------------------------
(***************************************************************************)
(* Proofs about Registration for any set of names and banks.                *)
(***************************************************************************)
EXTENDS Registration, TLAPS

\* Every row and every owner is older than the sequence's next value, and as
\* long as the sequences agree the trigger gives each user the row of its id.
Inv ==
    /\ TypeOK
    /\ SequencesDrift
    /\ AlignedUntilDuplicate
    /\ BanksOfUsers
    /\ UsersAreDistinct

\* The empty tables satisfy the invariant.
LEMMA InitInv == Init => Inv
BY DEF Init, Inv, TypeOK, SequencesDrift, AlignedUntilDuplicate, BanksOfUsers,
       UsersAreDistinct, Taken

\* insert_banks finds the row it runs for: its id is above every other.
LEMMA NewestIsNew ==
    ASSUME Inv, NEW name \in Names
    PROVE  NewestId(security \union {[id |-> securitySeq + 1, username |-> name]})
             = securitySeq + 1
<1> DEFINE row == [id |-> securitySeq + 1, username |-> name]
           rows == security \union {row}
           new == securitySeq + 1
<1>1. \A r \in security : r.id \in Nat /\ r.id <= securitySeq
  <2>1. security \subseteq Rows /\ \A r \in security : r.id <= securitySeq
    BY DEF Inv, TypeOK, SequencesDrift
  <2> QED
    BY <2>1 DEF Rows
<1>2. securitySeq \in Nat
  BY DEF Inv, TypeOK
<1>3. new \in {r.id : r \in rows} /\ \A r \in rows : r.id <= new
  <2>1. row \in rows /\ row.id = new
    OBVIOUS
  <2>2. \A r \in rows : r.id <= new
    BY <1>1, <1>2
  <2> HIDE DEF rows, row
  <2> QED
    BY <2>1, <2>2
<1>4. ASSUME NEW id \in {r.id : r \in rows}, \A r \in rows : r.id <= id
      PROVE  id = new
  <2>1. new <= id
    BY <1>4
  <2>2. id \in Nat /\ id <= new
    BY <1>1, <1>2
  <2> QED
    BY <1>2, <2>1, <2>2
<1> HIDE DEF new, rows
<1> QED
  BY <1>3, <1>4 DEF NewestId, rows, new

\* What a committed registration leaves.
LEMMA InsertAccountInv ==
    ASSUME Inv, NEW name \in Names, InsertAccount(name)
    PROVE  Inv'
<1> DEFINE new == securitySeq + 1
           row == [id |-> new, username |-> name]
<1>1. /\ name \notin Taken /\ securitySeq' = new /\ infoSeq' = infoSeq + 1
      /\ security' = security \union {row} /\ info' = info \union {infoSeq + 1}
      /\ banks' = banks \union {[owner |-> new, name |-> b] : b \in Banks}
      /\ Told(name, "registered") \/ Told(name, "error")
      /\ duplicates' = duplicates
  BY NewestIsNew DEF InsertAccount
<1>2. securitySeq \in Nat /\ infoSeq \in Nat /\ duplicates \in Nat
  BY DEF Inv, TypeOK
<1>3. \A r \in security : r.id \in Nat /\ r.id <= securitySeq /\ r.username # name
  <2>1. security \subseteq Rows /\ \A r \in security : r.id <= securitySeq
    BY DEF Inv, TypeOK, SequencesDrift
  <2> QED
    BY <1>1, <2>1 DEF Rows, Taken
<1>4. \A id \in info : id \in Nat /\ id <= infoSeq
  BY DEF Inv, TypeOK, SequencesDrift
<1>5. TypeOK'
  <2>1. new \in Nat
    BY <1>2
  <2>2. security' \subseteq Rows
    BY <1>1, <2>1 DEF Inv, TypeOK, Rows
  <2>3. banks' \subseteq [owner : Nat, name : Banks]
    BY <1>1, <2>1 DEF Inv, TypeOK
  <2>4. info' \subseteq Nat /\ infoSeq' \in Nat
    BY <1>1, <1>2, <1>4
  <2>5. reply' \in [outcome : {"none"}] \union [outcome : Replies, username : Names]
    BY <1>1 DEF Told, Replies
  <2> HIDE DEF new
  <2> QED
    BY <1>1, <1>2, <2>1, <2>2, <2>3, <2>4, <2>5 DEF TypeOK
<1>6. SequencesDrift'
  <2>1. securitySeq = infoSeq + duplicates
    BY DEF Inv, SequencesDrift
  <2> QED
    BY <1>1, <1>2, <1>3, <1>4, <2>1 DEF SequencesDrift
<1>7. AlignedUntilDuplicate'
  <2> SUFFICES ASSUME duplicates = 0 PROVE \A r \in security' : r.id \in info'
    BY <1>1 DEF AlignedUntilDuplicate
  <2>1. new = infoSeq + 1
    BY <1>2 DEF Inv, SequencesDrift
  <2> HIDE DEF new
  <2> QED
    BY <1>1, <2>1 DEF Inv, AlignedUntilDuplicate
<1>8. BanksOfUsers'
  <2>1. \A r \in security, b \in Banks : [owner |-> r.id, name |-> b] \in banks
    BY DEF Inv, BanksOfUsers
  <2>2. \A a \in banks : \E r \in security : r.id = a.owner
    BY DEF Inv, BanksOfUsers
  <2>3. row.id = new /\ row \in security'
    BY <1>1
  <2> HIDE DEF new
  <2>4. ASSUME NEW r \in security', NEW b \in Banks
        PROVE  [owner |-> r.id, name |-> b] \in banks'
    <3>1. CASE r \in security
      BY <1>1, <2>1, <3>1
    <3>2. CASE r.id = new
      BY <1>1, <3>2
    <3>3. r \in security \/ r = row
      BY <1>1
    <3> QED
      BY <2>3, <3>1, <3>2, <3>3
  <2>5. ASSUME NEW a \in banks'
        PROVE  \E r \in security' : r.id = a.owner
    <3>1. a \in banks \/ a.owner = new
      BY <1>1
    <3> HIDE DEF row
    <3> QED
      BY <1>1, <2>2, <2>3, <3>1
  <2> QED
    BY <2>4, <2>5 DEF BanksOfUsers
<1>9. UsersAreDistinct'
  <2>1. \A r \in security : r.id # new
    BY <1>2, <1>3
  <2>2. reply'.outcome \in {"registered", "error"} /\ reply'.username = name
    BY <1>1 DEF Told
  <2> HIDE DEF new
  <2>3. \A r, s \in security' : r.id = s.id \/ r.username = s.username => r = s
    BY <1>1, <1>3, <2>1 DEF Inv, UsersAreDistinct
  <2>4. name \in Taken'
    <3>1. row \in security' /\ row.username = name
      BY <1>1
    <3> HIDE DEF row
    <3> QED
      BY <3>1 DEF Taken
  <2> QED
    BY <2>2, <2>3, <2>4 DEF UsersAreDistinct
<1> QED
  BY <1>5, <1>6, <1>7, <1>8, <1>9 DEF Inv

\* The invariant is inductive.
LEMMA NextInv == Inv /\ [Next]_vars => Inv'
<1> SUFFICES ASSUME Inv, [Next]_vars PROVE Inv'
  OBVIOUS
<1>1. ASSUME NEW name \in Names, Invalid(name) \/ NotSent(name)
      PROVE  Inv'
  <2>1. /\ \E outcome \in {"invalid", "error"} :
              reply' = [outcome |-> outcome, username |-> name]
        /\ UNCHANGED <<security, info, banks, securitySeq, infoSeq, duplicates>>
    BY <1>1 DEF Invalid, NotSent, Told
  <2>2. TypeOK'
    BY <2>1 DEF Inv, TypeOK, Replies
  <2>3. SequencesDrift' /\ AlignedUntilDuplicate' /\ BanksOfUsers'
    BY <2>1 DEF Inv, SequencesDrift, AlignedUntilDuplicate, BanksOfUsers
  <2>4. UsersAreDistinct'
    BY <2>1 DEF Inv, UsersAreDistinct
  <2> QED
    BY <2>2, <2>3, <2>4 DEF Inv
<1>2. ASSUME NEW name \in Names, InsertDuplicate(name)
      PROVE  Inv'
  <2>1. /\ name \in Taken /\ securitySeq' = securitySeq + 1 /\ duplicates' = duplicates + 1
        /\ \E outcome \in {"exists", "error"} :
              reply' = [outcome |-> outcome, username |-> name]
        /\ UNCHANGED <<security, info, banks, infoSeq>>
    BY <1>2 DEF InsertDuplicate, Told
  <2>2. securitySeq \in Nat /\ infoSeq \in Nat /\ duplicates \in Nat
    BY DEF Inv, TypeOK
  <2>3. TypeOK'
    BY <2>1, <2>2 DEF Inv, TypeOK, Replies
  <2>4. SequencesDrift'
    <3>1. \A r \in security : r.id \in Nat
      BY DEF Inv, TypeOK, Rows
    <3>2. securitySeq = infoSeq + duplicates /\ \A r \in security : r.id <= securitySeq
      BY DEF Inv, SequencesDrift
    <3> QED
      BY <2>1, <2>2, <3>1, <3>2 DEF Inv, SequencesDrift
  <2>5. AlignedUntilDuplicate'
    BY <2>1, <2>2 DEF AlignedUntilDuplicate
  <2>6. BanksOfUsers' /\ UsersAreDistinct'
    BY <2>1 DEF Inv, BanksOfUsers, UsersAreDistinct, Taken
  <2> QED
    BY <2>3, <2>4, <2>5, <2>6 DEF Inv
<1>3. ASSUME NEW name \in Names, RolledBack(name)
      PROVE  Inv'
  <2>1. /\ securitySeq' = securitySeq + 1 /\ infoSeq' = infoSeq + 1
        /\ reply' = [outcome |-> "error", username |-> name]
        /\ UNCHANGED <<security, info, banks, duplicates>>
    BY <1>3 DEF RolledBack, Told
  <2>2. securitySeq \in Nat /\ infoSeq \in Nat /\ duplicates \in Nat
    BY DEF Inv, TypeOK
  <2>3. (\A r \in security : r.id \in Nat) /\ (\A id \in info : id \in Nat)
    BY DEF Inv, TypeOK, Rows
  <2>4. TypeOK'
    BY <2>1, <2>2 DEF Inv, TypeOK, Replies
  <2>5. SequencesDrift'
    <3>1. /\ securitySeq = infoSeq + duplicates
          /\ \A r \in security : r.id <= securitySeq
          /\ \A id \in info : id <= infoSeq
      BY DEF Inv, SequencesDrift
    <3> QED
      BY <2>1, <2>2, <2>3, <3>1 DEF SequencesDrift
  <2>6. AlignedUntilDuplicate' /\ BanksOfUsers' /\ UsersAreDistinct'
    BY <2>1 DEF Inv, AlignedUntilDuplicate, BanksOfUsers, UsersAreDistinct, Taken
  <2> QED
    BY <2>4, <2>5, <2>6 DEF Inv
<1>4. CASE UNCHANGED vars
  BY <1>4 DEF vars, Inv, TypeOK, SequencesDrift, AlignedUntilDuplicate, BanksOfUsers,
              UsersAreDistinct, Taken
<1> QED
  BY <1>1, <1>2, <1>3, <1>4, InsertAccountInv DEF Next

\* Types, the distance of the sequences, the owners of bank accounts and the
\* uniqueness of names hold in every state /register can reach.
THEOREM Correct == Spec => []Inv
BY InitInv, NextInv, PTL DEF Spec

\* The distance between the sequences is the number of refused duplicates.
THEOREM Drift == Spec => []SequencesDrift
<1>1. Inv => SequencesDrift
  BY DEF Inv
<1> QED
  BY <1>1, Correct, PTL

\* Only a refused duplicate can leave a user without a balance row.
THEOREM Aligned == Spec => []AlignedUntilDuplicate
<1>1. Inv => AlignedUntilDuplicate
  BY DEF Inv
<1> QED
  BY <1>1, Correct, PTL

\* max(id) in the trigger is the id of the row it runs for, always.
THEOREM BanksBelong == Spec => []BanksOfUsers
<1>1. Inv => BanksOfUsers
  BY DEF Inv
<1> QED
  BY <1>1, Correct, PTL

\* Every reachable state is well typed.
THEOREM RegistrationTypeCorrect == Spec => []TypeOK
<1>1. Inv => TypeOK
  BY DEF Inv
<1> QED
  BY <1>1, Correct, PTL

\* Ids are handed out once and names too, and nobody is told of a registration, or
\* of a name that is taken, that the table does not have.
THEOREM Distinct == Spec => []UsersAreDistinct
<1>1. Inv => UsersAreDistinct
  BY DEF Inv
<1> QED
  BY <1>1, Correct, PTL

\* Nobody registers into a balance that was there before.
THEOREM FreshBalance == Spec => NoInheritedBalance
<1>1. Inv /\ [Next]_vars => [\A row \in security' \ security : row.id \notin info]_vars
  <2> SUFFICES ASSUME Inv, Next PROVE \A row \in security' \ security : row.id \notin info
    OBVIOUS
  <2>1. ASSUME NEW name \in Names, InsertAccount(name)
        PROVE  security' = security \union {[id |-> securitySeq + 1, username |-> name]}
    BY <2>1 DEF InsertAccount
  <2>2. securitySeq + 1 \notin info
    <3>1. /\ securitySeq = infoSeq + duplicates /\ \A id \in info : id <= infoSeq
          /\ securitySeq \in Nat /\ infoSeq \in Nat /\ duplicates \in Nat
      BY DEF Inv, TypeOK, SequencesDrift
    <3> QED
      BY <3>1
  <2> QED
    BY <2>1, <2>2 DEF Next, Invalid, NotSent, InsertDuplicate, RolledBack
<1> QED
  BY <1>1, Correct, PTL DEF Spec, NoInheritedBalance
===================================================================================
