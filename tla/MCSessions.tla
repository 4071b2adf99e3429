-------------------------------- MODULE MCSessions --------------------------------
(***************************************************************************)
(* Instances of the sessions for TLC: the constants are in the .cfg files.  *)
(***************************************************************************)
EXTENDS SessionsProperties, TLC

\* Threads, clients, users, passwords and sids are interchangeable: nothing
\* orders them, and every subset of requests is closed under renaming.
Interchangeable ==
    Permutations(Workers) \union Permutations(Clients) \union Permutations(Users)
    \union Permutations(Passwords) \union Permutations(Sids)
===================================================================================
