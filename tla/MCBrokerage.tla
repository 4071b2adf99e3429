------------------------------- MODULE MCBrokerage -------------------------------
(***************************************************************************)
(* Instances of the brokerage for TLC: the constants are in the .cfg files. *)
(***************************************************************************)
EXTENDS BrokerageProperties, TLC

\* A small stand-in for INT_MIN, far below every average of the instances.
LowestInt == -100

\* Amounts of both signs: the largest takes a whole bank account, or more than
\* there is, a negative one more than a user has on either side.
SomeAmounts == {-8, 2, 6}
FewAmounts == {-1, 3}

\* Threads are interchangeable, and so are the banks: nothing orders them.
Alike == Permutations(Workers) \union Permutations(Banks)
==================================================================================
