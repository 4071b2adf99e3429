------------------------------- MODULE MCPriceFeed -------------------------------
(***************************************************************************)
(* Instances of the price feed for TLC: the constants are in the .cfg files. *)
(***************************************************************************)
EXTENDS PriceFeed, TLC

\* Jobs and inodes are interchangeable: nothing orders them.
Interchangeable == Permutations(Jobs) \union Permutations(Inodes)
==================================================================================
