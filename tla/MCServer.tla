--------------------------------- MODULE MCServer ---------------------------------
(***************************************************************************)
(* Instances of the server for TLC: the constants are in the .cfg files.    *)
(***************************************************************************)
EXTENDS ServerProperties

\* A small stand-in for INT_MIN, far below every average of the instances.
LowestInt == -100
===================================================================================
