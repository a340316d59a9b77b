--------------------------- MODULE MCShardManager ---------------------------
(* Instances of ShardManager for TLC.                                      *)
EXTENDS ShardManager

CONSTANTS p1, p2   \* the pushing threads
=============================================================================
