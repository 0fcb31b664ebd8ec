------------------------------ MODULE MCMemory ------------------------------
(***************************************************************************)
(* MemoryStore for TLC: three memories, two of one token, one of another.  *)
(***************************************************************************)
EXTENDS MemoryStore

MCIds == {"m1", "m2", "m3"}
MCTokens == {"alice", "bob"}
MCTokenOf == [i \in MCIds |-> IF i = "m3" THEN "bob" ELSE "alice"]
=============================================================================
