----------------------------- MODULE MCMemoryLock ------------------------------
(* MemoryLock on small instances, whose calls and runs the cfg names.      *)
EXTENDS MemoryLock

CONSTANTS r1, r2, c1, c2, c3
================================================================================
