---------------------------- MODULE MCAdvisoryLock -----------------------------
(* AdvisoryLock on small instances: which calls share a process, and how   *)
(* many connections that process has.                                      *)
EXTENDS AdvisoryLock, TLC

CONSTANTS r1, r2, c1, c2, c3, s1, s2, s3

(* Two runs whose hashes collide, or which have a key each.                *)
SameKey   == r1 :> 1 @@ r2 :> 1
KeyPerRun == r1 :> 1 @@ r2 :> 2

(* A process with two calls at a time over a pool of two connections, and  *)
(* a process with a single call and a single connection.                   *)
TwoShare == c1 :> {s1, s2} @@ c2 :> {s1, s2} @@ c3 :> {s3}
================================================================================
