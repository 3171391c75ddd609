------------------------------- MODULE MCBulkhead -------------------------------
(***************************************************************************)
(* Two calls whose functions call the same bulkhead again, and two plain.  *)
(***************************************************************************)
EXTENDS Bulkhead, TLC

CONSTANTS a, b, c, d, a2, b2

Nested == a :> a2 @@ b :> b2 @@ c :> Null @@ d :> Null @@ a2 :> Null @@ b2 :> Null
================================================================================
