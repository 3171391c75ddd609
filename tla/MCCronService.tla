----------------------------- MODULE MCCronService -----------------------------
(***************************************************************************)
(* Two names: "a" is registered twice, the second time with runOnInit;     *)
(* both names' methods use one key.                                        *)
(***************************************************************************)
EXTENDS CronService, TLC

CONSTANTS a1, a2, b1

OneKey == [c \in Calls |-> "nightly"]
TwoNames == a1 :> "a" @@ a2 :> "a" @@ b1 :> "b"
SomeMaxRuns == a1 :> 0 @@ a2 :> 1 @@ b1 :> 1
================================================================================
