---------------------------- MODULE MCAgentExecutor ----------------------------
(***************************************************************************)
(* An execution of two steps, a resume of three, two tools.                *)
(***************************************************************************)
EXTENDS AgentExecutor, TLC

SmallBudget == "execute" :> 2 @@ "resume" :> 3
OneRetry == "delete" :> 0 @@ "search" :> 1
================================================================================
