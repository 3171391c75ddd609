----------------------------- MODULE MCFlowEngine ------------------------------
(***************************************************************************)
(* Small flows for FlowEngine.                                             *)
(***************************************************************************)
EXTENDS FlowEngine, TLC

CONSTANTS r1, r2, c1, c2, c3, h1, h2, k1, k2

Edge(from, to, priority, guarded) ==
  [from |-> from, to |-> to, priority |-> priority, guarded |-> guarded]

TwoHosts == c1 :> h1 @@ c2 :> h2
(* The two processes of TwoHosts differ in name only, each with its call.  *)
Other == c1 :> c2 @@ c2 :> c1 @@ h1 :> h2 @@ h2 :> h1
SameProcesses == {[v \in {c1, c2, h1, h2} |-> IF swap THEN Other[v] ELSE v] :
                    swap \in BOOLEAN}

TwoEngines == c1 :> h1 @@ c2 :> h1 @@ c3 :> h2

(* Only charge patches the state. *)
OrderPatch == [n \in Nodes |-> [s \in {"ok", "wait"} |-> IF n = "charge" /\ s = "ok" THEN Fields ELSE {}]]

(* charge (keyed, retried, with a timeout) -> ask (waits) or ship -> end.  *)
OrderNodes == {"charge", "ask", "ship"}
OrderEdges == {Edge("charge", "ask", 1, TRUE), Edge("charge", "ship", 0, FALSE),
               Edge("ask", "ship", 0, FALSE)}
OrderAttempts == [n \in Nodes |-> IF n = "charge" THEN 2 ELSE 1]
OrderHandler ==
  [n \in Nodes |-> [resumed \in BOOLEAN |->
     CASE n = "charge" -> {"ok", "timeout"}
       [] n = "ask" -> IF resumed THEN {"ok"} ELSE {"wait"}
       [] OTHER -> {"ok", "fatal"}]]
OrderKeys == [r \in Runs |-> [n \in Nodes |->
                IF n = "charge" THEN (IF r = r1 THEN k1 ELSE k2) ELSE Null]]

(* The same flow with an edge to a node that the definition does not have, *)
(* which may match together with the edge to ask; charge may also wait.    *)
TornNodes == OrderNodes \cup {"ghost"}
TornEdges == OrderEdges \cup {Edge("charge", "ghost", 1, TRUE)}
TornHandler == [OrderHandler EXCEPT !["charge"] =
                  [resumed \in BOOLEAN |-> {"ok", "wait", "transient"}]]
================================================================================
