---------------------------- MODULE FlowEngineProofs ---------------------------
(***************************************************************************)
(* Theorems about the flow engine, for every flow definition, every number *)
(* of runs, callers and processes, and any number of crashes and failures. *)
(***************************************************************************)
EXTENDS FlowEngine, FiniteSetTheorems, TLAPS

(* Every variable has its type in the initial states.                      *)
LEMMA TypeInit == Init => TypeOK
<1> SUFFICES ASSUME Init PROVE TypeOK
  OBVIOUS
<1>1. \A r \in Runs : IdleCall(r) \in Call
  BY ConfigAssumption DEF IdleCall, Call, PCs, States, Results, EventTypes
<1>2. PICK r \in Runs : calls = [c \in Calls |-> IdleCall(r)]
  BY DEF Init
<1>3. calls \in [Calls -> Call]
  BY <1>1, <1>2
<1>4. rows \in [Runs -> Row]
  BY DEF Init, Row, States
<1>5. idem \in [Keys -> [stored : BOOLEAN, patch : SUBSET Fields]]
  BY DEF Init
<1>6. timeline \in [Runs -> Seq(EventTypes)]
  BY DEF Init
<1>7. /\ performed \in [Keys -> Nat] /\ abandoned \in [Keys -> Nat]
      /\ poisoned \subseteq Runs /\ early \subseteq Runs
      /\ crashes \in Nat /\ faults \in Nat
  BY DEF Init
<1>8. QED BY <1>3, <1>4, <1>5, <1>6, <1>7 DEF TypeOK

(* What the moves of a call leave of the calls: one call, of the right     *)
(* type, has changed.                                                      *)
Moves(c, x) == calls' = [calls EXCEPT ![c] = x]

LEMMA GotoMoves ==
  ASSUME calls \in [Calls -> Call], NEW c \in Calls, NEW p \in PCs, Goto(c, p)
  PROVE  /\ Moves(c, [calls[c] EXCEPT !.pc = p])
         /\ [calls[c] EXCEPT !.pc = p] \in Call
<1>1. Moves(c, [calls[c] EXCEPT !.pc = p])
  BY DEF Goto, Moves
<1>2. ASSUME NEW x \in Call PROVE [x EXCEPT !.pc = p] \in Call
  BY DEF Call
<1>3. QED BY <1>1, <1>2

LEMMA IdleIsCall ==
  ASSUME NEW r \in Runs, NEW p \in PCs, NEW o \in {"start", "tick", "resume"}
  PROVE  /\ IdleCall(r) \in Call
         /\ [IdleCall(r) EXCEPT !.pc = p, !.op = o] \in Call
  BY ConfigAssumption DEF IdleCall, Call, PCs, States, Results, EventTypes

LEMMA BackMoves ==
  ASSUME calls \in [Calls -> Call], NEW c \in Calls, Back(c)
  PROVE  Moves(c, IdleCall(Run(c))) /\ IdleCall(Run(c)) \in Call
<1>1. Run(c) \in Runs
  BY DEF Run, Call
<1>2. "idle" \in PCs
  BY DEF PCs
<1>3. QED BY <1>1, <1>2, IdleIsCall DEF Back, Moves, Run

LEMMA MovesType ==
  ASSUME calls \in [Calls -> Call], NEW c \in Calls, NEW x \in Call, Moves(c, x)
  PROVE  /\ calls' \in [Calls -> Call]
         /\ calls'[c] = x
         /\ \A d \in Calls \ {c} : calls'[d] = calls[d]
  BY DEF Moves

LEMMA LogType ==
  ASSUME TypeOK, NEW c \in Calls, NEW t \in EventTypes, Log(c, t)
  PROVE  timeline' \in [Runs -> Seq(EventTypes)]
<1>1. Run(c) \in Runs
  BY DEF TypeOK, Call, Run
<1>2. QED BY <1>1 DEF Log, TypeOK
--------------------------------------------------------------------------------
(* SnapshotFresh, of one call and the row of its run.                      *)
Fresh(x, row) ==
  /\ x.pc \in Executing \cup {"missing"} => row.status \in {"RUNNING", "WAITING"}
  /\ x.pc = "wake" => row.status = "WAITING"
  /\ x.pc \in Executing \cup {"wake"} => row.state = x.state
  /\ x.pc \in Executing => row.outputs = x.outputs

(* How a row may change: an ended one does not, and outputs are kept.      *)
Later(old, new) ==
  /\ old.status \in Terminal => /\ new.status = old.status
                                /\ new.state = old.state
                                /\ new.outputs = old.outputs
  /\ old.outputs \subseteq new.outputs

RowsLater == \A r \in Runs : Later(rows[r], rows'[r])

IInv == TypeOK /\ OneAtATime /\ SnapshotFresh

Kept == /\ rows' \in [Runs -> Row] /\ calls' \in [Calls -> Call]
        /\ OneAtATime' /\ SnapshotFresh' /\ RowsLater

LEMMA FreshOfCalls ==
  IInv => \A c \in Calls : Run(c) \in Runs /\ Fresh(calls[c], rows[Run(c)])
  BY DEF IInv, TypeOK, Call, SnapshotFresh, Fresh, Run

LEMMA CallsOfFresh ==
  ASSUME \A c \in Calls : Fresh(calls'[c], rows'[calls'[c].run])
  PROVE  SnapshotFresh'
  BY DEF SnapshotFresh, Fresh, Run

(* A step inside the section of a run may replace the row of that run and  *)
(* the record of the call: nobody else is inside.                          *)
LEMMA SectionStep ==
  ASSUME IInv, NEW c \in Calls, Inside(c),
         NEW x \in Call, x.run = Run(c), Moves(c, x),
         NEW y \in Row, rows' = [rows EXCEPT ![Run(c)] = y],
         Fresh(x, y), Later(rows[Run(c)], y)
  PROVE  Kept
<1> USE DEF IInv
<1>1. calls \in [Calls -> Call] /\ rows \in [Runs -> Row]
  BY DEF TypeOK
<1>2. Run(c) \in Runs /\ \A d \in Calls : calls[d].run \in Runs
  BY FreshOfCalls DEF Run
<1>3. rows' \in [Runs -> Row] /\ rows'[Run(c)] = y
      /\ \A r \in Runs : r # Run(c) => rows'[r] = rows[r]
  BY <1>1, <1>2
<1>4. calls' \in [Calls -> Call] /\ calls'[c] = x
      /\ \A d \in Calls \ {c} : calls'[d] = calls[d]
  BY <1>1, MovesType
<1>5. RowsLater
  BY <1>3 DEF RowsLater, Later
<1>6. OneAtATime'
  BY <1>4 DEF OneAtATime, Inside, Run
<1>7. ASSUME NEW d \in Calls PROVE Fresh(calls'[d], rows'[calls'[d].run])
  <2>1. CASE d = c
    BY <2>1, <1>3, <1>4
  <2>2. CASE d # c /\ Run(d) = Run(c)
    <3>1. ~Inside(d)
      BY <2>2 DEF OneAtATime
    <3>2. QED BY <2>2, <3>1, <1>4 DEF Fresh, Inside, SectionPCs, Executing
  <2>3. CASE d # c /\ Run(d) # Run(c)
    BY <2>3, <1>2, <1>3, <1>4, FreshOfCalls DEF Run
  <2>4. QED BY <2>1, <2>2, <2>3
<1>8. QED BY <1>3, <1>4, <1>5, <1>6, <1>7, CallsOfFresh DEF Kept

(* The same when the table is left alone.                                  *)
LEMMA ReadOnlyStep ==
  ASSUME IInv, NEW c \in Calls, Inside(c),
         NEW x \in Call, x.run = Run(c), Moves(c, x), UNCHANGED rows,
         Fresh(x, rows[Run(c)])
  PROVE  Kept
<1>1. rows \in [Runs -> Row] /\ Run(c) \in Runs
  BY FreshOfCalls DEF IInv, TypeOK
<1>2. rows' = [rows EXCEPT ![Run(c)] = rows[Run(c)]]
  BY <1>1
<1>3. Later(rows[Run(c)], rows[Run(c)])
  BY DEF Later
<1>4. QED BY <1>1, <1>2, <1>3, SectionStep

(* A step of a call outside every section leaves it outside, or enters a   *)
(* free one, and what it writes no section has read.                       *)
LEMMA OutsideStep ==
  ASSUME IInv, NEW c \in Calls, NEW x \in Call, Moves(c, x),
         x.pc \notin Executing \cup {"wake", "missing"},
         x.pc \in SectionPCs => LockFree(x.run) \/ (Inside(c) /\ x.run = Run(c)),
         rows' \in [Runs -> Row],
         \A r \in Runs : /\ rows'[r].outputs = rows[r].outputs
                         /\ \/ /\ rows'[r].status = rows[r].status
                               /\ rows'[r].state = rows[r].state
                            \/ rows[r].status = "ABSENT"
  PROVE  Kept
<1> USE DEF IInv
<1>1. calls \in [Calls -> Call] /\ \A d \in Calls : calls[d].run \in Runs
  BY FreshOfCalls DEF TypeOK, Run
<1>2. calls' \in [Calls -> Call] /\ calls'[c] = x
      /\ \A d \in Calls \ {c} : calls'[d] = calls[d]
  BY <1>1, MovesType
<1>3. RowsLater
  BY DEF RowsLater, Later, Terminal
<1>4. OneAtATime'
  BY <1>2 DEF OneAtATime, Inside, Run, LockFree
<1>5. ASSUME NEW d \in Calls PROVE Fresh(calls'[d], rows'[calls'[d].run])
  <2>1. CASE d = c
    BY <2>1, <1>2 DEF Fresh
  <2>2. CASE d # c
    <3>1. calls'[d] = calls[d] /\ calls[d].run \in Runs
          /\ Fresh(calls[d], rows[calls[d].run])
      BY <2>2, <1>1, <1>2, FreshOfCalls DEF Run
    <3>2. QED BY <3>1 DEF Fresh, Executing
  <2>3. QED BY <2>1, <2>2
<1>6. QED BY <1>2, <1>3, <1>4, <1>5, CallsOfFresh DEF Kept
--------------------------------------------------------------------------------
(* What every step needs of the types.                                     *)
LEMMA Typed ==
  ASSUME IInv, NEW c \in Calls
  PROVE  /\ calls \in [Calls -> Call] /\ rows \in [Runs -> Row]
         /\ calls[c] \in Call /\ Run(c) \in Runs /\ rows[Run(c)] \in Row
         /\ Fresh(calls[c], rows[Run(c)])
  BY FreshOfCalls DEF IInv, TypeOK

(* A call inside its section that only moves on keeps its copy of the row. *)
LEMMA GotoKeeps ==
  ASSUME IInv, NEW c \in Calls, Inside(c), NEW p \in PCs, Goto(c, p), UNCHANGED rows,
         \/ p \notin Executing \cup {"wake", "missing"}
         \/ p \in Executing /\ calls[c].pc \in Executing
  PROVE  Kept
<1> DEFINE x == [calls[c] EXCEPT !.pc = p]
<1>1. Moves(c, x) /\ x \in Call
  BY Typed, GotoMoves
<1>2. x.pc = p /\ x.run = Run(c) /\ x.state = calls[c].state /\ x.outputs = calls[c].outputs
  BY Typed DEF Call, Run
<1>3. Fresh(x, rows[Run(c)])
  BY <1>2, Typed DEF Fresh, Executing
<1> HIDE DEF x
<1>4. QED BY <1>1, <1>2, <1>3, ReadOnlyStep

LEMMA BackKeeps ==
  ASSUME IInv, NEW c \in Calls, Back(c), UNCHANGED rows
  PROVE  Kept
<1>1. Moves(c, IdleCall(Run(c))) /\ IdleCall(Run(c)) \in Call
  BY Typed, BackMoves
<1>2. IdleCall(Run(c)).pc = "idle"
  BY DEF IdleCall
<1>3. QED BY <1>1, <1>2, Typed, OutsideStep DEF Executing, SectionPCs

LEMMA SectionPCsAre == SectionPCs \subseteq PCs /\ Executing \subseteq SectionPCs
  BY DEF SectionPCs, PCs, Executing

LEMMA Members ==
  /\ "wake" \in PCs /\ "missing" \in PCs /\ "event" \in PCs /\ "done" \in PCs
  /\ "handler" \in PCs /\ "store" \in PCs /\ "finish" \in PCs /\ "failed" \in PCs
  /\ "handler" \in Executing /\ "store" \in Executing
  /\ "finish" \in Executing /\ "failed" \in Executing
  /\ "ok" \in Results /\ "thrown" \in Results
  BY DEF SectionPCs, PCs, Executing, Results

LEMMA ReadForResumeKeeps == ASSUME IInv, NEW c \in Calls, ReadForResume(c) PROVE Kept
<1>0. Inside(c) /\ "done" \in PCs
  BY DEF ReadForResume, At, Inside, SectionPCs, PCs
<1>1. CASE Goto(c, "done") /\ UNCHANGED rows
  BY <1>0, <1>1, GotoKeeps DEF Executing
<1>2. CASE /\ rows[Run(c)].status = "WAITING" /\ UNCHANGED rows
           /\ calls' = [calls EXCEPT ![c].pc = "wake", ![c].state = rows[Run(c)].state]
  <2> DEFINE x == [calls[c] EXCEPT !.pc = "wake", !.state = rows[Run(c)].state]
  <2>1. Moves(c, x)
    BY <1>2, Typed DEF Moves
  <2>2. rows[Run(c)].state \in States
    BY Typed DEF Row
  <2>3. x \in Call /\ x.run = Run(c) /\ x.pc = "wake" /\ x.state = rows[Run(c)].state
    BY <2>2, Members, Typed DEF Call, Run
  <2> HIDE DEF x
  <2>4. Fresh(x, rows[Run(c)])
    BY <1>2, <2>3 DEF Fresh, Executing
  <2>5. QED BY <1>0, <1>2, <2>1, <2>3, <2>4, ReadOnlyStep
<1>3. CASE /\ rows[Run(c)].status = "WAITING" /\ Goto(c, "done")
           /\ rows' = [rows EXCEPT ![Run(c)].status = "FAILED"]
  <2> DEFINE x == [calls[c] EXCEPT !.pc = "done"]
             y == [rows[Run(c)] EXCEPT !.status = "FAILED"]
  <2>1. Moves(c, x) /\ x \in Call
    BY <1>0, <1>3, Typed, GotoMoves
  <2>2. x.pc = "done" /\ x.run = Run(c)
    BY Typed DEF Call, Run
  <2>3. rows' = [rows EXCEPT ![Run(c)] = y]
    BY <1>3
  <2>4. y \in Row /\ y.outputs = rows[Run(c)].outputs
    BY Typed DEF Row, Terminal
  <2>5. Fresh(x, y) /\ Later(rows[Run(c)], y)
    BY <1>3, <2>2, <2>4 DEF Fresh, Executing, Later, Terminal
  <2> HIDE DEF x, y
  <2>6. QED BY <1>0, <2>1, <2>2, <2>3, <2>4, <2>5, SectionStep
<1>4. QED BY <1>1, <1>2, <1>3 DEF ReadForResume

LEMMA WakeKeeps == ASSUME IInv, NEW c \in Calls, Wake(c) PROVE Kept
<1> DEFINE x == [calls[c] EXCEPT !.pc = "load"]
<1>0. Inside(c) /\ "load" \in PCs /\ calls[c].pc = "wake"
  BY DEF Wake, At, Inside, SectionPCs, PCs
<1>1. Moves(c, x) /\ x \in Call
  BY <1>0, Typed, GotoMoves DEF Wake
<1>2. x.pc = "load" /\ x.run = Run(c)
  BY Typed DEF Call, Run
<1>3. PICK payload \in {{}, {Payload}} :
        rows' = [rows EXCEPT ![Run(c)].status = "RUNNING",
                             ![Run(c)].state = calls[c].state \cup payload]
  BY DEF Wake
<1> DEFINE y == [rows[Run(c)] EXCEPT !.status = "RUNNING",
                                     !.state = calls[c].state \cup payload]
<1>4. rows' = [rows EXCEPT ![Run(c)] = y]
  BY <1>3, Typed
<1>5. calls[c].state \cup payload \in States
  BY Typed DEF Call, States
<1>6. y \in Row /\ y.outputs = rows[Run(c)].outputs
  BY <1>5, Typed DEF Row
<1>7. rows[Run(c)].status = "WAITING"
  BY <1>0, Typed DEF Fresh
<1>8. Fresh(x, y) /\ Later(rows[Run(c)], y)
  BY <1>2, <1>6, <1>7 DEF Fresh, Executing, Later, Terminal
<1> HIDE DEF x, y
<1>9. QED BY <1>0, <1>1, <1>2, <1>4, <1>6, <1>8, SectionStep

LEMMA LoadedCall ==
  ASSUME NEW z \in Call, NEW n \in Nodes, NEW s \in States, NEW o \in SUBSET Nodes
  PROVE  [z EXCEPT !.pc = "begin", !.node = n, !.attempt = 1,
                   !.state = s, !.outputs = o] \in Call
<1>1. "begin" \in PCs /\ 1 \in Nat
  BY DEF PCs, SectionPCs
<1>2. QED BY <1>1 DEF Call

LEMMA LoadKeeps == ASSUME IInv, NEW c \in Calls, Load(c) PROVE Kept
<1> DEFINE row == rows[Run(c)]
           n == IF row.node = Null THEN Entry ELSE row.node
           x == IF row.status \notin {"RUNNING", "WAITING"} THEN [calls[c] EXCEPT !.pc = "done"]
                ELSE IF n \notin Defined THEN [calls[c] EXCEPT !.pc = "missing"]
                ELSE [calls[c] EXCEPT !.pc = "begin", !.node = n, !.attempt = 1,
                                      !.state = row.state, !.outputs = row.outputs]
<1>0. Inside(c) /\ UNCHANGED rows
  BY DEF Load, At, Inside, SectionPCs
<1>1. Moves(c, x)
  BY DEF Load, Moves
<1>2. row \in Row /\ row.state \in States /\ row.outputs \in SUBSET Nodes
  BY Typed DEF Row
<1>3. x \in Call /\ x.run = Run(c) /\ Fresh(x, row)
  <2>1. CASE row.status \notin {"RUNNING", "WAITING"}
    <3>1. x = [calls[c] EXCEPT !.pc = "done"]
      BY <2>1
    <3>2. /\ [calls[c] EXCEPT !.pc = "done"] \in Call
          /\ [calls[c] EXCEPT !.pc = "done"].run = Run(c)
          /\ [calls[c] EXCEPT !.pc = "done"].pc = "done"
      BY Members, Typed DEF Call, Run
    <3>3. QED BY <3>1, <3>2 DEF Fresh, Executing
  <2>2. CASE row.status \in {"RUNNING", "WAITING"} /\ n \notin Defined
    <3>1. x = [calls[c] EXCEPT !.pc = "missing"]
      BY <2>2
    <3>2. /\ [calls[c] EXCEPT !.pc = "missing"] \in Call
          /\ [calls[c] EXCEPT !.pc = "missing"].run = Run(c)
          /\ [calls[c] EXCEPT !.pc = "missing"].pc = "missing"
      BY Members, Typed DEF Call, Run
    <3>3. QED BY <2>2, <3>1, <3>2 DEF Fresh, Executing
  <2>3. CASE row.status \in {"RUNNING", "WAITING"} /\ n \in Defined
    <3>1. x = [calls[c] EXCEPT !.pc = "begin", !.node = n, !.attempt = 1,
                               !.state = row.state, !.outputs = row.outputs]
      BY <2>3
    <3>2. n \in Nodes
      BY <2>3, ConfigAssumption
    <3>3. x \in Call /\ x.run = Run(c) /\ x.pc = "begin"
          /\ x.state = row.state /\ x.outputs = row.outputs
      <4>1. x \in Call
        <5>1. calls[c] \in Call
          BY Typed
        <5> HIDE DEF n, row, x
        <5>2. [calls[c] EXCEPT !.pc = "begin", !.node = n, !.attempt = 1,
                               !.state = row.state, !.outputs = row.outputs] \in Call
          BY <1>2, <3>2, <5>1, LoadedCall
        <5>3. QED BY <3>1, <5>2
      <4>2. x.run = calls[c].run /\ x.pc = "begin"
            /\ x.state = row.state /\ x.outputs = row.outputs
        <5> HIDE DEF x, n, row
        <5>1. QED BY <3>1, Typed DEF Call
      <4>3. QED BY <4>1, <4>2 DEF Run
    <3>4. QED BY <2>3, <3>3 DEF Fresh, Executing
  <2>4. QED BY <2>1, <2>2, <2>3
<1> HIDE DEF x
<1>4. QED BY <1>0, <1>1, <1>3, ReadOnlyStep

(* The call is about to log how its run ended or parked: the last write of *)
(* a tick, with the row y it leaves behind.                                *)
LEMMA LastWrite ==
  ASSUME IInv, NEW c \in Calls, Inside(c), NEW event \in EventTypes, NEW y \in Row,
         rows' = [rows EXCEPT ![Run(c)] = y],
         calls' = [calls EXCEPT ![c].pc = "event", ![c].event = event],
         Later(rows[Run(c)], y)
  PROVE  Kept
<1> DEFINE x == [calls[c] EXCEPT !.pc = "event", !.event = event]
<1>1. Moves(c, x)
  BY Typed DEF Moves
<1>2. x \in Call /\ x.run = Run(c) /\ x.pc = "event"
  BY Members, Typed DEF Call, Run
<1>3. Fresh(x, y)
  BY <1>2 DEF Fresh, Executing
<1> HIDE DEF x
<1>4. QED BY <1>1, <1>2, <1>3, SectionStep

LEMMA NodeMissingKeeps == ASSUME IInv, NEW c \in Calls, NodeMissing(c) PROVE Kept
<1> DEFINE y == [rows[Run(c)] EXCEPT !.status = "FAILED"]
<1>1. Inside(c) /\ rows[Run(c)].status \in {"RUNNING", "WAITING"}
  BY Typed DEF NodeMissing, At, Inside, SectionPCs, Fresh
<1>2. rows' = [rows EXCEPT ![Run(c)] = y]
  BY DEF NodeMissing
<1>3. y \in Row /\ y.outputs = rows[Run(c)].outputs
  BY Typed DEF Row, Terminal
<1>4. Later(rows[Run(c)], y)
  BY <1>1, <1>3 DEF Later, Terminal
<1>5. calls' = [calls EXCEPT ![c].pc = "event", ![c].event = "RUN_ABORTED"]
      /\ "RUN_ABORTED" \in EventTypes
  BY DEF NodeMissing, EventTypes
<1> HIDE DEF y
<1>6. QED BY <1>1, <1>2, <1>3, <1>4, <1>5, LastWrite

LEMMA CheckKeeps == ASSUME IInv, NEW c \in Calls, Check(c) PROVE Kept
<1> DEFINE k == NodeKey(c)
           hit == k # Null /\ idem[k].stored
           x == IF hit THEN [calls[c] EXCEPT !.pc = "finish", !.result = "ok",
                                             !.cached = TRUE, !.patch = idem[k].patch]
                       ELSE [calls[c] EXCEPT !.pc = "handler"]
<1>0. Inside(c) /\ UNCHANGED rows /\ calls[c].pc = "check"
  BY DEF Check, At, Inside, SectionPCs
<1>1. Moves(c, x)
  BY DEF Check, Moves
<1>2. k \in Keys \cup {Null}
  <2>1. calls[c].node \in Nodes
    BY Typed DEF Call
  <2>2. QED BY <2>1, Typed, ConfigAssumption DEF NodeKey
<1>3. hit => idem[k].patch \in SUBSET Fields
  BY <1>2 DEF IInv, TypeOK
<1> HIDE DEF k
<1>4. x \in Call /\ x.run = Run(c) /\ x.pc \in Executing
      /\ x.state = calls[c].state /\ x.outputs = calls[c].outputs
  BY <1>3, Members, Typed DEF Call, Run
<1> HIDE DEF x
<1>5. Fresh(x, rows[Run(c)])
  BY <1>0, <1>4, Typed DEF Fresh, Executing
<1>6. QED BY <1>0, <1>1, <1>4, <1>5, ReadOnlyStep

(* An error inside the try block of executeNode.                           *)
LEMMA ThrownKeeps ==
  ASSUME IInv, NEW c \in Calls, calls[c].pc \in Executing, Thrown(c), UNCHANGED rows
  PROVE  Kept
<1> DEFINE x == [calls[c] EXCEPT !.pc = "failed", !.result = "thrown"]
<1>1. Moves(c, x)
  BY Typed DEF Thrown, Moves
<1>2. x \in Call /\ x.run = Run(c) /\ x.pc = "failed"
      /\ x.state = calls[c].state /\ x.outputs = calls[c].outputs
  BY Members, Typed DEF Call, Run
<1>3. Inside(c)
  BY SectionPCsAre DEF Inside
<1> HIDE DEF x
<1>4. Fresh(x, rows[Run(c)])
  BY <1>2, Typed DEF Fresh, Executing
<1>5. QED BY <1>1, <1>2, <1>3, <1>4, ReadOnlyStep

LEMMA KeyFailsKeeps == ASSUME IInv, NEW c \in Calls, KeyFails(c) PROVE Kept
<1>1. CASE At(c, "check") /\ Back(c)
  BY <1>1, BackKeeps DEF KeyFails
<1>2. CASE At(c, "store") /\ Thrown(c)
  BY <1>2, ThrownKeeps DEF KeyFails, At, Executing
<1>3. QED BY <1>1, <1>2 DEF KeyFails, Reject

LEMMA TimeOutKeeps == ASSUME IInv, NEW c \in Calls, TimeOut(c) PROVE Kept
<1> DEFINE x == [calls[c] EXCEPT !.result = "timeout", !.patch = {}, !.pc = "failed"]
<1>0. Inside(c) /\ UNCHANGED rows /\ calls[c].pc = "handler"
  BY DEF TimeOut, At, Inside, SectionPCs
<1>1. Moves(c, x)
  BY Typed DEF TimeOut, Moves
<1>2. "timeout" \in Results
  BY DEF Results
<1>3. x \in Call /\ x.run = Run(c) /\ x.pc \in Executing
      /\ x.state = calls[c].state /\ x.outputs = calls[c].outputs
  BY <1>2, Members, Typed DEF Call, Run
<1> HIDE DEF x
<1>4. Fresh(x, rows[Run(c)])
  BY <1>0, <1>3, Typed DEF Fresh, Executing
<1>5. QED BY <1>0, <1>1, <1>3, <1>4, ReadOnlyStep

LEMMA SettleKeeps == ASSUME IInv, NEW c \in Calls, NEW res \in Results, Settle(c, res) PROVE Kept
<1> DEFINE k == NodeKey(c)
           patch == IF res \in {"ok", "wait"} THEN Patch[calls[c].node][res] ELSE {}
           pc == IF res = "ok" /\ k # Null THEN "store"
                 ELSE IF res \in {"ok", "wait"} THEN "finish" ELSE "failed"
           x == [calls[c] EXCEPT !.result = res, !.patch = patch, !.pc = pc]
<1>0. Inside(c) /\ UNCHANGED rows /\ calls[c].pc = "handler"
  BY DEF Settle, At, Inside, SectionPCs
<1>1. Moves(c, x)
  BY Typed DEF Settle, Moves
<1>2. patch \in SUBSET Fields /\ pc \in {"store", "finish", "failed"}
  <2>1. calls[c].node \in Nodes
    BY Typed DEF Call
  <2>2. QED BY <2>1, ConfigAssumption
<1> HIDE DEF patch, pc
<1>3. x \in Call /\ x.run = Run(c) /\ x.pc \in Executing
      /\ x.state = calls[c].state /\ x.outputs = calls[c].outputs
  BY <1>2, Members, Typed DEF Call, Run
<1> HIDE DEF x
<1>4. Fresh(x, rows[Run(c)])
  BY <1>0, <1>3, Typed DEF Fresh, Executing
<1>5. QED BY <1>0, <1>1, <1>3, <1>4, ReadOnlyStep

LEMMA NodeFailedKeeps == ASSUME IInv, NEW c \in Calls, NodeFailed(c) PROVE Kept
<1>0. Inside(c) /\ UNCHANGED rows /\ calls[c].pc = "failed"
  BY DEF NodeFailed, At, Inside, SectionPCs
<1>1. CASE Retries(c)
  <2> DEFINE x == [calls[c] EXCEPT !.pc = "handler", !.attempt = calls[c].attempt + 1]
  <2>1. Moves(c, x)
    BY <1>1, Typed DEF NodeFailed, Moves, Call
  <2>2. calls[c].attempt + 1 \in Nat /\ "handler" \in PCs
    BY Typed DEF Call, PCs, SectionPCs
  <2>3. x \in Call /\ x.run = Run(c) /\ x.pc = "handler"
        /\ x.state = calls[c].state /\ x.outputs = calls[c].outputs
    BY <2>2, Typed DEF Call, Run
  <2> HIDE DEF x
  <2>4. Fresh(x, rows[Run(c)])
    BY <1>0, <2>3, Typed DEF Fresh, Executing
  <2>5. QED BY <1>0, <2>1, <2>3, <2>4, ReadOnlyStep
<1>2. CASE ~Retries(c)
  <2>1. Goto(c, "apply") /\ "apply" \in PCs
    BY <1>2 DEF NodeFailed, Goto, PCs, SectionPCs
  <2>2. QED BY <1>0, <2>1, GotoKeeps DEF Executing
<1>3. QED BY <1>1, <1>2

(* What tickCore computes for the row has the row's types.                 *)
LEMMA ComputedTypes ==
  ASSUME IInv, NEW c \in Calls
  PROVE  /\ NewState(c) \in States
         /\ DeepMerge(calls[c].state, calls[c].patch) \in States
         /\ NewOutputs(c) \in SUBSET Nodes
         /\ calls[c].node \in Nodes
  BY Typed DEF Call, States, NewState, DeepMerge, Spread, NewOutputs

(* When tickCore writes the row, its run has not ended and the outputs it  *)
(* adds to are those of the row.                                           *)
LEMMA Applying ==
  ASSUME IInv, NEW c \in Calls, At(c, "apply")
  PROVE  /\ Inside(c)
         /\ rows[Run(c)].status \in {"RUNNING", "WAITING"}
         /\ rows[Run(c)].outputs \subseteq NewOutputs(c)
  BY Typed DEF At, Inside, SectionPCs, Executing, Fresh, NewOutputs

LEMMA AbortKeeps ==
  ASSUME IInv, NEW c \in Calls, At(c, "apply"), Abort(c) PROVE Kept
<1> DEFINE y == [rows[Run(c)] EXCEPT !.status = "FAILED", !.node = Null]
<1>1. Inside(c) /\ rows[Run(c)].status \in {"RUNNING", "WAITING"}
  BY Applying
<1>2. /\ rows' = [rows EXCEPT ![Run(c)] = y]
      /\ calls' = [calls EXCEPT ![c].pc = "event", ![c].event = "RUN_ABORTED"]
      /\ "RUN_ABORTED" \in EventTypes
  BY DEF Abort, EndWith, EventTypes
<1>3. y \in Row /\ y.outputs = rows[Run(c)].outputs
  BY Typed DEF Row, Terminal
<1> HIDE DEF y
<1>4. Later(rows[Run(c)], y)
  BY <1>1, <1>3 DEF Later, Terminal
<1>5. QED BY <1>1, <1>2, <1>3, <1>4, LastWrite

LEMMA ApplyWaitKeeps == ASSUME IInv, NEW c \in Calls, ApplyWait(c) PROVE Kept
<1> DEFINE y == [status |-> "WAITING", node |-> calls[c].node,
                 state |-> DeepMerge(calls[c].state, calls[c].patch),
                 outputs |-> NewOutputs(c)]
<1>1. /\ Inside(c) /\ rows[Run(c)].status \in {"RUNNING", "WAITING"}
      /\ rows[Run(c)].outputs \subseteq y.outputs
  BY Applying DEF ApplyWait
<1>2. /\ rows' = [rows EXCEPT ![Run(c)] = y]
      /\ calls' = [calls EXCEPT ![c].pc = "event", ![c].event = "RUN_WAITING"]
      /\ "RUN_WAITING" \in EventTypes
  BY DEF ApplyWait, EndWith, EventTypes
<1>3. y \in Row
  BY ComputedTypes DEF Row
<1> HIDE DEF y
<1>4. Later(rows[Run(c)], y)
  BY <1>1 DEF Later, Terminal
<1>5. QED BY <1>1, <1>2, <1>3, <1>4, LastWrite

LEMMA ApplyEndKeeps == ASSUME IInv, NEW c \in Calls, ApplyEnd(c) PROVE Kept
<1> DEFINE y == [status |-> "COMPLETED", node |-> Null, state |-> NewState(c),
                 outputs |-> NewOutputs(c)]
<1>1. /\ Inside(c) /\ rows[Run(c)].status \in {"RUNNING", "WAITING"}
      /\ rows[Run(c)].outputs \subseteq y.outputs
  BY Applying DEF ApplyEnd
<1>2. /\ rows' = [rows EXCEPT ![Run(c)] = y]
      /\ calls' = [calls EXCEPT ![c].pc = "event", ![c].event = "RUN_COMPLETED"]
      /\ "RUN_COMPLETED" \in EventTypes
  BY DEF ApplyEnd, EndWith, EventTypes
<1>3. y \in Row
  BY ComputedTypes DEF Row, Terminal
<1> HIDE DEF y
<1>4. Later(rows[Run(c)], y)
  BY <1>1 DEF Later, Terminal
<1>5. QED BY <1>1, <1>2, <1>3, <1>4, LastWrite

LEMMA ApplyNextKeeps == ASSUME IInv, NEW c \in Calls, ApplyNext(c) PROVE Kept
<1>1. /\ Inside(c) /\ rows[Run(c)].status \in {"RUNNING", "WAITING"}
      /\ rows[Run(c)].outputs \subseteq NewOutputs(c)
  BY Applying DEF ApplyNext
<1>2. PICK e \in Outgoing(calls[c].node) :
        rows' = [rows EXCEPT ![Run(c)].node = e.to,
                             ![Run(c)].state = NewState(c),
                             ![Run(c)].outputs = NewOutputs(c)]
  BY DEF ApplyNext
<1>3. e.to \in Nodes
  BY <1>2, ConfigAssumption DEF Outgoing
<1> DEFINE x == [calls[c] EXCEPT !.pc = "done"]
           y == [rows[Run(c)] EXCEPT !.node = e.to, !.state = NewState(c),
                                     !.outputs = NewOutputs(c)]
<1>4. rows' = [rows EXCEPT ![Run(c)] = y]
  BY <1>2, Typed
<1>5. /\ y \in Row /\ y.status = rows[Run(c)].status
      /\ y.outputs = NewOutputs(c)
  BY <1>3, Typed, ComputedTypes DEF Row
<1>6. "done" \in PCs
  BY DEF PCs, SectionPCs
<1>7. Moves(c, x) /\ x \in Call
  BY <1>6, Typed, GotoMoves DEF ApplyNext
<1>8. x.pc = "done" /\ x.run = Run(c)
  BY Typed DEF Call, Run
<1> HIDE DEF x, y
<1>9. Fresh(x, y) /\ Later(rows[Run(c)], y)
  BY <1>1, <1>5, <1>8 DEF Fresh, Executing, Later, Terminal
<1>10. QED BY <1>1, <1>4, <1>5, <1>7, <1>8, <1>9, SectionStep
--------------------------------------------------------------------------------
(* The steps outside the section.                                          *)
LEMMA StartRunKeeps ==
  ASSUME IInv, NEW c \in Calls, NEW r \in Runs, StartRun(c, r) PROVE Kept
<1> DEFINE x == [IdleCall(r) EXCEPT !.pc = "announce", !.op = "start"]
<1>1. Moves(c, x)
  BY DEF StartRun, Moves
<1>2. x \in Call
  BY IdleIsCall DEF PCs
<1>3. x.pc = "announce"
  BY DEF IdleCall
<1>4. PICK state \in Initial :
        rows' = [rows EXCEPT ![r].status = "RUNNING", ![r].state = state]
  BY DEF StartRun
<1> DEFINE y == [rows[r] EXCEPT !.status = "RUNNING", !.state = state]
<1>5. rows \in [Runs -> Row] /\ rows[r].status = "ABSENT"
  BY Typed DEF StartRun
<1>6. y \in Row /\ y.outputs = rows[r].outputs
  <2>1. state \in States
    BY ConfigAssumption DEF States
  <2>2. QED BY <1>5, <2>1 DEF Row
<1>7. rows' = [rows EXCEPT ![r] = y]
  BY <1>4, <1>5
<1> HIDE DEF x, y
<1>8. rows' \in [Runs -> Row] /\ rows'[r] = y
      /\ \A q \in Runs : q # r => rows'[q] = rows[q]
  BY <1>5, <1>6, <1>7
<1>9. QED BY <1>1, <1>2, <1>3, <1>5, <1>6, <1>8, OutsideStep
          DEF Executing, SectionPCs

LEMMA AnnounceKeeps == ASSUME IInv, NEW c \in Calls, Announce(c) PROVE Kept
<1> DEFINE x == [calls[c] EXCEPT !.pc = "point"]
<1>1. Moves(c, x) /\ x \in Call
  BY Typed, GotoMoves DEF Announce, PCs
<1>2. x.pc = "point" /\ UNCHANGED rows
  BY Typed DEF Call, Announce
<1> HIDE DEF x
<1>3. QED BY <1>1, <1>2, Typed, OutsideStep DEF Executing, SectionPCs

LEMMA PointAtEntryKeeps == ASSUME IInv, NEW c \in Calls, PointAtEntry(c) PROVE Kept
<1>1. Moves(c, IdleCall(Run(c))) /\ IdleCall(Run(c)) \in Call
  BY Typed, BackMoves DEF PointAtEntry
<1>2. IdleCall(Run(c)).pc = "idle"
  BY DEF IdleCall
<1>3. rows \in [Runs -> Row] /\ rows' = [rows EXCEPT ![Run(c)].node = Entry]
  BY Typed DEF PointAtEntry
<1>4. rows' \in [Runs -> Row]
  <2>1. Entry \in Nodes
    BY ConfigAssumption
  <2>2. [rows[Run(c)] EXCEPT !.node = Entry] \in Row
    BY <2>1, Typed DEF Row
  <2>3. QED BY <1>3, <2>2
<1>5. \A r \in Runs : /\ rows'[r].status = rows[r].status
                      /\ rows'[r].state = rows[r].state
                      /\ rows'[r].outputs = rows[r].outputs
  BY <1>3 DEF Row
<1>6. QED BY <1>1, <1>2, <1>4, <1>5, OutsideStep DEF Executing, SectionPCs

LEMMA RequestKeeps ==
  ASSUME IInv, NEW c \in Calls, NEW r \in Runs, NEW op \in {"tick", "resume"},
         Request(c, r, op)
  PROVE  Kept
<1> DEFINE x == [IdleCall(r) EXCEPT !.pc = "lock", !.op = op]
<1>1. Moves(c, x) /\ UNCHANGED rows
  BY DEF Request, Moves
<1>2. x \in Call
  BY IdleIsCall DEF PCs
<1>3. x.pc = "lock"
  BY DEF IdleCall
<1> HIDE DEF x
<1>4. QED BY <1>1, <1>2, <1>3, Typed, OutsideStep DEF Executing, SectionPCs

LEMMA EnterKeeps == ASSUME IInv, NEW c \in Calls, Enter(c) PROVE Kept
<1> DEFINE p == IF calls[c].op = "resume" THEN "read" ELSE "load"
           x == [calls[c] EXCEPT !.pc = p]
<1>1. p \in {"read", "load"} /\ p \in PCs
  BY DEF PCs, SectionPCs
<1>2. Moves(c, x) /\ x \in Call
  BY <1>1, Typed, GotoMoves DEF Enter
<1>3. x.pc = p /\ x.run = Run(c)
  BY Typed DEF Call, Run
<1>4. LockFree(Run(c)) /\ UNCHANGED rows
  BY DEF Enter
<1> HIDE DEF p, x
<1>5. QED BY <1>1, <1>2, <1>3, <1>4, Typed, OutsideStep DEF Executing

(* Processes that die take their calls along, and hurt nobody else's.      *)
LEMMA CrashKeeps == ASSUME IInv, NEW h \in Hosts, Crash(h) PROVE Kept
<1>1. calls' = [c \in Calls |-> IF HostOf[c] = h THEN IdleCall(Run(c)) ELSE calls[c]]
      /\ UNCHANGED rows
  BY DEF Crash
<1>2. \A c \in Calls : IdleCall(Run(c)) \in Call /\ IdleCall(Run(c)).pc = "idle"
  <2>1. "idle" \in PCs
    BY DEF PCs
  <2>2. QED BY <2>1, Typed, IdleIsCall DEF IdleCall
<1>3. calls' \in [Calls -> Call] /\ rows' \in [Runs -> Row]
  BY <1>1, <1>2 DEF IInv, TypeOK
<1>4. \A c \in Calls : calls'[c] = calls[c] \/ calls'[c].pc = "idle"
  BY <1>1, <1>2
<1>5. OneAtATime'
  BY <1>4 DEF OneAtATime, Inside, Run, SectionPCs, IInv
<1>6. \A c \in Calls : Fresh(calls'[c], rows'[calls'[c].run])
  BY <1>1, <1>4, Typed DEF Fresh, Executing, Run
<1>7. RowsLater
  BY <1>1 DEF RowsLater, Later
<1>8. QED BY <1>3, <1>5, <1>6, <1>7, CallsOfFresh DEF Kept

LEMMA StorageFailsKeeps == ASSUME IInv, NEW c \in Calls, StorageFails(c) PROVE Kept
<1>1. CASE InTry(c)
  <2>1. calls[c].pc \in Executing
    BY <1>1 DEF InTry, At, Executing
  <2>2. QED BY <1>1, <2>1, ThrownKeeps DEF StorageFails
<1>2. CASE ~InTry(c)
  BY <1>2, BackKeeps DEF StorageFails, Reject
<1>3. QED BY <1>1, <1>2
--------------------------------------------------------------------------------
(* What a step is to IInv and to the rows, whichever action it is.         *)
LEMMA TickStepKeeps == ASSUME IInv, NEW c \in Calls, TickStep(c) PROVE Kept
<1>1. CASE ReadForResume(c)
  BY <1>1, ReadForResumeKeeps
<1>2. CASE Wake(c)
  BY <1>2, WakeKeeps
<1>3. CASE Load(c)
  BY <1>3, LoadKeeps
<1>4. CASE NodeMissing(c)
  BY <1>4, NodeMissingKeeps
<1>5. CASE Begin(c)
  BY <1>5, GotoKeeps DEF Begin, At, Inside, SectionPCs, PCs, Executing
<1>6. CASE Check(c)
  BY <1>6, CheckKeeps
<1>7. CASE KeyFails(c)
  BY <1>7, KeyFailsKeeps
<1>8. ASSUME NEW res \in Results, Settle(c, res) PROVE Kept
  BY <1>8, SettleKeeps
<1>9. CASE Store(c)
  BY <1>9, GotoKeeps DEF Store, At, Inside, SectionPCs, PCs, Executing
<1>10. CASE Finish(c)
  BY <1>10, GotoKeeps DEF Finish, At, Inside, SectionPCs, PCs, Executing
<1>11. CASE NodeFailed(c)
  BY <1>11, NodeFailedKeeps
<1>12. CASE ApplyError(c)
  BY <1>12, AbortKeeps DEF ApplyError
<1>13. CASE ApplyWait(c)
  BY <1>13, ApplyWaitKeeps
<1>14. CASE ApplyEnd(c)
  BY <1>14, ApplyEndKeeps
<1>15. CASE ApplyAmbiguous(c)
  BY <1>15, AbortKeeps DEF ApplyAmbiguous
<1>16. CASE ApplyNext(c)
  BY <1>16, ApplyNextKeeps
<1>17. CASE LogRunEvent(c)
  BY <1>17, GotoKeeps DEF LogRunEvent, At, Inside, SectionPCs, PCs, Executing
<1>18. CASE UnknownFlow(c)
  BY <1>18, BackKeeps DEF UnknownFlow, Reject
<1>19. CASE TimeOut(c)
  BY <1>19, TimeOutKeeps
<1>20. QED
  BY <1>1, <1>2, <1>3, <1>4, <1>5, <1>6, <1>7, <1>8, <1>9, <1>10, <1>11, <1>12,
     <1>13, <1>14, <1>15, <1>16, <1>17, <1>18, <1>19 DEF TickStep

LEMMA NextKeeps == ASSUME IInv, Next PROVE Kept
<1>1. ASSUME NEW c \in Calls, NEW r \in Runs,
             StartRun(c, r) \/ Tick(c, r) \/ ResumeRun(c, r) \/ Recover(c, r)
      PROVE  Kept
  BY <1>1, StartRunKeeps, RequestKeeps DEF Tick, ResumeRun, Recover
<1>2. ASSUME NEW c \in Calls, Enter(c) \/ Busy(c) \/ Inherit(c) \/ Leave(c) \/ StartStep(c)
      PROVE  Kept
  BY <1>2, EnterKeeps, BackKeeps, AnnounceKeeps, PointAtEntryKeeps
     DEF Busy, Inherit, Leave, StartStep
<1>3. ASSUME NEW c \in Calls, TickStep(c) \/ StorageFails(c) PROVE Kept
  BY <1>3, TickStepKeeps, StorageFailsKeeps
<1>4. ASSUME NEW h \in Hosts, Crash(h) PROVE Kept
  BY <1>4, CrashKeeps
<1>5. QED BY <1>1, <1>2, <1>3, <1>4 DEF Next

LEMMA Stutter == IInv /\ UNCHANGED vars => Kept
  BY DEF IInv, TypeOK, vars, Kept, OneAtATime, Inside, Run, SnapshotFresh,
         RowsLater, Later

(* The types of the timeline, the records and the counters.                *)
LEMMA TimelineType ==
  ASSUME IInv, [Next]_vars PROVE timeline' \in [Runs -> Seq(EventTypes)]
<1> USE DEF IInv
<1>1. CASE UNCHANGED timeline
  BY <1>1 DEF TypeOK
<1>2. ASSUME NEW c \in Calls, NEW t \in EventTypes, Log(c, t)
      PROVE  timeline' \in [Runs -> Seq(EventTypes)]
  BY <1>2, LogType
<1>3. \/ UNCHANGED timeline
      \/ \E c \in Calls : \E t \in EventTypes : Log(c, t)
  <2>1. CASE UNCHANGED vars
    BY <2>1 DEF vars
  <2>2. ASSUME NEW c \in Calls, NEW r \in Runs,
               StartRun(c, r) \/ Tick(c, r) \/ ResumeRun(c, r) \/ Recover(c, r)
        PROVE  UNCHANGED timeline
    BY <2>2 DEF StartRun, Tick, ResumeRun, Recover, Request
  <2>3. ASSUME NEW c \in Calls, Enter(c) \/ Busy(c) \/ Inherit(c) \/ Leave(c) \/ PointAtEntry(c)
                                \/ StorageFails(c)
        PROVE  UNCHANGED timeline
    BY <2>3 DEF Enter, Busy, Inherit, Leave, PointAtEntry, StorageFails
  <2>4. ASSUME NEW c \in Calls, Announce(c) \/ Begin(c) \/ Finish(c)
                                \/ NodeFailed(c) \/ LogRunEvent(c)
        PROVE  \E t \in EventTypes : Log(c, t)
    <3>1. calls[c].event \in EventTypes
      BY Typed DEF Call
    <3>2. {"RUN_STARTED", "NODE_STARTED", "NODE_FINISHED", "NODE_FAILED"} \subseteq EventTypes
      BY DEF EventTypes
    <3>3. QED BY <2>4, <3>1, <3>2 DEF Announce, Begin, Finish, NodeFailed, LogRunEvent
  <2>5. ASSUME NEW c \in Calls,
               \/ ReadForResume(c) \/ Wake(c) \/ Load(c) \/ NodeMissing(c)
               \/ Check(c) \/ KeyFails(c) \/ TimeOut(c) \/ Store(c) \/ UnknownFlow(c)
               \/ \E res \in Results : Settle(c, res)
        PROVE  UNCHANGED timeline
    BY <2>5 DEF ReadForResume, Wake, Load, NodeMissing, Check, KeyFails, TimeOut, Store, Settle,
                UnknownFlow
  <2>6. ASSUME NEW c \in Calls,
               \/ ApplyError(c) \/ ApplyWait(c) \/ ApplyEnd(c)
               \/ ApplyAmbiguous(c) \/ ApplyNext(c)
        PROVE  UNCHANGED timeline
    BY <2>6 DEF ApplyError, ApplyWait, ApplyEnd, ApplyAmbiguous, ApplyNext, Abort, EndWith
  <2>7. ASSUME NEW h \in Hosts, Crash(h) PROVE UNCHANGED timeline
    BY <2>7 DEF Crash
  <2>8. QED BY <2>1, <2>2, <2>3, <2>4, <2>5, <2>6, <2>7 DEF Next, StartStep, TickStep
<1>4. QED BY <1>1, <1>2, <1>3

LEMMA KeyType ==
  ASSUME IInv, NEW c \in Calls
  PROVE  NodeKey(c) \in Keys \cup {Null} /\ calls[c].patch \in SUBSET Fields
<1>1. calls[c].node \in Nodes
  BY Typed DEF Call
<1>2. QED BY <1>1, Typed, ConfigAssumption DEF NodeKey, Call

LEMMA RecordTypes ==
  ASSUME IInv, [Next]_vars
  PROVE  /\ idem' \in [Keys -> [stored : BOOLEAN, patch : SUBSET Fields]]
         /\ performed' \in [Keys -> Nat] /\ abandoned' \in [Keys -> Nat]
         /\ crashes' \in Nat /\ faults' \in Nat
<1> DEFINE Same == UNCHANGED <<idem, performed, abandoned, crashes, faults>>
           Goal == /\ idem' \in [Keys -> [stored : BOOLEAN, patch : SUBSET Fields]]
                   /\ performed' \in [Keys -> Nat] /\ abandoned' \in [Keys -> Nat]
                   /\ crashes' \in Nat /\ faults' \in Nat
<1>0. TypeOK
  BY DEF IInv
<1>1. Same => Goal
  BY <1>0 DEF TypeOK
<1>2. ASSUME NEW c \in Calls, Store(c) PROVE Goal
  <2>1. idem' = [idem EXCEPT ![NodeKey(c)] = [stored |-> TRUE, patch |-> calls[c].patch]]
        /\ UNCHANGED <<performed, abandoned, crashes, faults>>
    BY <1>2 DEF Store, Aside
  <2>2. QED BY <1>0, <2>1, KeyType DEF TypeOK
<1>3. ASSUME NEW c \in Calls, NEW res \in Results, Settle(c, res) PROVE Goal
  <2>1. UNCHANGED <<idem, abandoned, crashes, faults>>
    BY <1>3 DEF Settle, Aside
  <2>2. CASE UNCHANGED performed
    BY <1>0, <2>1, <2>2 DEF TypeOK
  <2>3. CASE /\ NodeKey(c) # Null
             /\ performed' = [performed EXCEPT ![NodeKey(c)] = @ + 1]
    BY <1>0, <2>1, <2>3, KeyType DEF TypeOK
  <2>4. QED BY <1>3, <2>2, <2>3 DEF Settle
<1>4. ASSUME NEW c \in Calls, StorageFails(c) PROVE Goal
  BY <1>0, <1>4 DEF StorageFails, TypeOK
<1>5. ASSUME NEW h \in Hosts, Crash(h) PROVE Goal
  BY <1>0, <1>5 DEF Crash, TypeOK
<1> HIDE DEF Goal
<1>6. ASSUME UNCHANGED vars PROVE Same
  BY <1>6 DEF vars
<1>7. ASSUME NEW c \in Calls, NEW r \in Runs,
             StartRun(c, r) \/ Tick(c, r) \/ ResumeRun(c, r) \/ Recover(c, r)
      PROVE  Same
  BY <1>7 DEF StartRun, Tick, ResumeRun, Recover, Request, Aside
<1>8. ASSUME NEW c \in Calls, Enter(c) \/ Busy(c) \/ Inherit(c) \/ Leave(c) \/ StartStep(c) PROVE Same
  BY <1>8 DEF Enter, Busy, Inherit, Leave, StartStep, PointAtEntry, Announce, Aside
<1>9. ASSUME NEW c \in Calls,
             \/ ReadForResume(c) \/ Wake(c) \/ Load(c) \/ NodeMissing(c)
             \/ Begin(c) \/ Check(c) \/ KeyFails(c) \/ Finish(c) \/ NodeFailed(c)
             \/ LogRunEvent(c) \/ UnknownFlow(c)
      PROVE  Same
  BY <1>9 DEF ReadForResume, Wake, Load, NodeMissing, Begin, Check, KeyFails, Finish,
              NodeFailed, LogRunEvent, UnknownFlow, Aside
<1>10. ASSUME NEW c \in Calls,
              \/ ApplyError(c) \/ ApplyWait(c) \/ ApplyEnd(c)
              \/ ApplyAmbiguous(c) \/ ApplyNext(c)
       PROVE  Same
  BY <1>10 DEF ApplyError, ApplyWait, ApplyEnd, ApplyAmbiguous, ApplyNext, Abort,
               EndWith, Aside
<1> HIDE DEF Same
<1>13. ASSUME NEW c \in Calls, TimeOut(c) PROVE Goal
  <2>1. UNCHANGED <<idem, crashes, faults>>
    BY <1>13 DEF TimeOut
  <2>2. CASE UNCHANGED <<abandoned, performed>>
    BY <1>0, <2>1, <2>2 DEF TypeOK, Goal
  <2>3. ASSUME NEW n \in {0, 1},
               NodeKey(c) # Null,
               performed' = [performed EXCEPT ![NodeKey(c)] = @ + n],
               abandoned' = [abandoned EXCEPT ![NodeKey(c)] = @ + 1]
        PROVE  Goal
    <3>1. NodeKey(c) \in Keys
      BY <2>3, KeyType
    <3>2. performed' \in [Keys -> Nat] /\ abandoned' \in [Keys -> Nat]
      BY <1>0, <2>3, <3>1 DEF TypeOK
    <3> QED BY <1>0, <2>1, <3>2 DEF TypeOK, Goal
  <2> QED BY <1>13, <2>2, <2>3 DEF TimeOut
<1>11. Goal
  BY <1>13, <1>1, <1>2, <1>3, <1>4, <1>5, <1>6, <1>7, <1>8, <1>9, <1>10
     DEF Next, TickStep
<1>12. QED BY <1>11 DEF Goal

(* What is remembered of the runs.                                         *)
LEMMA RunSets ==
  ASSUME IInv, [Next]_vars
  PROVE  poisoned' \subseteq Runs /\ early' \subseteq Runs /\ early \subseteq early'
<1> DEFINE Goal == poisoned' \subseteq Runs /\ early' \subseteq Runs /\ early \subseteq early'
<1>0. poisoned \subseteq Runs /\ early \subseteq Runs
  BY DEF IInv, TypeOK
<1>1. ASSUME UNCHANGED <<poisoned, early>> PROVE Goal
  BY <1>0, <1>1
<1>2. ASSUME NEW c \in Calls, Reject(c) \/ UNCHANGED poisoned, UNCHANGED early PROVE Goal
  BY <1>0, <1>2, Typed DEF Reject
<1>3. ASSUME NEW c \in Calls, NEW r \in Runs, NEW op, Request(c, r, op) PROVE Goal
  BY <1>0, <1>3 DEF Request
<1>4. ASSUME NEW c \in Calls, UnknownFlow(c) \/ KeyFails(c) \/ StorageFails(c) PROVE Goal
  BY <1>2, <1>4 DEF UnknownFlow, KeyFails, StorageFails
<1> HIDE DEF Goal
<1>5. ASSUME NEW c \in Calls, NEW r \in Runs,
             StartRun(c, r) \/ Tick(c, r) \/ ResumeRun(c, r) \/ Recover(c, r)
      PROVE  Goal
  BY <1>1, <1>3, <1>5 DEF StartRun, Tick, ResumeRun, Recover, Aside
<1>6. ASSUME NEW c \in Calls,
             \/ Enter(c) \/ Busy(c) \/ Inherit(c) \/ Leave(c) \/ StartStep(c)
             \/ ReadForResume(c) \/ Wake(c) \/ Load(c) \/ NodeMissing(c)
             \/ Begin(c) \/ Check(c) \/ (\E res \in Results : Settle(c, res))
             \/ TimeOut(c) \/ Store(c) \/ Finish(c) \/ NodeFailed(c) \/ LogRunEvent(c)
      PROVE  Goal
  BY <1>1, <1>6 DEF Enter, Busy, Inherit, Leave, StartStep, PointAtEntry, Announce,
     ReadForResume, Wake, Load, NodeMissing, Begin, Check, Settle, TimeOut, Store, Finish,
     NodeFailed, LogRunEvent, Aside
<1>7. ASSUME NEW c \in Calls, \/ ApplyError(c) \/ ApplyWait(c) \/ ApplyEnd(c)
                              \/ ApplyAmbiguous(c) \/ ApplyNext(c)
      PROVE  Goal
  BY <1>1, <1>7 DEF ApplyError, ApplyWait, ApplyEnd, ApplyAmbiguous, ApplyNext, Abort,
                    EndWith, Aside
<1>8. ASSUME NEW h \in Hosts, Crash(h) PROVE Goal
  BY <1>1, <1>8 DEF Crash
<1>9. ASSUME UNCHANGED vars PROVE Goal
  BY <1>1, <1>9 DEF vars
<1>10. Goal
  BY <1>4, <1>5, <1>6, <1>7, <1>8, <1>9 DEF Next, TickStep
<1> QED BY <1>10 DEF Goal

LEMMA Inductive == IInv /\ [Next]_vars => IInv' /\ RowsLater
<1> SUFFICES ASSUME IInv, [Next]_vars PROVE IInv' /\ RowsLater
  OBVIOUS
<1>1. Kept
  BY NextKeeps, Stutter
<1>2. TypeOK'
  BY <1>1, TimelineType, RecordTypes, RunSets DEF TypeOK, Kept
<1>3. QED BY <1>1, <1>2 DEF IInv, Kept

LEMMA InitIInv == Init => IInv
<1> SUFFICES ASSUME Init PROVE IInv
  OBVIOUS
<1>1. PICK r \in Runs : calls = [c \in Calls |-> IdleCall(r)]
  BY DEF Init
<1>2. \A c \in Calls : calls[c].pc = "idle"
  BY <1>1 DEF IdleCall
<1>3. QED BY <1>2, TypeInit
          DEF IInv, OneAtATime, SnapshotFresh, Inside, SectionPCs, Executing
--------------------------------------------------------------------------------
(* The event that a call is about to log tells what the row of its run     *)
(* says: tickCore writes the row first.                                    *)
Says(row, event) == /\ event = "RUN_COMPLETED" => row.status = "COMPLETED"
                    /\ event = "RUN_ABORTED" => row.status = "FAILED"

Owes(x, row) == x.pc = "event" => Says(row, x.event)

EventsTrue == \A c \in Calls : Owes(calls[c], rows[calls[c].run])

(* A call comes to owe an event only by a write that makes the event true. *)
LEMMA OwesStep ==
  ASSUME IInv, [Next]_vars, NEW d \in Calls
  PROVE  \/ calls'[d] = calls[d] \/ calls'[d].pc # "event"
         \/ Owes(calls'[d], rows'[calls'[d].run])
<1> DEFINE Goal == \/ calls'[d] = calls[d] \/ calls'[d].pc # "event"
                   \/ Owes(calls'[d], rows'[calls'[d].run])
<1>0. calls \in [Calls -> Call] /\ rows \in [Runs -> Row] /\ \A c \in Calls : calls[c].run \in Runs
  BY DEF IInv, TypeOK, Call
<1>1. ASSUME UNCHANGED vars PROVE Goal
  BY <1>1 DEF vars
<1>2. ASSUME NEW c \in Calls, NEW p \in PCs \ {"event"}, Goto(c, p) PROVE Goal
  BY <1>0, <1>2 DEF Goto, Call
<1>3. ASSUME NEW c \in Calls, Back(c) PROVE Goal
  BY <1>0, <1>3 DEF Back, IdleCall
<1>4. ASSUME NEW c \in Calls, NEW row, NEW e \in EventTypes, Says(row, e), EndWith(c, row, e)
      PROVE  Goal
  <2>1. /\ calls' = [calls EXCEPT ![c].pc = "event", ![c].event = e]
        /\ rows' = [rows EXCEPT ![calls[c].run] = row]
    BY <1>4 DEF EndWith, Run
  <2>2. CASE d # c
    BY <1>0, <2>1, <2>2
  <2>3. CASE d = c
    <3>1. calls'[d] = [calls[c] EXCEPT !.pc = "event", !.event = e]
      BY <1>0, <2>1, <2>3
    <3>2. calls'[d].event = e /\ calls'[d].run = calls[c].run
      BY <1>0, <3>1 DEF Call
    <3>3. rows'[calls[c].run] = row
      BY <1>0, <2>1
    <3> QED BY <1>4, <3>2, <3>3 DEF Owes
  <2> QED BY <2>2, <2>3
<1>5. ASSUME NEW c \in Calls, NEW r \in Runs,
             StartRun(c, r) \/ Tick(c, r) \/ ResumeRun(c, r) \/ Recover(c, r)
      PROVE  Goal
  <2>1. PICK p \in {"announce", "lock"}, o \in {"start", "tick", "resume"} :
          calls' = [calls EXCEPT ![c] = [IdleCall(r) EXCEPT !.pc = p, !.op = o]]
    BY <1>5 DEF StartRun, Tick, ResumeRun, Recover, Request
  <2>2. [IdleCall(r) EXCEPT !.pc = p, !.op = o].pc = p
    BY DEF IdleCall
  <2> QED BY <1>0, <2>1, <2>2
<1>6. ASSUME NEW c \in Calls, Enter(c) \/ Busy(c) \/ Inherit(c) \/ Leave(c) \/ StartStep(c) PROVE Goal
  <2>1. Back(c) \/ \E p \in PCs \ {"event"} : Goto(c, p)
    BY <1>6 DEF Enter, Busy, Inherit, Leave, StartStep, Announce, PointAtEntry, PCs, SectionPCs
  <2> QED BY <1>2, <1>3, <2>1
<1>7. ASSUME NEW c \in Calls,
             \/ ReadForResume(c) \/ Wake(c) \/ UnknownFlow(c) \/ Begin(c) \/ KeyFails(c)
             \/ Store(c) \/ Finish(c) \/ ApplyNext(c) \/ LogRunEvent(c) \/ StorageFails(c)
      PROVE  Goal
  <2>1. \/ Back(c) \/ \E p \in PCs \ {"event"} : Goto(c, p)
        \/ \E s : calls' = [calls EXCEPT ![c].pc = "wake", ![c].state = s]
        \/ \E s : calls' = [calls EXCEPT ![c].pc = "failed", ![c].result = s]
    BY <1>7 DEF ReadForResume, Wake, UnknownFlow, Begin, KeyFails, Store, Finish, ApplyNext,
                LogRunEvent, StorageFails, Thrown, Reject, PCs, SectionPCs
  <2>2. ASSUME NEW s, calls' = [calls EXCEPT ![c].pc = "wake", ![c].state = s] PROVE Goal
    BY <1>0, <2>2 DEF Call
  <2>3. ASSUME NEW s, calls' = [calls EXCEPT ![c].pc = "failed", ![c].result = s] PROVE Goal
    BY <1>0, <2>3 DEF Call
  <2> QED BY <1>2, <1>3, <2>1, <2>2, <2>3
<1>8. ASSUME NEW c \in Calls, Load(c) \/ Check(c) \/ NodeFailed(c) PROVE Goal
  <2>1. CASE d # c
    BY <1>0, <1>8, <2>1 DEF Load, Check, NodeFailed
  <2>2. CASE d = c
    <3>1. CASE Load(c)
      BY <1>0, <2>2, <3>1 DEF Load, Call
    <3>2. CASE Check(c)
      BY <1>0, <2>2, <3>2 DEF Check, Call
    <3>3. CASE NodeFailed(c)
      BY <1>0, <2>2, <3>3 DEF NodeFailed, Call
    <3> QED BY <1>8, <3>1, <3>2, <3>3
  <2> QED BY <2>1, <2>2
<1>9. ASSUME NEW c \in Calls, NEW res \in Results, Settle(c, res) PROVE Goal
  <2> DEFINE q == IF res \in {"ok", "wait"} THEN Patch[calls[c].node][res] ELSE {}
  <2>1. PICK p \in {"store", "finish", "failed"} :
          calls' = [calls EXCEPT ![c].result = res, ![c].patch = q, ![c].pc = p]
    BY <1>9 DEF Settle
  <2> QED BY <1>0, <2>1 DEF Call
<1>14. ASSUME NEW c \in Calls, TimeOut(c) PROVE Goal
  BY <1>0, <1>14 DEF TimeOut, Call
<1>10. ASSUME NEW c \in Calls, NodeMissing(c) PROVE Goal
  <2>1. EndWith(c, [rows[Run(c)] EXCEPT !.status = "FAILED"], "RUN_ABORTED")
    BY <1>10 DEF NodeMissing, EndWith
  <2>2. [rows[Run(c)] EXCEPT !.status = "FAILED"].status = "FAILED"
    BY <1>0 DEF Row, Run
  <2> QED BY <1>4, <2>1, <2>2 DEF Says, EventTypes
<1>11. ASSUME NEW c \in Calls, ApplyError(c) \/ ApplyAmbiguous(c) PROVE Goal
  <2>1. EndWith(c, [rows[Run(c)] EXCEPT !.status = "FAILED", !.node = Null], "RUN_ABORTED")
    BY <1>11 DEF ApplyError, ApplyAmbiguous, Abort
  <2>2. [rows[Run(c)] EXCEPT !.status = "FAILED", !.node = Null].status = "FAILED"
    BY <1>0 DEF Row, Run
  <2> QED BY <1>4, <2>1, <2>2 DEF Says, EventTypes
<1>12. ASSUME NEW c \in Calls, ApplyWait(c) \/ ApplyEnd(c) PROVE Goal
  BY <1>4, <1>12 DEF ApplyWait, ApplyEnd, Says, EventTypes
<1>13. ASSUME NEW h \in Hosts, Crash(h) PROVE Goal
  BY <1>13 DEF Crash, IdleCall
<1> QED
  BY <1>1, <1>5, <1>6, <1>7, <1>8, <1>9, <1>10, <1>11, <1>12, <1>13, <1>14
     DEF Next, TickStep

(* The timeline grows by an event at a time, and by a true one.            *)
LEMMA TimelineStep ==
  ASSUME IInv, EventsTrue, [Next]_vars, NEW r \in Runs
  PROVE  \/ timeline'[r] = timeline[r]
         \/ \E e \in EventTypes : timeline'[r] = Append(timeline[r], e) /\ Says(rows[r], e)
<1> DEFINE Goal == \/ timeline'[r] = timeline[r]
                   \/ \E e \in EventTypes :
                        timeline'[r] = Append(timeline[r], e) /\ Says(rows[r], e)
<1>0. TypeOK
  BY DEF IInv
<1>1. ASSUME UNCHANGED timeline PROVE Goal
  BY <1>1
<1>2. ASSUME NEW c \in Calls, NEW e \in EventTypes, Log(c, e), Says(rows[calls[c].run], e)
      PROVE  Goal
  BY <1>0, <1>2 DEF Log, Run, TypeOK
<1>3. ASSUME NEW c \in Calls, Announce(c) \/ Begin(c) \/ Finish(c) \/ NodeFailed(c)
      PROVE  Goal
  BY <1>2, <1>3 DEF Announce, Begin, Finish, NodeFailed, Says, EventTypes
<1>4. ASSUME NEW c \in Calls, LogRunEvent(c) PROVE Goal
  <2>1. calls[c].event \in EventTypes /\ Says(rows[calls[c].run], calls[c].event)
    BY <1>0, <1>4 DEF TypeOK, Call, EventsTrue, Owes, LogRunEvent, At
  <2> QED BY <1>2, <1>4, <2>1 DEF LogRunEvent
<1>5. ASSUME UNCHANGED vars PROVE UNCHANGED timeline
  BY <1>5 DEF vars
<1>6. ASSUME NEW c \in Calls, NEW s \in Runs,
             StartRun(c, s) \/ Tick(c, s) \/ ResumeRun(c, s) \/ Recover(c, s)
      PROVE  UNCHANGED timeline
  BY <1>6 DEF StartRun, Tick, ResumeRun, Recover, Request
<1>7. ASSUME NEW c \in Calls, \/ Enter(c) \/ Busy(c) \/ Inherit(c) \/ Leave(c) \/ PointAtEntry(c)
                              \/ StorageFails(c)
      PROVE  UNCHANGED timeline
  BY <1>7 DEF Enter, Busy, Inherit, Leave, PointAtEntry, StorageFails
<1>8. ASSUME NEW c \in Calls,
             \/ ReadForResume(c) \/ Wake(c) \/ Load(c) \/ NodeMissing(c)
             \/ Check(c) \/ KeyFails(c) \/ TimeOut(c) \/ Store(c) \/ UnknownFlow(c)
             \/ \E res \in Results : Settle(c, res)
      PROVE  UNCHANGED timeline
  BY <1>8 DEF ReadForResume, Wake, Load, NodeMissing, Check, KeyFails, TimeOut, Store, Settle,
              UnknownFlow
<1>9. ASSUME NEW c \in Calls, \/ ApplyError(c) \/ ApplyWait(c) \/ ApplyEnd(c)
                              \/ ApplyAmbiguous(c) \/ ApplyNext(c)
      PROVE  UNCHANGED timeline
  BY <1>9 DEF ApplyError, ApplyWait, ApplyEnd, ApplyAmbiguous, ApplyNext, Abort, EndWith
<1>10. ASSUME NEW h \in Hosts, Crash(h) PROVE UNCHANGED timeline
  BY <1>10 DEF Crash
<1> QED
  BY <1>1, <1>3, <1>4, <1>5, <1>6, <1>7, <1>8, <1>9, <1>10 DEF Next, StartStep, TickStep

(* Ends are never taken back, so that what was said stays true.            *)
LEMMA SaysLater ==
  ASSUME NEW old, NEW new, Later(old, new), NEW e, Says(old, e)
  PROVE  Says(new, e)
BY DEF Later, Says, Terminal

LEMMA EventsStayTrue ==
  ASSUME IInv, EventsTrue, EndIsWritten, [Next]_vars
  PROVE  EventsTrue' /\ EndIsWritten'
<1>0. TypeOK /\ RowsLater
  BY Inductive DEF IInv
<1>1. EventsTrue'
  <2> SUFFICES ASSUME NEW d \in Calls PROVE Owes(calls'[d], rows'[calls'[d].run])
    BY DEF EventsTrue
  <2>1. CASE calls'[d] = calls[d]
    <3>1. calls[d].run \in Runs /\ Owes(calls[d], rows[calls[d].run])
      BY <1>0 DEF TypeOK, Call, EventsTrue
    <3> QED BY <1>0, <2>1, <3>1, SaysLater DEF RowsLater, Owes
  <2>2. CASE calls'[d].pc # "event"
    BY <2>2 DEF Owes
  <2> QED BY <2>1, <2>2, OwesStep
<1>2. EndIsWritten'
  <2> SUFFICES ASSUME NEW r \in Runs, NEW i \in DOMAIN timeline'[r]
               PROVE  Says(rows'[r], timeline'[r][i])
    BY DEF EndIsWritten, Logged, Says
  <2>1. ASSUME NEW j \in DOMAIN timeline[r] PROVE Says(rows'[r], timeline[r][j])
    <3>1. Says(rows[r], timeline[r][j])
      BY DEF EndIsWritten, Logged, Says
    <3> QED BY <1>0, <3>1, SaysLater DEF RowsLater
  <2>2. CASE timeline'[r] = timeline[r]
    BY <2>1, <2>2
  <2>3. ASSUME NEW e \in EventTypes, timeline'[r] = Append(timeline[r], e), Says(rows[r], e)
        PROVE  Says(rows'[r], timeline'[r][i])
    <3>1. timeline[r] \in Seq(EventTypes)
      BY <1>0 DEF TypeOK
    <3>2. i \in 1 .. Len(timeline[r]) + 1
      BY <2>3, <3>1
    <3>3. CASE i = Len(timeline[r]) + 1
      <4>1. timeline'[r][i] = e
        BY <2>3, <3>1, <3>3
      <4> QED BY <1>0, <2>3, <4>1, SaysLater DEF RowsLater
    <3>4. CASE i \in 1 .. Len(timeline[r])
      <4>1. i \in DOMAIN timeline[r] /\ timeline'[r][i] = timeline[r][i]
        BY <2>3, <3>1, <3>4
      <4> QED BY <2>1, <4>1
    <3> QED BY <3>1, <3>2, <3>3, <3>4
  <2> QED BY <2>2, <2>3, TimelineStep
<1> QED BY <1>1, <1>2
--------------------------------------------------------------------------------
(* A handler that succeeds twice under one key.                            *)
(* The keys of different runs differ (storage records them without a run). *)
KeysApart == \A r, s \in Runs, m, n \in Nodes :
               KeyOf[r][m] # Null /\ KeyOf[r][m] = KeyOf[s][n] => r = s

(* A call whose handler succeeded, as far as the record does not say so:   *)
(* it is about to write it, or has failed to and ends its run.             *)
Spends(x) == \/ x.pc = "store"
             \/ x.pc \in {"failed", "apply"} /\ x.result = "thrown"

(* A call that will run its node's handler.                                *)
WillRun(x) == x.pc = "handler" \/ (x.pc = "failed" /\ x.result \in Retryable)

KeyOfCall(x) == KeyOf[x.run][x.node]

(* The handlers of key k will not run again unless something is lost.      *)
Paid(k) == \/ idem[k].stored
           \/ \E c \in Calls : Spends(calls[c]) /\ KeyOfCall(calls[c]) = k
           \/ \E r \in Runs, n \in Nodes : KeyOf[r][n] = k /\ rows[r].status \in Terminal

RepeatInv == /\ \A k \in Keys : performed[k] <= 1 + crashes + faults + abandoned[k]
             /\ \A k \in Keys : ~Paid(k) => performed[k] <= crashes + faults + abandoned[k]
             /\ \A c \in Calls : WillRun(calls[c]) /\ KeyOfCall(calls[c]) # Null =>
                                   ~idem[KeyOfCall(calls[c])].stored

Same(x, y) == x.run = y.run /\ x.node = y.node

(* What one call does, of what concerns these three.                       *)
OwnStep(d) ==
  \/ \E r \in Runs : StartRun(d, r) \/ Tick(d, r) \/ ResumeRun(d, r) \/ Recover(d, r)
  \/ Enter(d) \/ Busy(d) \/ Inherit(d) \/ Leave(d) \/ StartStep(d) \/ TickStep(d) \/ StorageFails(d)

LEMMA OneCallMoves ==
  ASSUME IInv, [Next]_vars, NEW d \in Calls
  PROVE  calls'[d] = calls[d] \/ OwnStep(d) \/ crashes' = crashes + 1
<1> DEFINE Goal == calls'[d] = calls[d] \/ OwnStep(d) \/ crashes' = crashes + 1
<1>0. calls \in [Calls -> Call]
  BY DEF IInv, TypeOK
<1>1. ASSUME NEW c \in Calls, OwnStep(c) PROVE Goal
  <2>1. CASE c = d
    BY <1>1, <2>1
  <2>2. CASE c # d
    <3>1. ASSUME NEW x, calls' = [calls EXCEPT ![c] = x] PROVE calls'[d] = calls[d]
      BY <1>0, <2>2, <3>1
    <3>2. CASE \E r \in Runs :
                 StartRun(c, r) \/ Tick(c, r) \/ ResumeRun(c, r) \/ Recover(c, r)
      BY <3>1, <3>2 DEF StartRun, Tick, ResumeRun, Recover, Request
    <3>3. CASE Enter(c) \/ Busy(c) \/ Inherit(c) \/ Leave(c) \/ StartStep(c) \/ StorageFails(c)
      BY <1>0, <2>2, <3>3 DEF Enter, Busy, Inherit, Leave, StartStep, Announce, PointAtEntry,
                              StorageFails, Thrown, Reject, Goto, Back
    <3>4. CASE \/ ReadForResume(c) \/ Wake(c) \/ UnknownFlow(c) \/ Load(c) \/ NodeMissing(c)
               \/ Begin(c) \/ Check(c) \/ KeyFails(c)
      BY <1>0, <2>2, <3>4 DEF ReadForResume, Wake, UnknownFlow, Load, NodeMissing, Begin,
                              Check, KeyFails, Thrown, Reject, Goto, Back
    <3>5. CASE \/ TimeOut(c) \/ \E res \in Results : Settle(c, res)
               \/ Store(c) \/ Finish(c) \/ NodeFailed(c) \/ LogRunEvent(c)
      BY <1>0, <2>2, <3>5 DEF Settle, TimeOut, Store, Finish, NodeFailed, LogRunEvent, Goto
    <3>6. CASE \/ ApplyError(c) \/ ApplyWait(c) \/ ApplyEnd(c) \/ ApplyAmbiguous(c)
               \/ ApplyNext(c)
      BY <1>0, <2>2, <3>6 DEF ApplyError, ApplyWait, ApplyEnd, ApplyAmbiguous, ApplyNext,
                              Abort, EndWith, Goto
    <3> QED BY <1>1, <3>2, <3>3, <3>4, <3>5, <3>6 DEF OwnStep, TickStep
  <2> QED BY <2>1, <2>2
<1>2. ASSUME NEW h \in Hosts, Crash(h) PROVE Goal
  BY <1>2 DEF Crash
<1>3. ASSUME UNCHANGED vars PROVE Goal
  BY <1>3 DEF vars
<1> HIDE DEF Goal
<1> QED
  <2>1. Goal
    BY <1>1, <1>2, <1>3 DEF Next, OwnStep
  <2> QED BY <2>1 DEF Goal

(* Who has spent a success writes the record, ends its run, or is cut off. *)
LEMMA SpendsStep ==
  ASSUME IInv, [Next]_vars, NEW d \in Calls, Spends(calls[d])
  PROVE  \/ Spends(calls'[d]) /\ Same(calls[d], calls'[d])
         \/ crashes' = crashes + 1 \/ faults' = faults + 1
         \/ Store(d) \/ ApplyError(d)
<1> DEFINE Stays == Spends(calls'[d]) /\ Same(calls[d], calls'[d])
<1>0. calls \in [Calls -> Call]
  BY DEF IInv, TypeOK
<1>1. CASE calls'[d] = calls[d]
  BY <1>1 DEF Same
<1>2. ASSUME KeyFails(d) PROVE Stays
  <2>1. calls' = [calls EXCEPT ![d].pc = "failed", ![d].result = "thrown"]
    BY <1>2 DEF KeyFails, Thrown, Spends, At
  <2> QED BY <1>0, <2>1 DEF Spends, Same, Call
<1>3. ASSUME NodeFailed(d) PROVE Stays
  <2>1. calls' = [calls EXCEPT ![d] = [@ EXCEPT !.pc = "apply"]] /\ calls[d].result = "thrown"
    BY <1>3 DEF NodeFailed, Retries, Retryable, Spends, At
  <2> QED BY <1>0, <2>1 DEF Spends, Same, Call
<1>4. ASSUME StorageFails(d) PROVE faults' = faults + 1
  BY <1>4 DEF StorageFails
<1>5. ASSUME \/ \E r \in Runs : StartRun(d, r) \/ Tick(d, r) \/ ResumeRun(d, r) \/ Recover(d, r)
             \/ Enter(d) \/ Busy(d) \/ Inherit(d) \/ Leave(d) \/ StartStep(d)
      PROVE FALSE
  BY <1>5 DEF StartRun, Tick, ResumeRun, Recover, Request, Enter, Busy, Inherit, Leave, StartStep,
              Announce, PointAtEntry, At, Spends
<1>6. ASSUME \/ ReadForResume(d) \/ Wake(d) \/ UnknownFlow(d) \/ Load(d) \/ NodeMissing(d)
             \/ Begin(d) \/ Check(d) \/ (\E res \in Results : Settle(d, res)) \/ TimeOut(d)
             \/ Finish(d) \/ LogRunEvent(d)
      PROVE FALSE
  BY <1>6 DEF ReadForResume, Wake, UnknownFlow, Load, NodeMissing, Begin, Check, Settle,
              TimeOut, Finish, LogRunEvent, At, Spends
<1>7. ASSUME ApplyWait(d) \/ ApplyEnd(d) \/ ApplyAmbiguous(d) \/ ApplyNext(d) PROVE FALSE
  BY <1>7 DEF ApplyWait, ApplyEnd, ApplyAmbiguous, ApplyNext, At, Spends
<1> HIDE DEF Stays
<1>8. Stays \/ crashes' = crashes + 1 \/ faults' = faults + 1 \/ Store(d) \/ ApplyError(d)
  <2>1. CASE OwnStep(d)
    BY <2>1, <1>2, <1>3, <1>4, <1>5, <1>6, <1>7 DEF OwnStep, TickStep
  <2> QED BY <1>1, <2>1, OneCallMoves DEF Stays, Same
<1> QED BY <1>8 DEF Stays
(* Who will run its handler was about to, or has just looked for a record. *)
LEMMA WillRunStep ==
  ASSUME IInv, [Next]_vars, NEW d \in Calls, WillRun(calls'[d])
  PROVE  \/ WillRun(calls[d]) /\ Same(calls[d], calls'[d])
         \/ /\ Check(d) /\ Same(calls[d], calls'[d])
            /\ KeyOfCall(calls[d]) # Null => ~idem[KeyOfCall(calls[d])].stored
<1> DEFINE Goal == \/ WillRun(calls[d]) /\ Same(calls[d], calls'[d])
                   \/ /\ Check(d) /\ Same(calls[d], calls'[d])
                      /\ KeyOfCall(calls[d]) # Null => ~idem[KeyOfCall(calls[d])].stored
<1>0. calls \in [Calls -> Call]
  BY DEF IInv, TypeOK
<1>1. CASE calls'[d] = calls[d]
  BY <1>1 DEF Same
<1>2. ASSUME Check(d) PROVE Goal
  <2>1. CASE NodeKey(d) # Null /\ idem[NodeKey(d)].stored
    BY <1>0, <1>2, <2>1 DEF Check, WillRun, Call
  <2>2. CASE ~(NodeKey(d) # Null /\ idem[NodeKey(d)].stored)
    <3>1. calls' = [calls EXCEPT ![d] = [@ EXCEPT !.pc = "handler"]]
      BY <1>2, <2>2 DEF Check
    <3> QED BY <1>0, <1>2, <2>2, <3>1 DEF Same, KeyOfCall, NodeKey, Run, Call
  <2> QED BY <2>1, <2>2
<1>3. ASSUME NodeFailed(d) PROVE Goal
  BY <1>0, <1>3 DEF NodeFailed, Retries, WillRun, Same, At, Call
<1>4. ASSUME NEW res \in Results, Settle(d, res) PROVE Goal
  <2> DEFINE q == IF res \in {"ok", "wait"} THEN Patch[calls[d].node][res] ELSE {}
  <2>1. PICK p \in PCs :
          calls' = [calls EXCEPT ![d].result = res, ![d].patch = q, ![d].pc = p]
    BY <1>4 DEF Settle, PCs, SectionPCs
  <2> QED BY <1>0, <1>4, <2>1 DEF Settle, WillRun, Same, At, Call
<1>15. ASSUME TimeOut(d) PROVE Goal
  BY <1>0, <1>15 DEF TimeOut, WillRun, Same, At, Call
<1>5. ASSUME NEW p \in PCs \ {"handler", "failed"}, Goto(d, p) PROVE FALSE
  BY <1>0, <1>5 DEF Goto, WillRun, Call
<1>6. ASSUME Back(d) \/ Thrown(d) PROVE FALSE
  BY <1>0, <1>6 DEF Back, IdleCall, Thrown, WillRun, Retryable, Call
<1>7. ASSUME NEW r \in Runs, StartRun(d, r) \/ Tick(d, r) \/ ResumeRun(d, r) \/ Recover(d, r)
      PROVE  FALSE
  <2>1. PICK p \in {"announce", "lock"}, o \in {"start", "tick", "resume"} :
          calls' = [calls EXCEPT ![d] = [IdleCall(r) EXCEPT !.pc = p, !.op = o]]
    BY <1>7 DEF StartRun, Tick, ResumeRun, Recover, Request
  <2>2. [IdleCall(r) EXCEPT !.pc = p, !.op = o].pc = p
    BY DEF IdleCall
  <2> QED BY <1>0, <2>1, <2>2 DEF WillRun
<1>8. ASSUME \/ Enter(d) \/ Busy(d) \/ Inherit(d) \/ Leave(d) \/ StartStep(d) \/ StorageFails(d)
             \/ Wake(d) \/ UnknownFlow(d) \/ Begin(d) \/ KeyFails(d) \/ Store(d)
             \/ Finish(d) \/ ApplyNext(d) \/ LogRunEvent(d)
      PROVE  FALSE
  <2>1. Back(d) \/ Thrown(d) \/ \E p \in PCs \ {"handler", "failed"} : Goto(d, p)
    BY <1>8 DEF Enter, Busy, Inherit, Leave, StartStep, Announce, PointAtEntry, StorageFails, Wake,
                UnknownFlow, Begin, KeyFails, Store, Finish, ApplyNext, LogRunEvent,
                Reject, PCs, SectionPCs
  <2> QED BY <1>5, <1>6, <2>1
<1>9. ASSUME ReadForResume(d) PROVE FALSE
  BY <1>0, <1>9 DEF ReadForResume, Goto, WillRun, Call
<1>10. ASSUME Load(d) PROVE FALSE
  BY <1>0, <1>10 DEF Load, WillRun, Call
<1>11. ASSUME NodeMissing(d) \/ ApplyError(d) \/ ApplyWait(d) \/ ApplyEnd(d) \/ ApplyAmbiguous(d)
       PROVE FALSE
  <2>1. \E e : calls' = [calls EXCEPT ![d].pc = "event", ![d].event = e]
    BY <1>11 DEF NodeMissing, ApplyError, ApplyWait, ApplyEnd, ApplyAmbiguous, Abort, EndWith
  <2> QED BY <1>0, <2>1 DEF WillRun, Call
<1>12. ASSUME NEW h \in Hosts, Crash(h) PROVE Goal
  BY <1>0, <1>12 DEF Crash, IdleCall, WillRun, Same
<1> HIDE DEF Goal
<1>13. ASSUME OwnStep(d) PROVE Goal
  BY <1>13, <1>2, <1>3, <1>4, <1>7, <1>8, <1>9, <1>10, <1>11, <1>15 DEF OwnStep, TickStep
<1>14. Goal
  <2>1. ASSUME crashes' = crashes + 1, calls'[d] # calls[d], ~OwnStep(d)
        PROVE  \E h \in Hosts : Crash(h)
    <3>1. ASSUME NEW c \in Calls, OwnStep(c) PROVE UNCHANGED crashes
      BY <3>1 DEF OwnStep, StartRun, Tick, ResumeRun, Recover, Request, Enter, Busy, Inherit, Leave,
         StartStep, Announce, PointAtEntry, TickStep, ReadForResume, Wake, UnknownFlow, Load,
         NodeMissing, Begin, Check, KeyFails, Settle, TimeOut, Store, Finish, NodeFailed, ApplyError,
         ApplyWait, ApplyEnd, ApplyAmbiguous, ApplyNext, Abort, EndWith, LogRunEvent,
         StorageFails, Aside
    <3>2. crashes + 1 # crashes
      BY DEF IInv, TypeOK
    <3> QED BY <2>1, <3>1, <3>2 DEF Next, OwnStep, vars
  <2> QED BY <1>1, <1>12, <1>13, <2>1, OneCallMoves DEF Goal, Same
<1> QED BY <1>14 DEF Goal

(* What is recorded stays recorded; a success is counted when it happens.  *)
LEMMA RecordStep ==
  ASSUME IInv, [Next]_vars
  PROVE  /\ \A k \in Keys : idem[k].stored => idem'[k].stored
         /\ \A k \in Keys : idem'[k].stored =>
              \/ idem[k].stored
              \/ \E c \in Calls : Store(c) /\ KeyOfCall(calls[c]) = k
         /\ \A k \in Keys :
           \/ performed'[k] = performed[k] /\ abandoned'[k] = abandoned[k]
           \/ /\ performed'[k] = performed[k] + 1 /\ abandoned'[k] = abandoned[k]
              /\ \E c \in Calls : /\ calls[c].pc = "handler"
                                  /\ KeyOfCall(calls[c]) = k
                                  /\ calls'[c].pc = "store"
                                  /\ Same(calls[c], calls'[c])
           \/ /\ performed'[k] \in {performed[k], performed[k] + 1}
              /\ abandoned'[k] = abandoned[k] + 1
         /\ crashes' \in {crashes, crashes + 1} /\ faults' \in {faults, faults + 1}
<1> DEFINE Goal == /\ \A k \in Keys : idem[k].stored => idem'[k].stored
                   /\ \A k \in Keys : idem'[k].stored =>
                        \/ idem[k].stored
                        \/ \E c \in Calls : Store(c) /\ KeyOfCall(calls[c]) = k
                   /\ \A k \in Keys :
                     \/ performed'[k] = performed[k] /\ abandoned'[k] = abandoned[k]
                     \/ /\ performed'[k] = performed[k] + 1 /\ abandoned'[k] = abandoned[k]
                        /\ \E c \in Calls : /\ calls[c].pc = "handler"
                                            /\ KeyOfCall(calls[c]) = k
                                            /\ calls'[c].pc = "store"
                                            /\ Same(calls[c], calls'[c])
                     \/ /\ performed'[k] \in {performed[k], performed[k] + 1}
                        /\ abandoned'[k] = abandoned[k] + 1
                   /\ crashes' \in {crashes, crashes + 1} /\ faults' \in {faults, faults + 1}
<1>0. TypeOK /\ \A c \in Calls : KeyOfCall(calls[c]) = NodeKey(c)
  BY DEF IInv, KeyOfCall, NodeKey, Run
<1>1. ASSUME UNCHANGED vars PROVE Goal
  BY <1>1 DEF vars
<1>2. ASSUME NEW c \in Calls, Store(c) PROVE Goal
  <2>1. idem' = [idem EXCEPT ![NodeKey(c)] = [stored |-> TRUE, patch |-> calls[c].patch]]
        /\ UNCHANGED <<performed, abandoned, crashes, faults>>
    BY <1>2 DEF Store, Aside
  <2>2. \A k \in Keys : k # NodeKey(c) => idem'[k] = idem[k]
    BY <1>0, <2>1 DEF TypeOK
  <2>3. \A k \in Keys : k = NodeKey(c) => idem'[k].stored
    BY <1>0, <2>1 DEF TypeOK
  <2> QED BY <1>0, <1>2, <2>1, <2>2, <2>3
<1>3. ASSUME NEW c \in Calls, NEW res \in Results, Settle(c, res) PROVE Goal
  <2>1. UNCHANGED <<idem, abandoned, crashes, faults>> /\ calls[c].pc = "handler"
    BY <1>3 DEF Settle, Aside, At
  <2>2. CASE UNCHANGED performed
    BY <2>1, <2>2
  <2>3. CASE res = "ok" /\ NodeKey(c) # Null
    <3>1. performed' = [performed EXCEPT ![NodeKey(c)] = @ + 1]
      BY <1>3, <2>3 DEF Settle
    <3>2. calls' = [calls EXCEPT ![c].result = res, ![c].patch = Patch[calls[c].node][res],
                                 ![c].pc = "store"]
      BY <1>3, <2>3 DEF Settle
    <3>3. calls'[c].pc = "store" /\ Same(calls[c], calls'[c])
      BY <1>0, <3>2 DEF TypeOK, Call, Same
    <3>4. \A k \in Keys : performed'[k] = IF k = NodeKey(c) THEN performed[k] + 1
                                                            ELSE performed[k]
      BY <1>0, <3>1 DEF TypeOK
    <3> QED BY <1>0, <2>1, <3>3, <3>4
  <2> QED BY <1>3, <2>2, <2>3 DEF Settle
<1>4. ASSUME NEW c \in Calls, StorageFails(c) PROVE Goal
  BY <1>4 DEF StorageFails
<1>5. ASSUME NEW h \in Hosts, Crash(h) PROVE Goal
  BY <1>5 DEF Crash
<1>6. ASSUME UNCHANGED <<idem, performed, abandoned, crashes, faults>> PROVE Goal
  BY <1>6
<1>11. ASSUME NEW c \in Calls, TimeOut(c) PROVE Goal
  <2>1. UNCHANGED <<idem, crashes, faults>>
    BY <1>11 DEF TimeOut
  <2>2. CASE UNCHANGED <<abandoned, performed>>
    BY <2>1, <2>2
  <2>3. ASSUME NEW n \in {0, 1},
               performed' = [performed EXCEPT ![NodeKey(c)] = @ + n],
               abandoned' = [abandoned EXCEPT ![NodeKey(c)] = @ + 1]
        PROVE  Goal
    <3>1. \A k \in Keys : IF k = NodeKey(c)
            THEN performed'[k] = performed[k] + n /\ abandoned'[k] = abandoned[k] + 1
            ELSE performed'[k] = performed[k] /\ abandoned'[k] = abandoned[k]
      BY <1>0, <2>3 DEF TypeOK
    <3>2. \A k \in Keys : performed[k] \in Nat
      BY <1>0 DEF TypeOK
    <3>3. \A k \in Keys :
            \/ performed'[k] = performed[k] /\ abandoned'[k] = abandoned[k]
            \/ /\ performed'[k] \in {performed[k], performed[k] + 1}
               /\ abandoned'[k] = abandoned[k] + 1
      BY <3>1, <3>2
    <3> QED BY <2>1, <3>3
  <2> QED BY <1>11, <2>2, <2>3 DEF TimeOut
<1> HIDE DEF Goal
<1>7. ASSUME NEW c \in Calls,
             \/ \E r \in Runs : StartRun(c, r) \/ Tick(c, r) \/ ResumeRun(c, r) \/ Recover(c, r)
             \/ Enter(c) \/ Busy(c) \/ Inherit(c) \/ Leave(c) \/ StartStep(c)
      PROVE  Goal
  BY <1>6, <1>7 DEF StartRun, Tick, ResumeRun, Recover, Request, Enter, Busy, Inherit, Leave,
                    StartStep, Announce, PointAtEntry, Aside
<1>8. ASSUME NEW c \in Calls,
             \/ ReadForResume(c) \/ Wake(c) \/ UnknownFlow(c) \/ Load(c) \/ NodeMissing(c)
             \/ Begin(c) \/ Check(c) \/ KeyFails(c) \/ Finish(c) \/ NodeFailed(c)
             \/ LogRunEvent(c)
      PROVE  Goal
  BY <1>6, <1>8 DEF ReadForResume, Wake, UnknownFlow, Load, NodeMissing, Begin, Check,
                    KeyFails, Finish, NodeFailed, LogRunEvent, Aside
<1>9. ASSUME NEW c \in Calls, \/ ApplyError(c) \/ ApplyWait(c) \/ ApplyEnd(c)
                              \/ ApplyAmbiguous(c) \/ ApplyNext(c)
      PROVE  Goal
  BY <1>6, <1>9 DEF ApplyError, ApplyWait, ApplyEnd, ApplyAmbiguous, ApplyNext, Abort,
                    EndWith, Aside
<1>10. Goal
  BY <1>1, <1>2, <1>3, <1>4, <1>5, <1>7, <1>8, <1>9, <1>11 DEF Next, TickStep
<1> QED BY <1>10 DEF Goal

(* A key stays paid for, unless something was lost.                        *)
LEMMA PaidStep ==
  ASSUME IInv, [Next]_vars, crashes' = crashes, faults' = faults, NEW k \in Keys, Paid(k)
  PROVE  Paid(k)'
<1>0. TypeOK /\ RowsLater /\ TypeOK'
  BY Inductive DEF IInv
<1>1. CASE idem[k].stored
  BY <1>1, RecordStep DEF Paid
<1>2. ASSUME NEW r \in Runs, NEW n \in Nodes, KeyOf[r][n] = k, rows[r].status \in Terminal
      PROVE  Paid(k)'
  BY <1>0, <1>2 DEF RowsLater, Later, Paid
<1>3. ASSUME NEW c \in Calls, Spends(calls[c]), KeyOfCall(calls[c]) = k PROVE Paid(k)'
  <2>1. CASE Spends(calls'[c]) /\ Same(calls[c], calls'[c])
    BY <1>3, <2>1 DEF Paid, KeyOfCall, Same
  <2>2. CASE Store(c)
    <3>1. idem' = [idem EXCEPT ![k] = [stored |-> TRUE, patch |-> calls[c].patch]]
      BY <1>3, <2>2 DEF Store, NodeKey, Run, KeyOfCall
    <3> QED BY <1>0, <3>1 DEF TypeOK, Paid
  <2>3. CASE ApplyError(c)
    <3>1. calls[c].run \in Runs /\ calls[c].node \in Nodes
      BY <1>0 DEF TypeOK, Call
    <3>2. rows'[calls[c].run].status = "FAILED"
      BY <1>0, <2>3, <3>1 DEF ApplyError, Abort, EndWith, Run, TypeOK, Row
    <3> QED BY <1>3, <3>1, <3>2 DEF Paid, KeyOfCall, Terminal
  <2>4. crashes' # crashes + 1 /\ faults' # faults + 1
    BY <1>0 DEF TypeOK
  <2> QED BY <1>3, <2>1, <2>2, <2>3, <2>4, SpendsStep
<1> QED BY <1>1, <1>2, <1>3 DEF Paid

(* Two calls inside about one key are one.                                 *)
LEMMA OnePerKey ==
  ASSUME KeysApart, IInv, NEW c \in Calls, NEW d \in Calls, Inside(c), Inside(d),
         KeyOfCall(calls[c]) # Null, KeyOfCall(calls[c]) = KeyOfCall(calls[d])
  PROVE  c = d
<1>1. calls[c] \in Call /\ calls[d] \in Call
  BY DEF IInv, TypeOK
<1>2. calls[c].run = calls[d].run
  BY <1>1 DEF KeysApart, KeyOfCall, Call
<1> QED BY <1>2 DEF IInv, OneAtATime, Run

(* A handler that runs has not been paid for.                              *)
LEMMA RunsUnpaid ==
  ASSUME KeysApart, IInv, RepeatInv, NEW c \in Calls, calls[c].pc = "handler",
         NEW k \in Keys, KeyOfCall(calls[c]) = k
  PROVE  ~Paid(k)
<1>0. calls[c] \in Call /\ k # Null
  BY ConfigAssumption DEF IInv, TypeOK
<1>1. ~idem[k].stored
  BY <1>0 DEF RepeatInv, WillRun
<1>2. ASSUME NEW d \in Calls, Spends(calls[d]), KeyOfCall(calls[d]) = k PROVE FALSE
  <2>1. Inside(c) /\ Inside(d)
    BY <1>2 DEF Inside, SectionPCs, Spends
  <2>2. c = d
    BY <1>0, <1>2, <2>1, OnePerKey
  <2> QED BY <1>2, <2>2 DEF Spends
<1>3. ASSUME NEW r \in Runs, NEW n \in Nodes, KeyOf[r][n] = k, rows[r].status \in Terminal
      PROVE  FALSE
  <2>1. r = calls[c].run
    BY <1>0, <1>3 DEF KeysApart, KeyOfCall, Call
  <2>2. rows[calls[c].run].status \in {"RUNNING", "WAITING"}
    BY DEF IInv, SnapshotFresh, Executing, Run
  <2> QED BY <1>3, <2>1, <2>2 DEF Terminal
<1> QED BY <1>1, <1>2, <1>3 DEF Paid

LEMMA RepeatsStep ==
  ASSUME KeysApart, IInv, RepeatInv, [Next]_vars PROVE RepeatInv'
<1>0. TypeOK /\ TypeOK'
  BY Inductive DEF IInv
<1>1. ASSUME NEW k \in Keys
      PROVE  /\ performed'[k] <= 1 + crashes' + faults' + abandoned'[k]
             /\ ~Paid(k)' => performed'[k] <= crashes' + faults' + abandoned'[k]
  <2> DEFINE Goal == /\ performed'[k] <= 1 + crashes' + faults' + abandoned'[k]
                     /\ ~Paid(k)' => performed'[k] <= crashes' + faults' + abandoned'[k]
  <2>0. /\ performed[k] \in Nat /\ abandoned[k] \in Nat /\ crashes \in Nat /\ faults \in Nat
        /\ performed'[k] \in Nat /\ abandoned'[k] \in Nat
        /\ crashes' \in Nat /\ faults' \in Nat
    BY <1>0 DEF TypeOK
  <2>1. /\ performed[k] <= 1 + crashes + faults + abandoned[k]
        /\ ~Paid(k) => performed[k] <= crashes + faults + abandoned[k]
    BY DEF RepeatInv
  <2>2. crashes' \in {crashes, crashes + 1} /\ faults' \in {faults, faults + 1}
    BY RecordStep
  <2>3. ASSUME performed'[k] = performed[k] /\ abandoned'[k] = abandoned[k] PROVE Goal
    <3>1. CASE crashes' = crashes /\ faults' = faults
      BY <2>1, <2>3, <3>1, PaidStep
    <3>2. CASE ~(crashes' = crashes /\ faults' = faults)
      BY <2>0, <2>1, <2>2, <2>3, <3>2
    <3> QED BY <3>1, <3>2
  <2>4. ASSUME performed'[k] = performed[k] + 1, abandoned'[k] = abandoned[k],
               NEW c \in Calls, calls[c].pc = "handler",
               KeyOfCall(calls[c]) = k, calls'[c].pc = "store", Same(calls[c], calls'[c])
        PROVE  Goal
    <3>1. performed[k] <= crashes + faults + abandoned[k]
      BY <2>1, <2>4, RunsUnpaid
    <3>2. Paid(k)'
      BY <2>4 DEF Paid, Spends, KeyOfCall, Same
    <3> QED BY <2>0, <2>2, <2>4, <3>1, <3>2
  <2>5. ASSUME performed'[k] \in {performed[k], performed[k] + 1},
               abandoned'[k] = abandoned[k] + 1
        PROVE  Goal
    <3>1. CASE ~Paid(k) \/ ~(crashes' = crashes /\ faults' = faults)
      BY <2>0, <2>1, <2>2, <2>5, <3>1
    <3>2. CASE Paid(k) /\ crashes' = crashes /\ faults' = faults
      <4>1. Paid(k)'
        BY <3>2, PaidStep
      <4> QED BY <2>0, <2>1, <2>5, <3>2, <4>1
    <3> QED BY <3>1, <3>2
  <2> QED BY <2>3, <2>4, <2>5, RecordStep
<1>2. ASSUME NEW d \in Calls, WillRun(calls'[d]), KeyOfCall(calls'[d]) # Null
      PROVE  ~idem'[KeyOfCall(calls'[d])].stored
  <2> DEFINE k == KeyOfCall(calls[d])
  <2>1. /\ KeyOfCall(calls'[d]) = k /\ ~idem[k].stored
        /\ calls[d].pc \in {"handler", "failed", "check"}
    <3>1. CASE WillRun(calls[d]) /\ Same(calls[d], calls'[d])
      BY <1>2, <3>1 DEF RepeatInv, KeyOfCall, Same, WillRun
    <3>2. CASE /\ Check(d) /\ Same(calls[d], calls'[d])
               /\ KeyOfCall(calls[d]) # Null => ~idem[KeyOfCall(calls[d])].stored
      BY <1>2, <3>2 DEF KeyOfCall, Same, Check, At
    <3> QED BY <1>2, <3>1, <3>2, WillRunStep
  <2>2. k \in Keys
    <3>1. calls[d].run \in Runs /\ calls[d].node \in Nodes
      BY <1>0 DEF TypeOK, Call
    <3>2. k # Null
      BY <1>2, <2>1
    <3>3. k \in Keys \cup {Null}
      BY <3>1, ConfigAssumption DEF KeyOfCall
    <3> QED BY <3>2, <3>3
  <2>3. ASSUME NEW c \in Calls, Store(c), KeyOfCall(calls[c]) = k PROVE FALSE
    <3>1. calls[c].pc = "store"
      BY <2>3 DEF Store, At
    <3>2. Inside(c) /\ Inside(d)
      BY <2>1, <3>1 DEF Inside, SectionPCs
    <3>3. c = d
      BY <1>2, <2>1, <2>3, <3>2, OnePerKey
    <3> QED BY <2>1, <3>1, <3>3
  <2> QED BY <2>1, <2>2, <2>3, RecordStep
<1> QED BY <1>1, <1>2 DEF RepeatInv
--------------------------------------------------------------------------------
(* The steps of a call, by what they do to the call, to the row of its run *)
(* and to the timeline: what the rest of this module needs of the actions. *)
Alone(c) == \A d \in Calls \ {c} : calls'[d] = calls[d]
OwnRow(c) == \A r \in Runs \ {calls[c].run} : rows'[r] = rows[r]

From(c, p, q) == /\ calls[c].pc = p /\ calls'[c].pc = q
                 /\ calls'[c].run = calls[c].run /\ calls'[c].op = calls[c].op

SameNode(c) == calls'[c].node = calls[c].node

Starts(c) == \E r \in Runs :
  /\ calls[c].pc = "idle" /\ rows[r].status = "ABSENT"
  /\ calls'[c].pc = "announce" /\ calls'[c].run = r
  /\ rows'[r].status = "RUNNING" /\ rows'[r].node = rows[r].node
  /\ rows'[r].outputs = rows[r].outputs
  /\ \A q \in Runs \ {r} : rows'[q] = rows[q]
  /\ UNCHANGED timeline

Points(c) ==
  /\ calls[c].pc = "point" /\ calls'[c].pc = "idle" /\ calls'[c].run = calls[c].run
  /\ LET row == rows[calls[c].run]
         new == rows'[calls[c].run]
     IN  new.status = row.status /\ new.outputs = row.outputs /\ new.node = Entry
  /\ OwnRow(c) /\ UNCHANGED timeline

Asks(c) == \E r \in Runs :
  /\ calls[c].pc = "idle" /\ rows[r].status # "ABSENT"
  /\ calls'[c].pc = "lock" /\ calls'[c].run = r
  /\ Starting(r) => calls'[c].op = "tick" /\ r \in early'
  /\ UNCHANGED <<rows, timeline>>

Quits(c) ==
  /\ calls'[c].pc = "idle" /\ calls'[c].run = calls[c].run
  /\ \/ calls[c].pc \in {"lock", "read", "load", "done"}
     \/ calls[c].pc = "check" /\ KeyThrows # {}
     \/ faults' = faults + 1
  /\ UNCHANGED <<rows, timeline>>

InNode == {"check", "handler", "store", "finish", "failed"}

Passes(c) ==
  /\ \/ From(c, "lock", IF calls[c].op = "resume" THEN "read" ELSE "load")
     \/ From(c, "read", "wake") \/ From(c, "read", "done")
     \/ From(c, "load", "missing") \/ From(c, "load", "done")
     \/ /\ From(c, "load", "begin")
        /\ calls'[c].node = IF rows[calls[c].run].node = Null
                            THEN Entry ELSE rows[calls[c].run].node
     \/ \E p, q \in InNode : From(c, p, q) /\ SameNode(c)
  /\ UNCHANGED <<rows, timeline>>

Logs(c) ==
  /\ \/ From(c, "announce", "point") /\ Log(c, "RUN_STARTED")
     \/ From(c, "begin", "check") /\ Log(c, "NODE_STARTED")
     \/ From(c, "finish", "apply") /\ Log(c, "NODE_FINISHED")
     \/ From(c, "failed", "handler") /\ Log(c, "NODE_FAILED")
     \/ From(c, "failed", "apply") /\ Log(c, "NODE_FAILED")
     \/ From(c, "event", "done") /\ Log(c, calls[c].event)
  /\ SameNode(c) /\ UNCHANGED rows

(* The row is parked, ended or sent on by its run's own section.           *)
Writes(c) ==
  LET row == rows[calls[c].run]
      new == rows'[calls[c].run]
      Keeps == new.node = row.node /\ new.outputs = row.outputs
      Adds == new.outputs = NewOutputs(c)
      Ends(status, event) == /\ new.status = status /\ calls'[c].event = event
  IN
  /\ \/ /\ From(c, "read", "done") /\ Keeps
        /\ row.status = "WAITING" /\ row.node \notin Defined /\ new.status = "FAILED"
     \/ From(c, "wake", "load") /\ Keeps /\ row.status = "WAITING" /\ new.status = "RUNNING"
     \/ From(c, "missing", "event") /\ Keeps /\ Ends("FAILED", "RUN_ABORTED")
     \/ /\ From(c, "apply", "event") /\ Ends("FAILED", "RUN_ABORTED")
        /\ new.node = Null /\ new.outputs = row.outputs
     \/ /\ From(c, "apply", "event") /\ Ends("WAITING", "RUN_WAITING")
        /\ new.node = calls[c].node /\ Adds
     \/ /\ From(c, "apply", "event") /\ Ends("COMPLETED", "RUN_COMPLETED")
        /\ new.node = Null /\ Adds
     \/ /\ From(c, "apply", "done") /\ new.status = row.status
        /\ \E e \in Edges : e.from = calls[c].node /\ new.node = e.to
        /\ Adds
  /\ OwnRow(c) /\ SameNode(c) /\ UNCHANGED timeline

Shape(c) == /\ Alone(c)
            /\ \/ Starts(c) \/ Points(c) \/ Asks(c) \/ Quits(c)
               \/ Passes(c) \/ Logs(c) \/ Writes(c)

LEMMA GotoShape ==
  ASSUME IInv, NEW c \in Calls, NEW p \in PCs, Goto(c, p)
  PROVE  Alone(c) /\ From(c, calls[c].pc, p) /\ SameNode(c)
<1>1. calls \in [Calls -> Call] /\ calls[c] \in Call
  BY Typed
<1>2. calls' = [calls EXCEPT ![c] = [calls[c] EXCEPT !.pc = p]]
  BY DEF Goto
<1>3. calls'[c] = [calls[c] EXCEPT !.pc = p] /\ Alone(c)
  BY <1>1, <1>2 DEF Alone
<1> QED
  BY <1>1, <1>3 DEF From, SameNode, Call

LEMMA BackShape ==
  ASSUME IInv, NEW c \in Calls, Back(c)
  PROVE  Alone(c) /\ calls'[c].pc = "idle" /\ calls'[c].run = calls[c].run
BY Typed DEF Back, Alone, IdleCall, Run

(* The row of the call's run becomes y.                                    *)
LEMMA RowShape ==
  ASSUME IInv, NEW c \in Calls, NEW y, rows' = [rows EXCEPT ![Run(c)] = y]
  PROVE  OwnRow(c) /\ rows'[calls[c].run] = y
BY Typed DEF OwnRow, Run

LEMMA ThrownShape ==
  ASSUME IInv, NEW c \in Calls, Thrown(c)
  PROVE  Alone(c) /\ From(c, calls[c].pc, "failed") /\ SameNode(c)
<1>1. calls \in [Calls -> Call] /\ calls[c] \in Call
  BY Typed
<1>2. calls' = [calls EXCEPT ![c] = [calls[c] EXCEPT !.pc = "failed", !.result = "thrown"]]
  BY <1>1 DEF Thrown
<1>3. calls'[c] = [calls[c] EXCEPT !.pc = "failed", !.result = "thrown"] /\ Alone(c)
  BY <1>1, <1>2 DEF Alone
<1> QED
  BY <1>1, <1>3 DEF From, SameNode, Call

LEMMA EndShape ==
  ASSUME IInv, NEW c \in Calls, NEW y, NEW e,
         rows' = [rows EXCEPT ![Run(c)] = y],
         calls' = [calls EXCEPT ![c].pc = "event", ![c].event = e]
  PROVE  /\ Alone(c) /\ From(c, calls[c].pc, "event") /\ SameNode(c)
         /\ calls'[c].event = e /\ OwnRow(c) /\ rows'[calls[c].run] = y
<1>1. calls \in [Calls -> Call] /\ calls[c] \in Call
  BY Typed
<1>2. calls' = [calls EXCEPT ![c] = [calls[c] EXCEPT !.pc = "event", !.event = e]]
  BY <1>1
<1>3. calls'[c] = [calls[c] EXCEPT !.pc = "event", !.event = e] /\ Alone(c)
  BY <1>1, <1>2 DEF Alone
<1> QED
  BY <1>1, <1>3, RowShape DEF From, SameNode, Call

LEMMA StartShape ==
  ASSUME IInv, NEW c \in Calls, NEW r \in Runs, StartRun(c, r) PROVE Shape(c)
<1>1. calls \in [Calls -> Call] /\ rows \in [Runs -> Row] /\ rows[r] \in Row
  BY Typed
<1>2. PICK state \in Initial :
        rows' = [rows EXCEPT ![r] = [rows[r] EXCEPT !.status = "RUNNING", !.state = state]]
  BY <1>1 DEF StartRun
<1>3. /\ rows'[r] = [rows[r] EXCEPT !.status = "RUNNING", !.state = state]
      /\ \A q \in Runs \ {r} : rows'[q] = rows[q]
  BY <1>1, <1>2
<1>4. calls'[c] = [IdleCall(r) EXCEPT !.pc = "announce", !.op = "start"] /\ Alone(c)
  BY <1>1 DEF StartRun, Alone
<1>5. calls'[c].pc = "announce" /\ calls'[c].run = r
  BY <1>4 DEF IdleCall
<1>6. /\ rows'[r].status = "RUNNING" /\ rows'[r].node = rows[r].node
      /\ rows'[r].outputs = rows[r].outputs
  BY <1>1, <1>3 DEF Row
<1> QED
  BY <1>3, <1>4, <1>5, <1>6 DEF Shape, Starts, StartRun, At

LEMMA AskShape ==
  ASSUME IInv, NEW c \in Calls, NEW r \in Runs, Tick(c, r) \/ ResumeRun(c, r) \/ Recover(c, r)
  PROVE  Shape(c)
<1>1. PICK op \in {"tick", "resume"} :
        Request(c, r, op) /\ (Starting(r) => op = "tick")
  BY DEF Tick, ResumeRun, Recover
<1>2. calls'[c] = [IdleCall(r) EXCEPT !.pc = "lock", !.op = op] /\ Alone(c)
  BY <1>1, Typed DEF Request, Alone
<1>3. calls'[c].pc = "lock" /\ calls'[c].run = r /\ calls'[c].op = op
  BY <1>2 DEF IdleCall
<1> QED
  BY <1>1, <1>2, <1>3 DEF Shape, Asks, Request, At

LEMMA PointShape == ASSUME IInv, NEW c \in Calls, PointAtEntry(c) PROVE Shape(c)
<1>1. rows' = [rows EXCEPT ![Run(c)] = [rows[Run(c)] EXCEPT !.node = Entry]]
  BY Typed DEF PointAtEntry
<1>2. OwnRow(c) /\ rows'[calls[c].run] = [rows[Run(c)] EXCEPT !.node = Entry]
  BY <1>1, RowShape
<1>3. Back(c)
  BY DEF PointAtEntry
<1>4. rows[calls[c].run] \in Row
  BY Typed DEF Run
<1>5. LET row == rows[calls[c].run]
          new == rows'[calls[c].run]
      IN  new.status = row.status /\ new.outputs = row.outputs /\ new.node = Entry
  BY <1>2, <1>4 DEF Row, Run
<1> QED
  BY <1>2, <1>3, <1>5, BackShape DEF Shape, Points, PointAtEntry, At

LEMMA QuitShape ==
  ASSUME IInv, NEW c \in Calls, Back(c), UNCHANGED <<rows, timeline>>,
         \/ calls[c].pc \in {"lock", "read", "load", "done"}
         \/ calls[c].pc = "check" /\ KeyThrows # {}
         \/ faults' = faults + 1
  PROVE  Shape(c)
BY BackShape DEF Shape, Quits

LEMMA ReadShape == ASSUME IInv, NEW c \in Calls, ReadForResume(c) PROVE Shape(c)
<1>0. /\ calls \in [Calls -> Call] /\ calls[c] \in Call /\ rows[Run(c)] \in Row
      /\ calls[c].pc = "read" /\ UNCHANGED timeline /\ "done" \in PCs
  BY Typed, Members DEF ReadForResume, At
<1>1. CASE Goto(c, "done") /\ UNCHANGED rows
  BY <1>0, <1>1, GotoShape DEF Shape, Passes
<1>2. CASE /\ calls' = [calls EXCEPT ![c].pc = "wake", ![c].state = rows[Run(c)].state]
           /\ UNCHANGED rows
  <2>1. calls'[c] = [calls[c] EXCEPT !.pc = "wake", !.state = rows[Run(c)].state] /\ Alone(c)
    BY <1>0, <1>2 DEF Alone
  <2>2. From(c, "read", "wake")
    BY <1>0, <2>1 DEF From, Call
  <2> QED
    BY <1>0, <1>2, <2>1, <2>2 DEF Shape, Passes
<1>3. CASE /\ rows[Run(c)].status = "WAITING" /\ rows[Run(c)].node \notin Defined
           /\ Goto(c, "done")
           /\ rows' = [rows EXCEPT ![Run(c)].status = "FAILED"]
  <2>1. rows' = [rows EXCEPT ![Run(c)] = [rows[Run(c)] EXCEPT !.status = "FAILED"]]
    BY <1>3
  <2>2. OwnRow(c) /\ rows'[calls[c].run] = [rows[Run(c)] EXCEPT !.status = "FAILED"]
    BY <2>1, RowShape
  <2>3. /\ rows'[calls[c].run].status = "FAILED"
        /\ rows'[calls[c].run].node = rows[calls[c].run].node
        /\ rows'[calls[c].run].outputs = rows[calls[c].run].outputs
    BY <1>0, <2>2 DEF Row, Run
  <2>4. From(c, "read", "done") /\ SameNode(c) /\ Alone(c)
    BY <1>0, <1>3, GotoShape
  <2> QED
    BY <1>0, <1>3, <2>2, <2>3, <2>4 DEF Shape, Writes, Run
<1> QED
  BY <1>1, <1>2, <1>3 DEF ReadForResume

LEMMA WakeShape == ASSUME IInv, NEW c \in Calls, Wake(c) PROVE Shape(c)
<1>0. /\ rows[Run(c)] \in Row /\ calls[c].pc = "wake" /\ UNCHANGED timeline
      /\ rows[Run(c)].status = "WAITING" /\ "load" \in PCs
  BY Typed DEF Wake, At, Fresh, PCs, SectionPCs
<1>1. PICK payload \in {{}, {Payload}} :
        rows' = [rows EXCEPT ![Run(c)] = [rows[Run(c)] EXCEPT !.status = "RUNNING",
                                            !.state = calls[c].state \cup payload]]
  BY Typed DEF Wake
<1>2. OwnRow(c) /\ rows'[calls[c].run] = [rows[Run(c)] EXCEPT !.status = "RUNNING",
                                            !.state = calls[c].state \cup payload]
  BY <1>1, RowShape
<1>3. /\ rows'[calls[c].run].status = "RUNNING"
      /\ rows'[calls[c].run].node = rows[calls[c].run].node
      /\ rows'[calls[c].run].outputs = rows[calls[c].run].outputs
  BY <1>0, <1>2 DEF Row, Run
<1>4. From(c, "wake", "load") /\ SameNode(c) /\ Alone(c)
  BY <1>0, GotoShape DEF Wake
<1> QED
  BY <1>0, <1>2, <1>3, <1>4 DEF Shape, Writes, Run

LEMMA LoadShape == ASSUME IInv, NEW c \in Calls, Load(c) PROVE Shape(c)
<1> DEFINE row == rows[Run(c)]
           n == IF row.node = Null THEN Entry ELSE row.node
<1>0. /\ calls \in [Calls -> Call] /\ calls[c] \in Call
      /\ calls[c].pc = "load" /\ UNCHANGED <<rows, timeline>>
  BY Typed DEF Load, At
<1>1. /\ Alone(c)
      /\ calls'[c] \in {[calls[c] EXCEPT !.pc = "done"], [calls[c] EXCEPT !.pc = "missing"],
                        [calls[c] EXCEPT !.pc = "begin", !.node = n, !.attempt = 1,
                                         !.state = row.state, !.outputs = row.outputs]}
  BY <1>0 DEF Load, Alone
<1>2. CASE calls'[c] = [calls[c] EXCEPT !.pc = "done"]
  BY <1>0, <1>1, <1>2 DEF Shape, Passes, From, Call
<1>3. CASE calls'[c] = [calls[c] EXCEPT !.pc = "missing"]
  BY <1>0, <1>1, <1>3 DEF Shape, Passes, From, Call
<1>4. CASE calls'[c] = [calls[c] EXCEPT !.pc = "begin", !.node = n, !.attempt = 1,
                                        !.state = row.state, !.outputs = row.outputs]
  <2>1. From(c, "load", "begin") /\ calls'[c].node = n
    <3> HIDE DEF n, row
    <3> QED BY <1>0, <1>4 DEF From, Call
  <2> QED
    BY <1>0, <1>1, <2>1 DEF Shape, Passes, Run
<1> QED
  BY <1>1, <1>2, <1>3, <1>4

LEMMA CheckShape == ASSUME IInv, NEW c \in Calls, Check(c) PROVE Shape(c)
<1> DEFINE q == idem[NodeKey(c)].patch
<1>0. /\ calls \in [Calls -> Call] /\ calls[c] \in Call
      /\ calls[c].pc = "check" /\ UNCHANGED <<rows, timeline>>
  BY Typed DEF Check, At
<1>1. /\ Alone(c)
      /\ \/ calls'[c] = [calls[c] EXCEPT !.pc = "handler"]
         \/ calls'[c] = [calls[c] EXCEPT !.pc = "finish", !.result = "ok",
                                         !.cached = TRUE, !.patch = q]
  BY <1>0 DEF Check, Alone
<1> HIDE DEF q
<1>2. \E p \in {"handler", "finish"} : From(c, "check", p) /\ SameNode(c)
  BY <1>0, <1>1 DEF From, SameNode, Call
<1> QED
  BY <1>0, <1>1, <1>2 DEF Shape, Passes, InNode

LEMMA SettleShape ==
  ASSUME IInv, NEW c \in Calls, NEW res \in Results, Settle(c, res) PROVE Shape(c)
<1> DEFINE q == IF res \in {"ok", "wait"} THEN Patch[calls[c].node][res] ELSE {}
<1>0. /\ calls \in [Calls -> Call] /\ calls[c] \in Call
      /\ calls[c].pc = "handler" /\ UNCHANGED <<rows, timeline>>
  BY Typed DEF Settle, At
<1>1. PICK p \in {"store", "finish", "failed"} :
        calls' = [calls EXCEPT ![c].result = res, ![c].patch = q, ![c].pc = p]
  BY DEF Settle
<1> HIDE DEF q
<1>2. calls'[c] = [calls[c] EXCEPT !.result = res, !.patch = q, !.pc = p] /\ Alone(c)
  BY <1>0, <1>1 DEF Alone
<1>3. From(c, "handler", p) /\ SameNode(c)
  BY <1>0, <1>2 DEF From, SameNode, Call
<1> QED
  BY <1>0, <1>2, <1>3 DEF Shape, Passes, InNode

LEMMA TimeOutShape == ASSUME IInv, NEW c \in Calls, TimeOut(c) PROVE Shape(c)
<1>0. /\ calls \in [Calls -> Call] /\ calls[c] \in Call
      /\ calls[c].pc = "handler" /\ UNCHANGED <<rows, timeline>>
  BY Typed DEF TimeOut, At
<1>1. /\ calls'[c] = [calls[c] EXCEPT !.result = "timeout", !.patch = {}, !.pc = "failed"]
      /\ Alone(c)
  BY <1>0 DEF TimeOut, Alone
<1>2. From(c, "handler", "failed") /\ SameNode(c)
  BY <1>0, <1>1 DEF From, SameNode, Call
<1> QED
  BY <1>0, <1>1, <1>2 DEF Shape, Passes, InNode

LEMMA FailedShape == ASSUME IInv, NEW c \in Calls, NodeFailed(c) PROVE Shape(c)
<1>0. /\ calls \in [Calls -> Call] /\ calls[c] \in Call
      /\ calls[c].pc = "failed" /\ UNCHANGED rows /\ Log(c, "NODE_FAILED")
  BY Typed DEF NodeFailed, At
<1>1. /\ Alone(c)
      /\ \/ calls'[c] = [calls[c] EXCEPT !.pc = "handler", !.attempt = calls[c].attempt + 1]
         \/ calls'[c] = [calls[c] EXCEPT !.pc = "apply"]
  BY <1>0 DEF NodeFailed, Alone
<1>2. SameNode(c) /\ (From(c, "failed", "handler") \/ From(c, "failed", "apply"))
  BY <1>0, <1>1 DEF From, SameNode, Call
<1> QED
  BY <1>0, <1>1, <1>2 DEF Shape, Logs

LEMMA WriteShape ==
  ASSUME IInv, NEW c \in Calls,
         NodeMissing(c) \/ ApplyError(c) \/ ApplyAmbiguous(c) \/ ApplyWait(c) \/ ApplyEnd(c)
  PROVE  Shape(c)
<1>0. rows[Run(c)] \in Row /\ UNCHANGED timeline
  BY Typed DEF NodeMissing, ApplyError, ApplyAmbiguous, ApplyWait, ApplyEnd, Abort, EndWith
<1>1. CASE NodeMissing(c)
  <2>1. /\ rows' = [rows EXCEPT ![Run(c)] = [rows[Run(c)] EXCEPT !.status = "FAILED"]]
        /\ calls' = [calls EXCEPT ![c].pc = "event", ![c].event = "RUN_ABORTED"]
        /\ calls[c].pc = "missing"
    BY <1>1 DEF NodeMissing, At
  <2>2. /\ Alone(c) /\ From(c, "missing", "event") /\ SameNode(c) /\ OwnRow(c)
        /\ calls'[c].event = "RUN_ABORTED"
        /\ rows'[calls[c].run] = [rows[Run(c)] EXCEPT !.status = "FAILED"]
    BY <2>1, EndShape
  <2>3. /\ rows'[calls[c].run].status = "FAILED"
        /\ rows'[calls[c].run].node = rows[calls[c].run].node
        /\ rows'[calls[c].run].outputs = rows[calls[c].run].outputs
    BY <1>0, <2>2 DEF Row, Run
  <2> QED
    BY <1>0, <2>2, <2>3 DEF Shape, Writes
<1>2. CASE ApplyError(c) \/ ApplyAmbiguous(c)
  <2> DEFINE y == [rows[Run(c)] EXCEPT !.status = "FAILED", !.node = Null]
  <2>1. /\ rows' = [rows EXCEPT ![Run(c)] = y]
        /\ calls' = [calls EXCEPT ![c].pc = "event", ![c].event = "RUN_ABORTED"]
        /\ calls[c].pc = "apply"
    BY <1>2 DEF ApplyError, ApplyAmbiguous, Abort, EndWith, At
  <2>2. y.status = "FAILED" /\ y.node = Null /\ y.outputs = rows[calls[c].run].outputs
    BY <1>0 DEF Row, Run
  <2> HIDE DEF y
  <2>3. /\ Alone(c) /\ From(c, "apply", "event") /\ SameNode(c) /\ OwnRow(c)
        /\ calls'[c].event = "RUN_ABORTED" /\ rows'[calls[c].run] = y
    BY <2>1, EndShape
  <2> QED
    BY <1>0, <2>2, <2>3 DEF Shape, Writes
<1>3. CASE ApplyWait(c)
  <2> DEFINE y == [status |-> "WAITING", node |-> calls[c].node,
                   state |-> DeepMerge(calls[c].state, calls[c].patch),
                   outputs |-> NewOutputs(c)]
  <2>1. /\ rows' = [rows EXCEPT ![Run(c)] = y]
        /\ calls' = [calls EXCEPT ![c].pc = "event", ![c].event = "RUN_WAITING"]
        /\ calls[c].pc = "apply"
    BY <1>3 DEF ApplyWait, EndWith, At
  <2>2. y.status = "WAITING" /\ y.node = calls[c].node /\ y.outputs = NewOutputs(c)
    OBVIOUS
  <2> HIDE DEF y
  <2>3. /\ Alone(c) /\ From(c, "apply", "event") /\ SameNode(c) /\ OwnRow(c)
        /\ calls'[c].event = "RUN_WAITING" /\ rows'[calls[c].run] = y
    BY <2>1, EndShape
  <2> QED
    BY <1>0, <2>2, <2>3 DEF Shape, Writes
<1>4. CASE ApplyEnd(c)
  <2> DEFINE y == [status |-> "COMPLETED", node |-> Null, state |-> NewState(c),
                   outputs |-> NewOutputs(c)]
  <2>1. /\ rows' = [rows EXCEPT ![Run(c)] = y]
        /\ calls' = [calls EXCEPT ![c].pc = "event", ![c].event = "RUN_COMPLETED"]
        /\ calls[c].pc = "apply"
    BY <1>4 DEF ApplyEnd, EndWith, At
  <2>2. y.status = "COMPLETED" /\ y.node = Null /\ y.outputs = NewOutputs(c)
    OBVIOUS
  <2> HIDE DEF y
  <2>3. /\ Alone(c) /\ From(c, "apply", "event") /\ SameNode(c) /\ OwnRow(c)
        /\ calls'[c].event = "RUN_COMPLETED" /\ rows'[calls[c].run] = y
    BY <2>1, EndShape
  <2> QED
    BY <1>0, <2>2, <2>3 DEF Shape, Writes
<1> QED
  BY <1>1, <1>2, <1>3, <1>4

LEMMA NextShape == ASSUME IInv, NEW c \in Calls, ApplyNext(c) PROVE Shape(c)
<1>0. rows[Run(c)] \in Row /\ UNCHANGED timeline /\ calls[c].pc = "apply" /\ "done" \in PCs
  BY Typed, Members DEF ApplyNext, At
<1>1. PICK e \in Outgoing(calls[c].node) :
        rows' = [rows EXCEPT ![Run(c)].node = e.to,
                             ![Run(c)].state = NewState(c),
                             ![Run(c)].outputs = NewOutputs(c)]
  BY DEF ApplyNext
<1> DEFINE y == [rows[Run(c)] EXCEPT !.node = e.to, !.state = NewState(c),
                                     !.outputs = NewOutputs(c)]
<1>2. rows' = [rows EXCEPT ![Run(c)] = y]
  BY <1>1, Typed
<1>3. y.status = rows[calls[c].run].status /\ y.node = e.to /\ y.outputs = NewOutputs(c)
  BY <1>0 DEF Row, Run
<1>4. e \in Edges /\ e.from = calls[c].node
  BY <1>1 DEF Outgoing
<1> HIDE DEF y
<1>5. OwnRow(c) /\ rows'[calls[c].run] = y
  BY <1>2, RowShape
<1>6. From(c, "apply", "done") /\ SameNode(c) /\ Alone(c)
  BY <1>0, GotoShape DEF ApplyNext
<1> QED
  BY <1>0, <1>3, <1>4, <1>5, <1>6 DEF Shape, Writes

LEMMA FailsShape == ASSUME IInv, NEW c \in Calls, StorageFails(c) PROVE Shape(c)
<1>1. CASE InTry(c)
  <2>1. Thrown(c) /\ UNCHANGED <<rows, timeline>> /\ calls[c].pc \in InNode
    BY <1>1 DEF StorageFails, InTry, At, InNode
  <2> QED
    BY <2>1, ThrownShape DEF Shape, Passes, InNode
<1>2. CASE ~InTry(c)
  BY <1>2, QuitShape DEF StorageFails, Reject
<1> QED
  BY <1>1, <1>2

LEMMA KeyFailsShape == ASSUME IInv, NEW c \in Calls, KeyFails(c) PROVE Shape(c)
<1>1. CASE At(c, "check") /\ Back(c)
  BY <1>1, QuitShape DEF KeyFails, At
<1>2. CASE At(c, "store") /\ Thrown(c)
  BY <1>2, ThrownShape DEF KeyFails, Shape, Passes, InNode, At
<1> QED
  BY <1>1, <1>2 DEF KeyFails, Reject

LEMMA StepShape ==
  ASSUME IInv, Next PROVE (\E c \in Calls : Shape(c)) \/ (\E h \in Hosts : Crash(h))
<1>1. ASSUME NEW c \in Calls, Announce(c) \/ Begin(c) \/ Finish(c) \/ LogRunEvent(c)
      PROVE  Shape(c)
  <2>1. {"point", "check", "apply", "done"} \subseteq PCs
    BY DEF PCs, SectionPCs
  <2>2. CASE Announce(c)
    BY <2>1, <2>2, GotoShape DEF Announce, At, Shape, Logs
  <2>3. CASE Begin(c)
    BY <2>1, <2>3, GotoShape DEF Begin, At, Shape, Logs
  <2>4. CASE Finish(c)
    BY <2>1, <2>4, GotoShape DEF Finish, At, Shape, Logs
  <2>5. CASE LogRunEvent(c)
    BY <2>1, <2>5, GotoShape DEF LogRunEvent, At, Shape, Logs
  <2> QED
    BY <1>1, <2>2, <2>3, <2>4, <2>5
<1>2. ASSUME NEW c \in Calls, Enter(c) PROVE Shape(c)
  <2> DEFINE p == IF calls[c].op = "resume" THEN "read" ELSE "load"
  <2>1. p \in PCs /\ Goto(c, p) /\ calls[c].pc = "lock" /\ UNCHANGED <<rows, timeline>>
    BY <1>2 DEF Enter, At, PCs, SectionPCs
  <2>2. Alone(c) /\ From(c, "lock", p)
    BY <2>1, GotoShape
  <2> QED
    BY <2>1, <2>2 DEF Shape, Passes
<1>3. ASSUME NEW c \in Calls, Store(c) PROVE Shape(c)
  <2>1. "finish" \in PCs
    BY Members
  <2> QED
    BY <1>3, <2>1, GotoShape DEF Store, At, Shape, Passes, InNode
<1>4. ASSUME NEW c \in Calls, Busy(c) \/ Inherit(c) \/ Leave(c) \/ UnknownFlow(c)
      PROVE  Shape(c)
  BY <1>4, QuitShape DEF Busy, Inherit, Leave, UnknownFlow, Reject, At
<1>5. ASSUME NEW c \in Calls, TickStep(c) PROVE Shape(c)
  BY <1>1, <1>3, <1>4, <1>5, ReadShape, WakeShape, LoadShape, CheckShape, SettleShape,
     TimeOutShape, FailedShape, WriteShape, NextShape, KeyFailsShape DEF TickStep
<1> QED
  BY <1>1, <1>2, <1>4, <1>5, StartShape, AskShape, PointShape, FailsShape DEF Next, StartStep
--------------------------------------------------------------------------------
(* Where a run is when somebody works on it.  A client asks for a tick or  *)
(* resume when startRun is over, and startRun is not called again: so only *)
(* recovery works on a run that is still being started, and that one is    *)
(* remembered as early.                                                    *)
InRun(x) == x.pc = "lock" \/ x.pc \in SectionPCs

PlaceInv ==
  /\ \A c \in Calls : calls[c].pc # "idle" => rows[calls[c].run].status # "ABSENT"
  /\ \A c \in Calls : InRun(calls[c]) /\ Starting(calls[c].run) =>
                        calls[c].op # "resume" /\ calls[c].run \in early
  /\ \A c \in Calls : calls[c].pc = "read" => calls[c].op = "resume"
  /\ \A c \in Calls : calls[c].pc = "event" =>
       calls[c].event \in TerminalEvents \cup {"RUN_WAITING"}
  /\ \A r \in Runs : rows[r].status = "WAITING" => rows[r].node \in Nodes

LEMMA TypedCalls ==
  ASSUME IInv
  PROVE  \A c \in Calls : calls[c] \in Call /\ calls[c].run \in Runs /\ calls[c].node \in Nodes
BY DEF IInv, TypeOK, Call

(* A call that works on a run whose row is written is the one that writes. *)
LEMMA OneWriter ==
  ASSUME IInv, NEW c \in Calls, NEW d \in Calls, calls[c].pc \in SectionPCs,
         calls[d].pc \in SectionPCs, calls[c].run = calls[d].run
  PROVE  c = d
BY DEF IInv, OneAtATime, Inside, Run

(* A run is being started only from its first row on.                      *)
LEMMA StartingStep ==
  ASSUME IInv, NEW c \in Calls, Shape(c), NEW r \in Runs, Starting(r)'
  PROVE  \/ Starting(r)
         \/ Starts(c) /\ calls'[c].run = r /\ rows[r].status = "ABSENT"
<1>1. PICK d \in Calls : calls'[d].pc \in {"announce", "point"} /\ calls'[d].run = r
  BY DEF Starting, Run
<1>2. CASE d # c
  BY <1>1, <1>2 DEF Shape, Alone, Starting, Run
<1>3. CASE d = c
  <2>1. CASE Starts(c)
    BY <1>1, <1>3, <2>1 DEF Starts
  <2>2. CASE Logs(c)
    BY <1>1, <1>3, <2>2 DEF Logs, From, Starting, Run
  <2>3. CASE Points(c) \/ Asks(c) \/ Quits(c) \/ Passes(c) \/ Writes(c)
    BY <1>1, <1>3, <2>3 DEF Points, Asks, Quits, Passes, Writes, From, InNode
  <2> QED
    BY <2>1, <2>2, <2>3 DEF Shape
<1> QED
  BY <1>2, <1>3

(* The status of a row, over any step.                                     *)
LEMMA StatusStep ==
  ASSUME IInv, PlaceInv, NEW c \in Calls, Shape(c), NEW r \in Runs
  PROVE  /\ rows[r].status # "ABSENT" => rows'[r].status # "ABSENT"
         /\ \/ rows'[r] = rows[r]
            \/ rows[r].status = "ABSENT" /\ Starts(c) /\ calls'[c].run = r
                 /\ rows'[r].status = "RUNNING"
            \/ r = calls[c].run /\ (Points(c) \/ Writes(c))
<1>1. CASE Starts(c)
  BY <1>1 DEF Starts
<1>2. CASE Points(c)
  BY <1>2, TypedCalls DEF Points, OwnRow
<1>3. CASE Asks(c) \/ Quits(c) \/ Passes(c) \/ Logs(c)
  BY <1>3 DEF Asks, Quits, Passes, Logs
<1>4. CASE Writes(c)
  <2>1. rows[calls[c].run].status # "ABSENT"
    BY <1>4 DEF Writes, From, PlaceInv
  <2> QED
    BY <1>4, <2>1 DEF Writes, OwnRow
<1> QED
  BY <1>1, <1>2, <1>3, <1>4 DEF Shape

LEMMA PlaceStep ==
  ASSUME IInv, IInv', PlaceInv, early \subseteq early', NEW c \in Calls, Shape(c)
  PROVE  PlaceInv'
<1>0. calls[c].run \in Runs /\ calls[c].node \in Nodes /\ Entry \in Nodes
  BY TypedCalls, ConfigAssumption
<1>1. ASSUME NEW d \in Calls, calls'[d].pc # "idle" PROVE rows'[calls'[d].run].status # "ABSENT"
  <2>1. CASE d # c
    BY <1>1, <2>1, StatusStep, TypedCalls DEF Shape, Alone, PlaceInv
  <2>2. CASE d = c
    <3>1. CASE Starts(c)
      BY <2>2, <3>1 DEF Starts
    <3>2. CASE Asks(c)
      BY <2>2, <3>2 DEF Asks
    <3>3. CASE Points(c) \/ Quits(c)
      BY <1>1, <2>2, <3>3 DEF Points, Quits
    <3>4. CASE Passes(c) \/ Logs(c) \/ Writes(c)
      <4>1. calls'[c].run = calls[c].run /\ calls[c].pc # "idle"
        BY <3>4 DEF Passes, Logs, Writes, From, InNode
      <4> QED
        BY <1>0, <2>2, <4>1, StatusStep DEF PlaceInv
    <3> QED
      BY <3>1, <3>2, <3>3, <3>4 DEF Shape
  <2> QED
    BY <2>1, <2>2
<1>2. ASSUME NEW d \in Calls, InRun(calls'[d]),
             NEW s \in Runs, calls'[d].run = s, Starting(s)'
      PROVE  calls'[d].op # "resume" /\ s \in early'
  <2>0. calls'[d].pc # "idle" /\ calls'[d].pc \notin {"announce", "point"}
    BY <1>2 DEF InRun, SectionPCs
  <2>1. CASE calls'[d] = calls[d] \/ (d = c /\ (Passes(c) \/ Writes(c) \/ Logs(c)))
    <3>1. /\ calls'[d].run = calls[d].run /\ calls'[d].op = calls[d].op
          /\ InRun(calls[d])
      BY <1>2, <2>0, <2>1 DEF Passes, Writes, Logs, From, InNode, InRun, SectionPCs
    <3>2. rows[calls[d].run].status # "ABSENT"
      BY <3>1 DEF PlaceInv, InRun, SectionPCs
    <3>3. Starting(s)
      BY <1>2, <3>1, <3>2, StartingStep
    <3> QED
      BY <1>2, <3>1, <3>3 DEF PlaceInv
  <2>2. CASE d = c /\ Asks(c)
    <3>1. /\ rows[s].status # "ABSENT"
          /\ Starting(s) => calls'[c].op = "tick" /\ s \in early'
      BY <1>2, <2>2 DEF Asks
    <3> QED
      BY <1>2, <2>2, <3>1, StartingStep
  <2>3. CASE d = c /\ (Starts(c) \/ Points(c) \/ Quits(c))
    BY <2>0, <2>3 DEF Starts, Points, Quits
  <2> QED
    BY <2>1, <2>2, <2>3 DEF Shape, Alone
<1>3. ASSUME NEW d \in Calls, calls'[d].pc = "read" PROVE calls'[d].op = "resume"
  <2>1. CASE d # c
    BY <1>3, <2>1 DEF Shape, Alone, PlaceInv
  <2>2. CASE d = c
    <3>1. Passes(c) /\ From(c, "lock", "read") /\ calls[c].op = "resume"
      BY <1>3, <2>2 DEF Shape, Starts, Points, Asks, Quits, Passes, Logs, Writes, From, InNode
    <3> QED
      BY <2>2, <3>1 DEF From
  <2> QED
    BY <2>1, <2>2
<1>4. ASSUME NEW r \in Runs, rows'[r].status = "WAITING" PROVE rows'[r].node \in Nodes
  <2>1. CASE rows'[r] = rows[r]
    BY <1>4, <2>1 DEF PlaceInv
  <2>2. CASE r = calls[c].run /\ Points(c)
    BY <1>0, <2>2 DEF Points
  <2>3. CASE r = calls[c].run /\ Writes(c)
    BY <1>0, <1>4, <2>3, ConfigAssumption DEF Writes, PlaceInv
  <2> QED
    BY <1>4, <2>1, <2>2, <2>3, StatusStep
<1>6. ASSUME NEW d \in Calls, calls'[d].pc = "event"
      PROVE  calls'[d].event \in TerminalEvents \cup {"RUN_WAITING"}
  <2>1. CASE d # c
    BY <1>6, <2>1 DEF Shape, Alone, PlaceInv
  <2>2. CASE d = c
    BY <1>6, <2>2 DEF Shape, Starts, Points, Asks, Quits, Passes, Logs, Writes, From,
                      InNode, TerminalEvents
  <2> QED
    BY <2>1, <2>2
<1>5. \A d \in Calls : calls'[d].run \in Runs
  BY DEF IInv, TypeOK, Call
<1> QED
  BY <1>1, <1>2, <1>3, <1>4, <1>5, <1>6 DEF PlaceInv

(* A crash takes calls away and leaves the tables.                         *)
LEMMA CrashShape ==
  ASSUME IInv, NEW h \in Hosts, Crash(h)
  PROVE  /\ \A c \in Calls : \/ calls'[c] = calls[c]
                             \/ calls'[c].pc = "idle" /\ calls'[c].run = calls[c].run
         /\ UNCHANGED <<rows, timeline, early>> /\ crashes' = crashes + 1
BY DEF Crash, IdleCall, Run

LEMMA PlaceInvariant ==
  /\ Init => PlaceInv
  /\ IInv /\ PlaceInv /\ [Next]_vars => PlaceInv'
<1>1. ASSUME Init PROVE PlaceInv
  BY <1>1 DEF Init, IdleCall, PlaceInv, InRun, SectionPCs
<1>2. ASSUME IInv, PlaceInv, NEW h \in Hosts, Crash(h) PROVE PlaceInv'
  BY <1>2, CrashShape DEF PlaceInv, InRun, SectionPCs, Starting, Run
<1>3. ASSUME PlaceInv, UNCHANGED vars PROVE PlaceInv'
  BY <1>3 DEF vars, PlaceInv, Starting, Run
<1> QED
  BY <1>1, <1>2, <1>3, StepShape, PlaceStep, Inductive, RunSets
--------------------------------------------------------------------------------
(* Where nothing has crashed or failed, nothing had before, and the step   *)
(* is one of a call.                                                       *)
LEMMA CleanStep ==
  ASSUME IInv, [Next]_vars, Clean'
  PROVE  Clean /\ faults' # faults + 1 /\ (UNCHANGED vars \/ \E c \in Calls : Shape(c))
<1>1. /\ crashes \in Nat /\ faults \in Nat
      /\ crashes' \in {crashes, crashes + 1} /\ faults' \in {faults, faults + 1}
  BY RecordStep DEF IInv, TypeOK
<1>2. Clean /\ crashes' # crashes + 1 /\ faults' # faults + 1
  BY <1>1 DEF Clean
<1>3. ASSUME NEW h \in Hosts, Crash(h) PROVE FALSE
  BY <1>2, <1>3, CrashShape
<1> QED
  BY <1>2, <1>3, StepShape

LEMMA LogStep ==
  ASSUME IInv, NEW c \in Calls, NEW e, Log(c, e), NEW r \in Runs
  PROVE  /\ r = calls[c].run => timeline'[r] = Append(timeline[r], e)
         /\ r # calls[c].run => timeline'[r] = timeline[r]
         /\ timeline[r] \in Seq(EventTypes)
BY DEF IInv, TypeOK, Log, Run
--------------------------------------------------------------------------------
(* The executions of nodes in a timeline: none begins while one is open.   *)
Closers == {"NODE_FINISHED", "NODE_FAILED"}

Closed(s) == \A i \in DOMAIN s : s[i] = "NODE_STARTED" =>
               \E k \in i .. Len(s) : s[k] \in Closers

InTurn(s) == \A i, j \in DOMAIN s :
  i < j /\ s[i] = "NODE_STARTED" /\ s[j] = "NODE_STARTED" => \E k \in i .. j : s[k] \in Closers

LEMMA Appended ==
  ASSUME NEW s \in Seq(EventTypes), NEW e \in EventTypes
  PROVE  /\ Append(s, e) \in Seq(EventTypes)
         /\ Len(s) \in Nat /\ DOMAIN s = 1 .. Len(s)
         /\ Len(Append(s, e)) = Len(s) + 1
         /\ DOMAIN Append(s, e) = 1 .. Len(s) + 1
         /\ \A i \in 1 .. Len(s) : Append(s, e)[i] = s[i]
         /\ Append(s, e)[Len(s) + 1] = e
OBVIOUS

LEMMA ClosedAppend ==
  ASSUME NEW s \in Seq(EventTypes), NEW e \in EventTypes, e # "NODE_STARTED",
         Closed(s) \/ e \in Closers
  PROVE  Closed(Append(s, e))
<1> DEFINE t == Append(s, e)
           n == Len(s)
<1>1. /\ n \in Nat /\ DOMAIN s = 1 .. n /\ Len(t) = n + 1 /\ DOMAIN t = 1 .. n + 1
      /\ \A i \in 1 .. n : t[i] = s[i]
      /\ t[n + 1] = e
  BY Appended
<1> HIDE DEF t, n
<1> SUFFICES ASSUME NEW i \in 1 .. n + 1, t[i] = "NODE_STARTED"
             PROVE  \E k \in i .. n + 1 : t[k] \in Closers
  BY <1>1 DEF Closed, t
<1>2. CASE e \in Closers
  BY <1>1, <1>2
<1>3. CASE Closed(s)
  <2>1. i \in 1 .. n
    BY <1>1
  <2>2. PICK k \in i .. n : s[k] \in Closers
    BY <1>1, <1>3, <2>1 DEF Closed, n
  <2> QED
    BY <1>1, <2>1, <2>2
<1> QED
  BY <1>2, <1>3

LEMMA InTurnAppend ==
  ASSUME NEW s \in Seq(EventTypes), NEW e \in EventTypes, InTurn(s),
         e = "NODE_STARTED" => Closed(s)
  PROVE  InTurn(Append(s, e))
<1> DEFINE t == Append(s, e)
           n == Len(s)
<1>1. /\ n \in Nat /\ DOMAIN s = 1 .. n /\ DOMAIN t = 1 .. n + 1
      /\ \A i \in 1 .. n : t[i] = s[i]
      /\ t[n + 1] = e
  BY Appended
<1> HIDE DEF t, n
<1> SUFFICES ASSUME NEW i \in 1 .. n + 1, NEW j \in 1 .. n + 1, i < j,
                    t[i] = "NODE_STARTED", t[j] = "NODE_STARTED"
             PROVE  \E k \in i .. j : t[k] \in Closers
  BY <1>1 DEF InTurn, t
<1>2. i \in 1 .. n /\ s[i] = "NODE_STARTED"
  BY <1>1
<1>3. CASE j \in 1 .. n
  <2>1. PICK k \in i .. j : s[k] \in Closers
    BY <1>1, <1>2, <1>3 DEF InTurn
  <2> QED
    BY <1>1, <1>2, <1>3, <2>1
<1>4. CASE j = n + 1
  <2>1. PICK k \in i .. n : s[k] \in Closers
    BY <1>1, <1>2, <1>4 DEF Closed, n
  <2> QED
    BY <1>1, <1>2, <1>4, <2>1
<1> QED
  BY <1>1, <1>3, <1>4

(* An execution is open only while its call is in the node.                *)
NobodyIn(r) == \A c \in Calls : calls[c].run = r => calls[c].pc \notin InNode

BracketInv == Clean => \A r \in Runs : /\ InTurn(timeline[r])
                                       /\ NobodyIn(r) => Closed(timeline[r])

LEMMA BracketStep ==
  ASSUME IInv, PlaceInv, BracketInv, [Next]_vars, KeyThrows = {} PROVE BracketInv'
<1> SUFFICES ASSUME Clean', NEW r \in Runs
             PROVE  InTurn(timeline'[r]) /\ (NobodyIn(r)' => Closed(timeline'[r]))
  BY DEF BracketInv
<1>0. /\ InTurn(timeline[r])
      /\ NobodyIn(r) => Closed(timeline[r])
  BY CleanStep DEF BracketInv
<1>1. CASE UNCHANGED vars
  BY <1>0, <1>1 DEF vars, NobodyIn
<1>2. ASSUME NEW c \in Calls, Shape(c)
      PROVE  InTurn(timeline'[r]) /\ (NobodyIn(r)' => Closed(timeline'[r]))
  <2>1. CASE UNCHANGED timeline
    <3>1. calls[c].pc \in InNode => calls'[c].pc \in InNode /\ calls'[c].run = calls[c].run
      <4>1. CASE Starts(c) \/ Points(c) \/ Asks(c) \/ Writes(c)
        BY <4>1 DEF Starts, Points, Asks, Writes, From, InNode
      <4>2. CASE Quits(c)
        BY <4>2, CleanStep DEF Quits, InNode
      <4>3. CASE Passes(c)
        BY <4>3 DEF Passes, From, InNode
      <4>4. CASE Logs(c)
        <5>1. PICK e : Log(c, e)
          BY <4>4 DEF Logs
        <5>2. calls[c].run \in Runs /\ timeline[calls[c].run] \in Seq(EventTypes)
          BY TypedCalls, LogStep, <5>1
        <5>3. timeline'[calls[c].run] = Append(timeline[calls[c].run], e)
          BY <5>1, <5>2, LogStep
        <5> QED
          BY <2>1, <5>2, <5>3
      <4> QED
        BY <1>2, <4>1, <4>2, <4>3, <4>4 DEF Shape
    <3>2. NobodyIn(r)' => NobodyIn(r)
      BY <1>2, <3>1 DEF NobodyIn, Shape, Alone
    <3> QED
      BY <1>0, <2>1, <3>2
  <2>2. ASSUME NEW e \in EventTypes, Log(c, e), From(c, calls[c].pc, calls'[c].pc),
               e = "NODE_STARTED" => calls[c].pc = "begin" /\ calls'[c].pc = "check",
               e \in Closers \cup {"NODE_STARTED"} \/ calls[c].pc \notin InNode
        PROVE  InTurn(timeline'[r]) /\ (NobodyIn(r)' => Closed(timeline'[r]))
    <3>1. CASE r # calls[c].run
      <4>1. timeline'[r] = timeline[r]
        BY <2>2, <3>1, LogStep
      <4>2. NobodyIn(r)' => NobodyIn(r)
        BY <1>2, <2>2, <3>1 DEF NobodyIn, Shape, Alone, From
      <4> QED
        BY <1>0, <4>1, <4>2
    <3>2. CASE r = calls[c].run
      <4>1. timeline'[r] = Append(timeline[r], e) /\ timeline[r] \in Seq(EventTypes)
        BY <2>2, <3>2, LogStep
      <4>2. e = "NODE_STARTED" => Closed(timeline[r])
        <5>1. ASSUME calls[c].pc = "begin" PROVE NobodyIn(r)
          <6>1. ASSUME NEW d \in Calls, calls[d].run = r, calls[d].pc \in InNode PROVE FALSE
            <7>1. d = c
              BY <3>2, <5>1, <6>1, OneWriter DEF SectionPCs, InNode
            <7> QED
              BY <5>1, <6>1, <7>1 DEF InNode
          <6> QED
            BY <6>1 DEF NobodyIn
        <5> QED
          BY <1>0, <2>2, <5>1
      <4>3. InTurn(timeline'[r])
        BY <1>0, <4>1, <4>2, InTurnAppend
      <4>4. ASSUME NobodyIn(r)' PROVE Closed(timeline'[r])
        <5>1. calls'[c].pc \notin InNode
          BY <2>2, <3>2, <4>4 DEF NobodyIn, From
        <5>2. e # "NODE_STARTED"
          BY <2>2, <5>1 DEF InNode
        <5>3. CASE e \in Closers
          BY <4>1, <5>2, <5>3, ClosedAppend
        <5>4. CASE calls[c].pc \notin InNode
          <6>1. NobodyIn(r)
            BY <1>2, <4>4, <5>4 DEF NobodyIn, Shape, Alone
          <6> QED
            BY <1>0, <4>1, <5>2, <6>1, ClosedAppend
        <5> QED
          BY <2>2, <5>2, <5>3, <5>4
      <4> QED
        BY <4>3, <4>4
    <3> QED
      BY <3>1, <3>2
  <2>3. CASE Logs(c)
    <3>1. calls[c].pc = "event" => /\ calls[c].event \in EventTypes
                                   /\ calls[c].event # "NODE_STARTED"
      BY DEF PlaceInv, TerminalEvents, EventTypes
    <3>2. \E e \in EventTypes :
            /\ Log(c, e) /\ From(c, calls[c].pc, calls'[c].pc)
            /\ e = "NODE_STARTED" => calls[c].pc = "begin" /\ calls'[c].pc = "check"
            /\ e \in Closers \cup {"NODE_STARTED"} \/ calls[c].pc \notin InNode
      <4>1. CASE From(c, "event", "done") /\ Log(c, calls[c].event)
        BY <3>1, <4>1 DEF From, InNode
      <4>2. CASE From(c, "announce", "point") /\ Log(c, "RUN_STARTED")
        BY <4>2 DEF From, InNode, EventTypes
      <4>3. CASE From(c, "begin", "check") /\ Log(c, "NODE_STARTED")
        BY <4>3 DEF From, EventTypes
      <4>4. CASE From(c, "finish", "apply") /\ Log(c, "NODE_FINISHED")
        BY <4>4 DEF From, Closers, EventTypes
      <4>5. CASE /\ From(c, "failed", "handler") \/ From(c, "failed", "apply")
                 /\ Log(c, "NODE_FAILED")
        BY <4>5 DEF From, Closers, EventTypes
      <4> QED
        BY <2>3, <4>1, <4>2, <4>3, <4>4, <4>5 DEF Logs
    <3> QED
      BY <2>2, <3>2
  <2> QED
    BY <1>2, <2>1, <2>3 DEF Shape, Starts, Points, Asks, Quits, Passes, Writes
<1> QED
  BY <1>1, <1>2, CleanStep
--------------------------------------------------------------------------------
(* How a run ended is in its timeline once, or owed by one call, or a node *)
(* that the definition lost took the run with it.                          *)
NoEnd(s) == \A i \in DOMAIN s : s[i] \notin TerminalEvents
OneEnd(s) == \E i \in DOMAIN s : \A j \in DOMAIN s : s[j] \in TerminalEvents <=> j = i

LEMMA EndAppend ==
  ASSUME NEW s \in Seq(EventTypes), NEW e \in EventTypes
  PROVE  /\ NoEnd(s) /\ e \notin TerminalEvents => NoEnd(Append(s, e))
         /\ OneEnd(s) /\ e \notin TerminalEvents => OneEnd(Append(s, e))
         /\ NoEnd(s) /\ e \in TerminalEvents => OneEnd(Append(s, e))
<1> DEFINE t == Append(s, e)
           n == Len(s)
<1>1. /\ n \in Nat /\ DOMAIN s = 1 .. n /\ DOMAIN t = 1 .. n + 1
      /\ \A i \in 1 .. n : t[i] = s[i]
      /\ t[n + 1] = e
  BY Appended
<1> HIDE DEF t, n
<1>2. ASSUME NoEnd(s), e \notin TerminalEvents PROVE NoEnd(t)
  BY <1>1, <1>2 DEF NoEnd
<1>3. ASSUME OneEnd(s), e \notin TerminalEvents PROVE OneEnd(t)
  <2>1. PICK i \in DOMAIN s : \A j \in DOMAIN s : s[j] \in TerminalEvents <=> j = i
    BY <1>3 DEF OneEnd
  <2>2. i \in DOMAIN t
    BY <1>1, <2>1
  <2>3. ASSUME NEW j \in DOMAIN t PROVE t[j] \in TerminalEvents <=> j = i
    BY <1>1, <1>3, <2>1, <2>3
  <2> QED
    BY <2>2, <2>3 DEF OneEnd
<1>4. ASSUME NoEnd(s), e \in TerminalEvents PROVE OneEnd(t)
  <2>1. n + 1 \in DOMAIN t
    BY <1>1
  <2>2. ASSUME NEW j \in DOMAIN t PROVE t[j] \in TerminalEvents <=> j = n + 1
    BY <1>1, <1>4, <2>2 DEF NoEnd
  <2> QED
    BY <2>1, <2>2 DEF OneEnd
<1> QED
  BY <1>2, <1>3, <1>4 DEF t

Owing(c, r) == calls[c].pc = "event" /\ calls[c].run = r
NobodyOwes(r) == \A c \in Calls : ~Owing(c, r)
OneOwes(r) == \E c \in Calls : \A d \in Calls : Owing(d, r) <=> d = c

Told(r) ==
  \/ OneEnd(timeline[r]) /\ NobodyOwes(r)
  \/ NoEnd(timeline[r]) /\ OneOwes(r)
  \/ /\ NoEnd(timeline[r]) /\ NobodyOwes(r)
     /\ rows[r].node \in Nodes \ Defined /\ ~Starting(r)

Ended(r) == rows[r].status \in Terminal

LogInv == Clean =>
  /\ \A c \in Calls : calls[c].pc = "event" =>
       (calls[c].event \in TerminalEvents <=> Ended(calls[c].run))
  /\ \A r \in Runs : IF Ended(r) THEN Told(r) ELSE NoEnd(timeline[r])

(* Who owes an event, after a step of c in which nothing fails.            *)
LEMMA OwingStep ==
  ASSUME IInv, NEW c \in Calls, Shape(c), faults' # faults + 1, NEW r \in Runs
  PROVE  \/ \A d \in Calls : Owing(d, r)' <=> Owing(d, r)
         \/ r = calls[c].run /\ Logs(c) /\ From(c, "event", "done")
         \/ r = calls[c].run /\ Writes(c) /\ calls'[c].pc = "event"
<1>1. \A d \in Calls \ {c} : Owing(d, r)' <=> Owing(d, r)
  BY DEF Shape, Alone, Owing
<1>2. CASE Owing(c, r) /\ ~Owing(c, r)'
  BY <1>2 DEF Owing, Shape, Starts, Points, Asks, Quits, Passes, Logs, Writes, From, InNode
<1>3. CASE ~Owing(c, r) /\ Owing(c, r)'
  BY <1>3 DEF Owing, Shape, Starts, Points, Asks, Quits, Passes, Logs, Writes, From, InNode
<1> QED
  BY <1>1, <1>2, <1>3

(* What a step of c adds to a timeline.                                    *)
LEMMA AddedStep ==
  ASSUME IInv, NEW c \in Calls, Shape(c), NEW r \in Runs
  PROVE  \/ timeline'[r] = timeline[r]
         \/ /\ r = calls[c].run /\ Logs(c) /\ timeline[r] \in Seq(EventTypes)
            /\ \/ \E e \in EventTypes \ TerminalEvents : timeline'[r] = Append(timeline[r], e)
               \/ /\ From(c, "event", "done") /\ calls[c].event \in EventTypes
                  /\ timeline'[r] = Append(timeline[r], calls[c].event)
<1>1. CASE UNCHANGED timeline
  BY <1>1
<1>2. ASSUME NEW e \in EventTypes \ TerminalEvents, Log(c, e), Logs(c)
      PROVE  \/ timeline'[r] = timeline[r]
             \/ /\ r = calls[c].run /\ timeline[r] \in Seq(EventTypes)
                /\ timeline'[r] = Append(timeline[r], e)
  BY <1>2, LogStep
<1>3. CASE Logs(c) /\ From(c, "event", "done") /\ Log(c, calls[c].event)
  <2>1. calls[c].event \in EventTypes
    BY Typed DEF Call
  <2> QED
    BY <1>3, <2>1, LogStep
<1>4. CASE Logs(c)
  <2>1. {"RUN_STARTED", "NODE_STARTED", "NODE_FINISHED", "NODE_FAILED"}
          \subseteq EventTypes \ TerminalEvents
    BY DEF EventTypes, TerminalEvents
  <2>2. \/ \E e \in EventTypes \ TerminalEvents : Log(c, e)
        \/ From(c, "event", "done") /\ Log(c, calls[c].event)
    BY <1>4, <2>1 DEF Logs
  <2> QED
    BY <1>2, <1>3, <1>4, <2>2
<1> QED
  BY <1>1, <1>4 DEF Shape, Starts, Points, Asks, Quits, Passes, Writes

(* A write of a section finds the run not ended and nobody owing.          *)
LEMMA WriterFinds ==
  ASSUME IInv, NEW c \in Calls, Writes(c), NEW r \in Runs, r = calls[c].run
  PROVE  /\ ~Ended(r) /\ NobodyOwes(r)
         /\ \A d \in Calls : calls[d].pc = "event" => calls[d].run # r
<1>1. calls[c].pc \in SectionPCs \ {"event"}
  BY DEF Writes, From, SectionPCs
<1>2. ~Ended(r)
  BY DEF IInv, SnapshotFresh, Writes, From, Executing, Ended, Terminal, Run
<1>3. ASSUME NEW d \in Calls, calls[d].pc = "event", calls[d].run = r PROVE FALSE
  <2>1. c = d
    BY <1>1, <1>3, OneWriter DEF SectionPCs
  <2> QED
    BY <1>1, <1>3, <2>1
<1> QED
  BY <1>2, <1>3 DEF NobodyOwes, Owing

LEMMA LogInvStep ==
  ASSUME IInv, PlaceInv, LogInv, [Next]_vars PROVE LogInv'
<1> SUFFICES ASSUME Clean'
             PROVE  /\ \A d \in Calls : calls'[d].pc = "event" =>
                         (calls'[d].event \in TerminalEvents
                            <=> rows'[calls'[d].run].status \in Terminal)
                    /\ \A r \in Runs : IF Ended(r)' THEN Told(r)' ELSE NoEnd(timeline'[r])
  BY DEF LogInv, Ended
<1>0. /\ \A d \in Calls : calls[d].pc = "event" =>
           (calls[d].event \in TerminalEvents <=> Ended(calls[d].run))
      /\ \A r \in Runs : IF Ended(r) THEN Told(r) ELSE NoEnd(timeline[r])
      /\ faults' # faults + 1
  BY CleanStep DEF LogInv
<1>1. CASE UNCHANGED vars
  BY <1>0, <1>1 DEF vars, Ended, Told, NobodyOwes, OneOwes, Owing, Starting, Run
<1>2. ASSUME NEW c \in Calls, Shape(c), NEW d \in Calls, calls'[d].pc = "event"
      PROVE  calls'[d].event \in TerminalEvents <=> rows'[calls'[d].run].status \in Terminal
  <2>1. CASE d = c
    <3>1. Writes(c)
      BY <1>2, <2>1 DEF Shape, Starts, Points, Asks, Quits, Passes, Logs, From, InNode
    <3> QED
      BY <1>2, <2>1, <3>1 DEF Writes, From, Terminal, TerminalEvents
  <2>2. CASE d # c
    <3>1. calls'[d] = calls[d] /\ calls[d].run \in Runs
      BY <1>2, <2>2, TypedCalls DEF Shape, Alone
    <3>2. rows'[calls[d].run].status = rows[calls[d].run].status
      <4>1. rows[calls[d].run].status # "ABSENT"
        BY <1>2, <3>1 DEF PlaceInv
      <4>2. ~(Writes(c) /\ calls[d].run = calls[c].run)
        BY <1>2, <3>1, WriterFinds
      <4> QED
        BY <1>2, <3>1, <4>1, <4>2, StatusStep DEF Points
    <3> QED
      BY <1>0, <1>2, <3>1, <3>2 DEF Ended
  <2> QED
    BY <2>1, <2>2
<1>3. ASSUME NEW c \in Calls, Shape(c), NEW r \in Runs
      PROVE  IF Ended(r)' THEN Told(r)' ELSE NoEnd(timeline'[r])
  <2>1. CASE r = calls[c].run /\ Writes(c)
    <3>1. ~Ended(r) /\ NoEnd(timeline'[r]) /\ NobodyOwes(r)
      BY <1>0, <2>1, WriterFinds DEF Writes
    <3>2. CASE From(c, "read", "done")
      <4>1. /\ rows'[r].node = rows[r].node /\ rows[r].status = "WAITING"
            /\ rows[r].node \notin Defined
        BY <2>1, <3>2 DEF Writes, From
      <4>2. rows'[r].node \in Nodes \ Defined
        BY <4>1 DEF PlaceInv
      <4>3. ~Starting(r)'
        <5>1. InRun(calls[c]) /\ calls[c].op = "resume"
          BY <3>2 DEF From, PlaceInv, InRun, SectionPCs
        <5>2. ~Starting(r)
          BY <2>1, <5>1 DEF PlaceInv
        <5> QED
          BY <1>3, <3>2, <5>2, StartingStep DEF Starts, From
      <4>4. NobodyOwes(r)'
        <5>1. calls'[c].pc # "event"
          BY <3>2 DEF From
        <5> QED
          BY <1>3, <3>1, <5>1 DEF NobodyOwes, Owing, Shape, Alone
      <4> QED
        BY <3>1, <4>2, <4>3, <4>4 DEF Told
    <3>3. CASE From(c, "missing", "event") \/ From(c, "apply", "event")
      <4>1. Owing(c, r)'
        BY <2>1, <3>3 DEF From, Owing
      <4>2. \A d \in Calls : Owing(d, r)' <=> d = c
        BY <1>3, <3>1, <4>1 DEF NobodyOwes, Owing, Shape, Alone
      <4>3. OneOwes(r)'
        BY <4>2 DEF OneOwes
      <4> QED
        BY <3>1, <4>3 DEF Told
    <3>4. CASE From(c, "wake", "load") \/ From(c, "apply", "done")
      <4>1. ~Ended(r)'
        BY <2>1, <3>1, <3>4 DEF Writes, From, Ended, Terminal
      <4> QED
        BY <3>1, <4>1
    <3> QED
      BY <2>1, <3>2, <3>3, <3>4 DEF Writes
  <2>2. CASE r = calls[c].run /\ Logs(c) /\ From(c, "event", "done")
    <3>1. UNCHANGED rows /\ Owing(c, r) /\ calls'[c].pc # "event"
      BY <2>2 DEF Logs, From, Owing
    <3>2. /\ timeline'[r] = Append(timeline[r], calls[c].event)
          /\ timeline[r] \in Seq(EventTypes) /\ calls[c].event \in EventTypes
      <4>1. Log(c, calls[c].event)
        BY <2>2 DEF Logs, From
      <4> QED
        BY <2>2, <4>1, LogStep, Typed DEF Call
    <3>3. CASE Ended(r)
      <4>1. NoEnd(timeline[r]) /\ OneOwes(r)
        BY <1>0, <3>1, <3>3 DEF Told, NobodyOwes
      <4>2. OneEnd(timeline'[r])
        BY <1>0, <2>2, <3>1, <3>2, <3>3, <4>1, EndAppend DEF Owing
      <4>3. NobodyOwes(r)'
        BY <1>3, <3>1, <4>1 DEF NobodyOwes, OneOwes, Owing, Shape, Alone
      <4> QED
        BY <3>1, <3>3, <4>2, <4>3 DEF Told, Ended
    <3>4. CASE ~Ended(r)
      <4>1. NoEnd(timeline[r]) /\ calls[c].event \notin TerminalEvents
        BY <1>0, <2>2, <3>1, <3>4 DEF Owing
      <4>2. NoEnd(timeline'[r])
        BY <3>2, <4>1, EndAppend
      <4> QED
        BY <3>1, <3>4, <4>2 DEF Ended
    <3> QED
      BY <3>3, <3>4
  <2>3. CASE ~(r = calls[c].run /\ (Writes(c) \/ (Logs(c) /\ From(c, "event", "done"))))
    <3>1. \A d \in Calls : Owing(d, r)' <=> Owing(d, r)
      BY <1>0, <1>3, <2>3, OwingStep
    <3>2. (NobodyOwes(r)' <=> NobodyOwes(r)) /\ (OneOwes(r)' <=> OneOwes(r))
      BY <3>1 DEF NobodyOwes, OneOwes
    <3>3. /\ NoEnd(timeline[r]) => NoEnd(timeline'[r])
          /\ OneEnd(timeline[r]) => OneEnd(timeline'[r])
      BY <1>3, <2>3, AddedStep, EndAppend
    <3>4. CASE rows'[r] = rows[r]
      <4>1. Ended(r) => (Starting(r)' => Starting(r))
        BY <1>3, StartingStep DEF Ended, Terminal
      <4>2. Ended(r)' <=> Ended(r)
        BY <3>4 DEF Ended
      <4>3. CASE Ended(r)
        <5>1. Told(r)
          BY <1>0, <4>3
        <5>2. Told(r)'
          BY <3>2, <3>3, <3>4, <4>1, <4>3, <5>1 DEF Told
        <5> QED
          BY <4>2, <4>3, <5>2
      <4> QED
        BY <1>0, <3>3, <4>2, <4>3
    <3>5. CASE rows[r].status = "ABSENT" /\ rows'[r].status = "RUNNING"
      <4>1. ~Ended(r) /\ ~Ended(r)'
        BY <3>5 DEF Ended, Terminal
      <4> QED
        BY <1>0, <3>3, <4>1
    <3>6. CASE r = calls[c].run /\ Points(c)
      <4>1. Starting(r) /\ rows'[r].status = rows[r].status
        BY <3>6 DEF Points, Starting, Run
      <4>2. Ended(r)' <=> Ended(r)
        BY <4>1 DEF Ended
      <4>3. CASE Ended(r)
        <5>1. Told(r)
          BY <1>0, <4>3
        <5>2. Told(r)'
          BY <3>2, <3>3, <4>1, <5>1 DEF Told
        <5> QED
          BY <4>2, <4>3, <5>2
      <4> QED
        BY <1>0, <3>3, <4>2, <4>3
    <3> QED
      BY <1>3, <2>3, <3>4, <3>5, <3>6, StatusStep
  <2> QED
    BY <2>1, <2>2, <2>3
<1> QED
  BY <1>1, <1>2, <1>3, CleanStep

(* The counts of EndIsLogged.                                              *)
LEMMA Counted == ASSUME IInv, LogInv PROVE EndIsLogged
<1> SUFFICES ASSUME Clean, NEW r \in Runs, Ended(r)
             PROVE  LET ends == {i \in DOMAIN timeline[r] : timeline[r][i] \in TerminalEvents}
                        owed == {c \in Calls : At(c, "event") /\ Run(c) = r}
                        lost == rows[r].node \in Nodes \ Defined
                    IN  Cardinality(ends) + Cardinality(owed) \in (IF lost THEN {0, 1} ELSE {1})
  BY DEF EndIsLogged, Ended
<1> DEFINE ends == {i \in DOMAIN timeline[r] : timeline[r][i] \in TerminalEvents}
           owed == {c \in Calls : At(c, "event") /\ Run(c) = r}
<1>0. Told(r)
  BY DEF LogInv
<1>1. /\ NoEnd(timeline[r]) => ends = {}
      /\ OneEnd(timeline[r]) => \E i : ends = {i}
  BY DEF NoEnd, OneEnd
<1>2. /\ NobodyOwes(r) => owed = {}
      /\ OneOwes(r) => \E c : owed = {c}
  <2>1. ASSUME NobodyOwes(r) PROVE owed = {}
    BY <2>1 DEF NobodyOwes, Owing, At, Run
  <2>2. ASSUME NEW c \in Calls, \A d \in Calls : Owing(d, r) <=> d = c PROVE owed = {c}
    BY <2>2 DEF Owing, At, Run
  <2> HIDE DEF owed
  <2> QED
    BY <2>1, <2>2 DEF OneOwes
<1> HIDE DEF ends, owed
<1>3. Cardinality({}) = 0 /\ \A i : Cardinality({i}) = 1
  BY FS_EmptySet, FS_Singleton
<1>4. /\ NoEnd(timeline[r]) => Cardinality(ends) = 0
      /\ OneEnd(timeline[r]) => Cardinality(ends) = 1
      /\ NobodyOwes(r) => Cardinality(owed) = 0
      /\ OneOwes(r) => Cardinality(owed) = 1
  BY <1>1, <1>2, <1>3
<1>5. Cardinality(ends) + Cardinality(owed)
        \in (IF rows[r].node \in Nodes \ Defined THEN {0, 1} ELSE {1})
  BY <1>0, <1>4 DEF Told
<1> QED
  BY <1>5 DEF ends, owed
--------------------------------------------------------------------------------
(* A run that was not recovered too early goes down its definition, if that*)
(* has no cycles.                                                          *)
Acyclic == \E rank \in [Nodes -> Nat] : \A e \in Edges : rank[e.from] < rank[e.to]

Ranked(rank) == rank \in [Nodes -> Nat] /\ \A e \in Edges : rank[e.from] < rank[e.to]

Unset(r) == rows[r].node = Null /\ rows[r].outputs = {}

IsStarting(c) == calls[c].pc \in {"announce", "point"}

GoInv(rank) ==
  /\ \A c, d \in Calls :
       IsStarting(c) /\ IsStarting(d) /\ calls[c].run = calls[d].run => c = d
  /\ \A r \in Runs : rows[r].status = "ABSENT" => Unset(r)
  /\ \A r \in Runs \ early : /\ Starting(r) => Unset(r)
                             /\ rows[r].node = Null => Ended(r) \/ rows[r].outputs = {}
                             /\ rows[r].node # Null =>
                                  \A m \in rows[r].outputs : rank[m] <= rank[rows[r].node]
  /\ \A c \in Calls : calls[c].pc \in Executing /\ calls[c].run \notin early =>
       calls[c].node = IF rows[calls[c].run].node = Null
                       THEN Entry ELSE rows[calls[c].run].node

GoesOn == \A r \in Runs : GoesBack(r) => r \in early

(* Nothing that a run has behind it is beyond the node it executes.        *)
LEMMA Behind ==
  ASSUME NEW rank, Ranked(rank), IInv, GoInv(rank), NEW c \in Calls,
         calls[c].pc \in Executing, NEW r \in Runs, r = calls[c].run, r \notin early
  PROVE  /\ \A m \in rows[r].outputs : rank[m] <= rank[calls[c].node]
         /\ \A m \in NewOutputs(c) : m \in Nodes /\ rank[m] <= rank[calls[c].node]
         /\ calls[c].node = rows[r].node \/ rows[r].outputs = {}
<1>1. ~Ended(r) /\ rows[r].outputs = calls[c].outputs
  BY DEF IInv, SnapshotFresh, Run, Ended, Terminal
<1>2. /\ \A m \in rows[r].outputs : rank[m] <= rank[calls[c].node]
      /\ calls[c].node = rows[r].node \/ rows[r].outputs = {}
  BY <1>1 DEF GoInv
<1>3. calls[c].node \in Nodes /\ calls[c].outputs \subseteq Nodes
  BY Typed DEF Call
<1>4. rank[calls[c].node] \in Nat
  BY <1>3 DEF Ranked
<1> QED
  BY <1>1, <1>2, <1>3, <1>4 DEF NewOutputs

LEMMA GoStep ==
  ASSUME NEW rank, Ranked(rank), early \subseteq early', IInv, PlaceInv, GoInv(rank),
         NEW c \in Calls, Shape(c)
  PROVE  GoInv(rank)' /\ GoesOn
<1> DEFINE RowGoes(r) ==
      /\ Starting(r)' => Unset(r)'
      /\ rows'[r].node = Null => Ended(r)' \/ rows'[r].outputs = {}
      /\ rows'[r].node # Null => \A m \in rows'[r].outputs : rank[m] <= rank[rows'[r].node]
      /\ rows'[r].node # rows[r].node /\ rows'[r].node # Null
           => rows'[r].node \notin rows[r].outputs
<1>1. ASSUME NEW d1 \in Calls, NEW d2 \in Calls, IsStarting(d1)', IsStarting(d2)',
             calls'[d1].run = calls'[d2].run, d1 # d2
      PROVE  FALSE
  <2>1. ASSUME NEW d \in Calls, NEW e \in Calls, d # e, e # c, IsStarting(d)', IsStarting(e)',
               calls'[d].run = calls'[e].run
        PROVE  FALSE
    <3>1. /\ IsStarting(e) /\ calls'[e].run = calls[e].run /\ calls[e].run \in Runs
          /\ rows[calls[e].run].status # "ABSENT"
      BY <2>1, TypedCalls DEF Shape, Alone, IsStarting, PlaceInv
    <3>2. ~(IsStarting(d) /\ calls'[d].run = calls[d].run)
      BY <2>1, <3>1 DEF GoInv
    <3>3. d = c
      BY <2>1, <3>2 DEF Shape, Alone, IsStarting
    <3>4. Starts(c)
      BY <2>1, <3>2, <3>3
         DEF Shape, Points, Asks, Quits, Passes, Logs, Writes, From, InNode, IsStarting
    <3> QED
      BY <2>1, <3>1, <3>3, <3>4 DEF Starts
  <2> QED
    BY <1>1, <2>1
<1>2. ASSUME NEW d \in Calls, calls'[d].pc \in Executing, calls'[d].run \notin early'
      PROVE  calls'[d].node = IF rows'[calls'[d].run].node = Null
                              THEN Entry ELSE rows'[calls'[d].run].node
  <2>1. CASE d = c
    <3>1. CASE Passes(c)
      BY <1>2, <2>1, <3>1 DEF Passes, From, SameNode, InNode, Executing, GoInv
    <3>2. CASE Logs(c)
      BY <1>2, <2>1, <3>2 DEF Logs, From, SameNode, Executing, GoInv
    <3>3. CASE Starts(c) \/ Points(c) \/ Asks(c) \/ Quits(c) \/ Writes(c)
      BY <1>2, <2>1, <3>3 DEF Starts, Points, Asks, Quits, Writes, From, Executing
    <3> QED
      BY <3>1, <3>2, <3>3 DEF Shape
  <2>2. CASE d # c
    <3>1. calls'[d] = calls[d] /\ calls[d].run \in Runs /\ calls[d].pc \in SectionPCs
      BY <1>2, <2>2, TypedCalls, SectionPCsAre DEF Shape, Alone
    <3>2. rows[calls[d].run].status # "ABSENT" /\ ~Starting(calls[d].run)
      BY <1>2, <3>1 DEF PlaceInv, InRun, SectionPCs
    <3>3. rows'[calls[d].run] = rows[calls[d].run]
      <4>1. ~(Points(c) /\ calls[d].run = calls[c].run)
        BY <3>2 DEF Points, Starting, Run
      <4>2. ~(Writes(c) /\ calls[d].run = calls[c].run)
        <5>1. Writes(c) => calls[c].pc \in SectionPCs
          BY DEF Writes, From, SectionPCs
        <5> QED
          BY <2>2, <3>1, <5>1, OneWriter
      <4> QED
        BY <3>1, <3>2, <4>1, <4>2, StatusStep
    <3> QED
      BY <1>2, <3>1, <3>3 DEF GoInv
  <2> QED
    BY <2>1, <2>2
<1>4. ASSUME NEW r \in Runs, rows'[r].status = "ABSENT" PROVE Unset(r)'
  <2>1. rows'[r] = rows[r]
    BY <1>4, StatusStep DEF Points, Writes, PlaceInv, From
  <2> QED
    BY <1>4, <2>1 DEF GoInv, Unset
<1>3. ASSUME NEW r \in Runs \ early PROVE RowGoes(r)
  <2>1. CASE rows'[r] = rows[r]
    BY <2>1, StartingStep DEF GoInv, Unset, Ended
  <2>2. CASE rows[r].status = "ABSENT" /\ Starts(c) /\ calls'[c].run = r
    <3>1. rows'[r].node = rows[r].node /\ rows'[r].outputs = rows[r].outputs
      BY <2>2 DEF Starts
    <3> QED
      BY <2>2, <3>1 DEF GoInv, Unset
  <2>3. CASE r = calls[c].run /\ Points(c)
    <3>1. IsStarting(c) /\ Starting(r) /\ calls'[c].pc = "idle"
      BY <2>3 DEF Points, IsStarting, Starting, Run
    <3>2. rows'[r].outputs = {} /\ rows[r].outputs = {} /\ rows'[r].node = Entry
      BY <2>3, <3>1 DEF Points, GoInv, Unset
    <3>3. ~Starting(r)'
      BY <2>3, <3>1 DEF Shape, Alone, Starting, Run, IsStarting, GoInv
    <3>4. rows'[r].status # "ABSENT" /\ Entry # Null
      <4>1. rows[r].status # "ABSENT"
        BY <2>3, <3>1 DEF PlaceInv, IsStarting
      <4> QED
        BY <4>1, StatusStep, ConfigAssumption
    <3> QED
      BY <3>2, <3>3, <3>4
  <2>4. CASE r = calls[c].run /\ Writes(c)
    <3>1. calls[c].pc \in SectionPCs /\ ~Starting(r) /\ rows[r].status # "ABSENT"
      <4>1. calls[c].pc \in SectionPCs /\ calls[c].pc # "idle"
        BY <2>4 DEF Writes, From, SectionPCs
      <4> QED
        BY <2>4, <4>1 DEF PlaceInv, InRun
    <3>2. ~Starting(r)' /\ rows'[r].status # "ABSENT"
      BY <3>1, StartingStep, StatusStep
    <3>3. ~Ended(r)
      BY <2>4, WriterFinds
    <3>4. CASE rows'[r].node = rows[r].node /\ rows'[r].outputs = rows[r].outputs
      BY <3>2, <3>3, <3>4 DEF GoInv
    <3>5. CASE rows'[r].node = Null /\ rows'[r].status \in Terminal
      BY <3>2, <3>5 DEF Ended
    <3>6. CASE /\ calls[c].pc = "apply" /\ rows'[r].node = calls[c].node
               /\ rows'[r].outputs = NewOutputs(c)
      <4>1. calls[c].node \in Nodes /\ calls[c].node # Null
        BY TypedCalls, ConfigAssumption
      <4> QED
        BY <2>4, <3>2, <3>6, <4>1, Behind DEF Executing
    <3>7. ASSUME NEW e \in Edges, e.from = calls[c].node, rows'[r].node = e.to,
                 calls[c].pc = "apply", rows'[r].outputs = NewOutputs(c)
          PROVE  RowGoes(r)
      <4>1. e.from \in Nodes /\ e.to \in Nodes /\ e.to # Null
        BY ConfigAssumption
      <4>2. rank[e.from] \in Nat /\ rank[e.to] \in Nat /\ rank[e.from] < rank[e.to]
        BY <4>1 DEF Ranked
      <4>3. /\ \A m \in rows[r].outputs : rank[m] <= rank[e.from]
            /\ \A m \in NewOutputs(c) : m \in Nodes /\ rank[m] <= rank[e.from]
        BY <2>4, <3>7, Behind DEF Executing
      <4>4. \A m \in NewOutputs(c) : rank[m] <= rank[e.to]
        <5>1. ASSUME NEW m \in NewOutputs(c) PROVE rank[m] <= rank[e.to]
          <6>1. rank[m] \in Nat /\ rank[m] <= rank[e.from]
            BY <4>3 DEF Ranked
          <6> QED
            BY <4>2, <6>1
        <5> QED
          BY <5>1
      <4>5. e.to \notin rows[r].outputs
        BY <4>2, <4>3
      <4> QED
        BY <3>2, <3>7, <4>1, <4>4, <4>5
    <3> QED
      BY <2>4, <3>4, <3>5, <3>6, <3>7 DEF Writes, From, Terminal
  <2> QED
    BY <2>1, <2>2, <2>3, <2>4, StatusStep
<1> QED
  BY <1>1, <1>2, <1>3, <1>4 DEF GoInv, GoesOn, GoesBack, Unset, Ended

LEMMA GoInvariant ==
  ASSUME NEW rank, Ranked(rank)
  PROVE  /\ Init => GoInv(rank)
         /\ IInv /\ PlaceInv /\ GoInv(rank) /\ [Next]_vars => GoInv(rank)' /\ GoesOn
<1>1. ASSUME Init PROVE GoInv(rank)
  BY <1>1 DEF Init, IdleCall, GoInv, IsStarting, Starting, Unset, Executing
<1>2. ASSUME IInv, GoInv(rank), NEW h \in Hosts, Crash(h) PROVE GoInv(rank)' /\ GoesOn
  <2>1. /\ \A c \in Calls : \/ calls'[c] = calls[c]
                            \/ calls'[c].pc = "idle" /\ calls'[c].run = calls[c].run
        /\ UNCHANGED <<rows, early>>
    BY <1>2, CrashShape
  <2>2. /\ \A c \in Calls : IsStarting(c)' => IsStarting(c) /\ calls'[c] = calls[c]
        /\ \A r \in Runs : Starting(r)' => Starting(r)
        /\ \A c \in Calls : calls'[c].pc \in Executing => calls'[c] = calls[c]
    BY <2>1 DEF IsStarting, Starting, Run, Executing
  <2> QED
    BY <1>2, <2>1, <2>2 DEF GoInv, GoesOn, GoesBack, Unset, Ended
<1>3. ASSUME GoInv(rank), UNCHANGED vars PROVE GoInv(rank)' /\ GoesOn
  BY <1>3 DEF vars, GoInv, GoesOn, GoesBack, IsStarting, Starting, Run, Unset, Ended
<1> QED
  BY <1>1, <1>2, <1>3, StepShape, GoStep, RunSets
--------------------------------------------------------------------------------
(* IInv is an invariant: the types, one section per run, and fresh copies  *)
(* need each other -- a copy is fresh because nobody else is inside.       *)
THEOREM Invariance == Spec => []IInv
BY InitIInv, Inductive, PTL DEF Spec

(* Every variable keeps its type (TypeOK of FlowEngine), whatever the      *)
(* definition of the flow, the crashes and the storage failures.           *)
THEOREM TypeCorrect == Spec => []TypeOK
<1>1. IInv => TypeOK
  BY DEF IInv
<1>2. QED BY <1>1, Invariance, PTL

(* No two ticks or resumes of a run overlap (withLock, storage.ts:80).     *)
THEOREM MutualExclusion == Spec => []OneAtATime
<1>1. IInv => OneAtATime
  BY DEF IInv
<1>2. QED BY <1>1, Invariance, PTL

(* The row that tickCore read before its awaits is the row it writes over: *)
(* startRun's and recovery's unlocked steps included.                      *)
THEOREM FreshSnapshots == Spec => []SnapshotFresh
<1>1. IInv => SnapshotFresh
  BY DEF IInv
<1>2. QED BY <1>1, Invariance, PTL

(* A COMPLETED or FAILED run is never brought back or given another result.*)
THEOREM EndsAreFinal == Spec => EndIsFinal
<1>1. IInv /\ [Next]_vars =>
        [\A r \in Runs : rows[r].status \in Terminal =>
           /\ rows'[r].status = rows[r].status
           /\ rows'[r].state = rows[r].state
           /\ rows'[r].outputs = rows[r].outputs]_vars
  BY Inductive DEF RowsLater, Later
<1>2. QED BY <1>1, Invariance, PTL DEF Spec, EndIsFinal

(* What a tick recorded as a node's output no later tick drops.            *)
THEOREM OutputsAreKept == Spec => OutputsKept
<1>1. IInv /\ [Next]_vars =>
        [\A r \in Runs : rows[r].outputs \subseteq rows'[r].outputs]_vars
  BY Inductive DEF RowsLater, Later
<1>2. QED BY <1>1, Invariance, PTL DEF Spec, OutputsKept

(* No end is announced that the table does not know, whatever crashes or   *)
(* fails between the row's last write and its event (FlowEngine.ts:189-196)*)
THEOREM EndsAreWritten == Spec => []EndIsWritten
<1>1. Init => EventsTrue /\ EndIsWritten
  BY DEF Init, IdleCall, EventsTrue, Owes, EndIsWritten, Logged
<1>2. IInv /\ EventsTrue /\ EndIsWritten /\ [Next]_vars => (EventsTrue /\ EndIsWritten)'
  BY EventsStayTrue
<1> QED BY <1>1, <1>2, Invariance, PTL DEF Spec

(* At least once, and no more often than it must: where runs have keys of  *)
(* their own a handler succeeds once under its key, and once more at most  *)
(* for each crash, each failure of the storage, and each handler that the  *)
(* engine gave up after its timeout while it went on (Executor.ts:24-67).  *)
THEOREM RepeatsArePaidFor == ASSUME KeysApart PROVE Spec => []RepeatsArePaid
<1>1. Init => RepeatInv
  BY DEF Init, IdleCall, RepeatInv, Paid, WillRun
<1>2. ASSUME IInv, RepeatInv, [Next]_vars PROVE RepeatInv'
  BY <1>2, RepeatsStep
<1>3. RepeatInv => RepeatsArePaid
  BY DEF RepeatInv, RepeatsArePaid
<1> QED BY <1>1, <1>2, <1>3, Invariance, PTL DEF Spec

(* Nobody ticks or resumes a run that is still being started, recovery     *)
(* apart, and a WAITING run is at a node: see PlaceInv.                    *)
THEOREM Places == Spec => []PlaceInv
BY PlaceInvariant, Invariance, PTL DEF Spec

(* Where no idempotencyKey function throws, and nothing crashes or fails,  *)
(* the audit timeline closes each execution of a node before it opens the  *)
(* next one, whoever ticks (Executor.ts:13-140).                            *)
THEOREM NodesAreBracketed == ASSUME KeyThrows = {} PROVE Spec => []Bracketed
<1>1. Init => BracketInv
  BY DEF Init, BracketInv, InTurn, Closed
<1>2. IInv /\ PlaceInv /\ BracketInv /\ [Next]_vars => BracketInv'
  BY BracketStep
<1>3. BracketInv => Bracketed
  BY DEF BracketInv, Bracketed, InTurn, Closers
<1> QED
  BY <1>1, <1>2, <1>3, Places, Invariance, PTL DEF Spec

(* A run that ended says so once in its timeline, or one call is about to  *)
(* say it, or its definition lost the node it waited at: with any number   *)
(* of clients, processes and recoveries, as long as nothing crashes or     *)
(* fails between the row and its event (FlowEngine.ts:86-236).            *)
THEOREM EndsAreLogged == Spec => []EndIsLogged
<1>1. Init => LogInv
  BY DEF Init, IdleCall, LogInv, Ended, Terminal, NoEnd
<1>2. IInv /\ PlaceInv /\ LogInv /\ [Next]_vars => LogInv'
  BY LogInvStep
<1>3. IInv /\ LogInv => EndIsLogged
  BY Counted
<1> QED
  BY <1>1, <1>2, <1>3, Places, Invariance, PTL DEF Spec

(* Where the definition has no cycle, neither a tick nor startRun's last   *)
(* write, made without the lock of the run, sends a run back to a node it  *)
(* has executed, whoever recovers runs (FlowEngine.ts:57-80): only a run   *)
(* that recovery ticked while it was being started can be sent back.       *)
THEOREM RunsGoForward == ASSUME Acyclic PROVE Spec => RunsGoOn
<1>1. PICK rank \in [Nodes -> Nat] : \A e \in Edges : rank[e.from] < rank[e.to]
  BY DEF Acyclic
<1>2. Ranked(rank)
  BY <1>1 DEF Ranked
<1>3. Init => GoInv(rank)
  BY <1>2, GoInvariant
<1>4. IInv /\ PlaceInv /\ GoInv(rank) /\ [Next]_vars => GoInv(rank)'
  BY <1>2, GoInvariant
<1>5. IInv /\ PlaceInv /\ GoInv(rank) /\ [Next]_vars =>
        [\A r \in Runs : GoesBack(r) => r \in early]_vars
  BY <1>2, GoInvariant DEF GoesOn
<1> QED
  BY <1>3, <1>4, <1>5, Places, Invariance, PTL DEF Spec, RunsGoOn
================================================================================
