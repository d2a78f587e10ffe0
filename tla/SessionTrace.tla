---------------------------- MODULE SessionTrace ----------------------------
(***************************************************************************)
(* The relational checks of the session event log that                     *)
(* packages/core/session/src/invariant.ts installs beside every session:   *)
(* a trace record summarises the accepted log, Valid says whether the      *)
(* companion accepts a candidate event, and Record is the trace after it.  *)
(* The companion throws on a bad event; here the trace remembers it in ok, *)
(* so a component that only ever extends its log through Record satisfies  *)
(* the companion exactly while trace.ok holds.                             *)
(*                                                                         *)
(* The number 0 stands for null in openTurn and openStep (turns and steps  *)
(* are numbered from 1). Sequence numbers are the position in the log      *)
(* (session.append assigns log.length) and are left implicit.              *)
(***************************************************************************)
EXTENDS Naturals

None == 0

FreshTrace == [openTurn |-> None, openStep |-> None,
               nextTurn |-> 1, nextStep |-> 1,
               pendingCalls |-> {}, ok |-> TRUE]

TurnStart(n)        == [type |-> "turn/start", turn |-> n]
TurnEnd(n)          == [type |-> "turn/end", turn |-> n]
StepStart(n, s)     == [type |-> "step/start", turn |-> n, step |-> s]
StepEnd(n, s)       == [type |-> "step/end", turn |-> n, step |-> s]
AssistantMessage(n, s) == [type |-> "assistant/message", turn |-> n, step |-> s]
RequestHeader       == [type |-> "request/header"]
ToolCall(n, s, c)   == [type |-> "tool/call", turn |-> n, step |-> s, call |-> c]

\* notStarted marks the synthetic result of a call that never started, the one
\* kind of result the companion takes without a preceding tool/call.
ToolResult(n, s, c, notStarted) ==
  [type |-> "tool/result", turn |-> n, step |-> s, call |-> c,
   notStarted |-> notStarted]

-----------------------------------------------------------------------------
InOpenStep(t, e) == t.openTurn = e.turn /\ t.openStep = e.step

\* Does the companion accept event e after the log that trace t summarises?
Valid(t, e) ==
  CASE e.type = "turn/start" -> t.openTurn = None /\ e.turn = t.nextTurn
    [] e.type = "turn/end"   -> t.openTurn = e.turn /\ t.openStep = None
    [] e.type = "step/start" -> /\ t.openTurn = e.turn
                                /\ t.openStep = None
                                /\ e.step = t.nextStep
    [] e.type \in {"step/end", "assistant/message", "tool/call"} ->
         InOpenStep(t, e)
    [] e.type = "tool/result" ->
         InOpenStep(t, e) /\ (e.call \in t.pendingCalls \/ e.notStarted)
    [] e.type = "request/header" -> t.openTurn # None
    [] OTHER -> TRUE

\* The transition validateEvent returns for e and applyTransition commits.
Committed(t, e) ==
  CASE e.type = "turn/start" -> [t EXCEPT !.openTurn = e.turn, !.nextStep = 1]
    [] e.type = "turn/end"   -> [t EXCEPT !.openTurn = None, !.nextTurn = @ + 1]
    [] e.type = "step/start" -> [t EXCEPT !.openStep = e.step]
    [] e.type = "step/end"   -> [t EXCEPT !.openStep = None, !.nextStep = @ + 1,
                                          !.pendingCalls = {}]
    [] e.type = "tool/call"  -> [t EXCEPT !.pendingCalls = @ \cup {e.call}]
    [] e.type = "tool/result" -> [t EXCEPT !.pendingCalls = @ \ {e.call}]
    [] OTHER -> t

Record(t, e) == [Committed(t, e) EXCEPT !.ok = t.ok /\ Valid(t, e)]
=============================================================================
