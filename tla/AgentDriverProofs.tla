------------------------- MODULE AgentDriverProofs -------------------------
(* Theorems about AgentDriver, for any set of messages and any bound: its log, *)
(* what an abort ends, and which wakes latch.                                 *)
EXTENDS AgentDriver, SequenceTheorems, TLAPS

-----------------------------------------------------------------------------
(* What one event does to a trace.                                         *)

\* Logging turn/start opens turn n, and is accepted outside any turn, in order.
LEMMA RecordTurnStart ==
  ASSUME NEW t \in Traces, NEW n \in Nat
  PROVE  LET r == Record(t, TurnStart(n))
         IN  /\ r \in Traces
             /\ r.openTurn = n /\ r.openStep = t.openStep
             /\ r.nextTurn = t.nextTurn /\ r.nextStep = 1
             /\ r.ok <=> (t.ok /\ t.openTurn = None /\ n = t.nextTurn)
<1> DEFINE e == TurnStart(n)
           c == Committed(t, e)
<1>1. Valid(t, e) <=> t.openTurn = None /\ n = t.nextTurn
  BY DEF Valid, TurnStart
<1>2. /\ c \in Traces /\ c.ok = t.ok
      /\ c.openTurn = n /\ c.openStep = t.openStep
      /\ c.nextTurn = t.nextTurn /\ c.nextStep = 1
  BY DEF Committed, Traces, None, TurnStart
<1>3. Record(t, e) = [c EXCEPT !.ok = t.ok /\ Valid(t, e)]
  BY DEF Record
<1> QED
  BY <1>1, <1>2, <1>3 DEF Traces

\* Logging turn/end closes the turn, and is accepted when no step is open in it.
LEMMA RecordTurnEnd ==
  ASSUME NEW t \in Traces, NEW n \in Nat
  PROVE  LET r == Record(t, TurnEnd(n))
         IN  /\ r \in Traces
             /\ r.openTurn = None /\ r.openStep = t.openStep
             /\ r.nextTurn = t.nextTurn + 1 /\ r.nextStep = t.nextStep
             /\ r.ok <=> (t.ok /\ t.openTurn = n /\ t.openStep = None)
<1> DEFINE e == TurnEnd(n)
           c == Committed(t, e)
<1>1. Valid(t, e) <=> t.openTurn = n /\ t.openStep = None
  BY DEF Valid, TurnEnd
<1>2. /\ c \in Traces /\ c.ok = t.ok
      /\ c.openTurn = None /\ c.openStep = t.openStep
      /\ c.nextTurn = t.nextTurn + 1 /\ c.nextStep = t.nextStep
  <2> DEFINE k == t.nextTurn + 1
  <2>1. c = [t EXCEPT !.openTurn = None, !.nextTurn = k]
    BY DEF Committed, TurnEnd
  <2>2. k \in Nat
    BY DEF Traces
  <2> HIDE DEF k, c
  <2>3. /\ c \in Traces /\ c.ok = t.ok
        /\ c.openTurn = None /\ c.openStep = t.openStep
        /\ c.nextTurn = k /\ c.nextStep = t.nextStep
    BY <2>1, <2>2 DEF Traces, None
  <2> QED
    BY <2>3 DEF k
<1>3. Record(t, e) = [c EXCEPT !.ok = t.ok /\ Valid(t, e)]
  BY DEF Record
<1> QED
  BY <1>1, <1>2, <1>3 DEF Traces

\* Logging step/start opens step s, and is accepted inside turn n, in order.
LEMMA RecordStepStart ==
  ASSUME NEW t \in Traces, NEW n \in Nat, NEW s \in Nat
  PROVE  LET r == Record(t, StepStart(n, s))
         IN  /\ r \in Traces
             /\ r.openTurn = t.openTurn /\ r.openStep = s
             /\ r.nextTurn = t.nextTurn /\ r.nextStep = t.nextStep
             /\ r.ok <=> (t.ok /\ t.openTurn = n /\ t.openStep = None /\ s = t.nextStep)
<1> DEFINE e == StepStart(n, s)
           c == Committed(t, e)
<1>1. Valid(t, e) <=> t.openTurn = n /\ t.openStep = None /\ s = t.nextStep
  BY DEF Valid, StepStart
<1>2. /\ c \in Traces /\ c.ok = t.ok
      /\ c.openTurn = t.openTurn /\ c.openStep = s
      /\ c.nextTurn = t.nextTurn /\ c.nextStep = t.nextStep
  BY DEF Committed, Traces, None, StepStart
<1>3. Record(t, e) = [c EXCEPT !.ok = t.ok /\ Valid(t, e)]
  BY DEF Record
<1> QED
  BY <1>1, <1>2, <1>3 DEF Traces

\* Logging step/end closes the open step, and is accepted for that step only.
LEMMA RecordStepEnd ==
  ASSUME NEW t \in Traces, NEW n \in Nat, NEW s \in Nat
  PROVE  LET r == Record(t, StepEnd(n, s))
         IN  /\ r \in Traces
             /\ r.openTurn = t.openTurn /\ r.openStep = None
             /\ r.nextTurn = t.nextTurn /\ r.nextStep = t.nextStep + 1
             /\ r.ok <=> (t.ok /\ t.openTurn = n /\ t.openStep = s)
<1> DEFINE e == StepEnd(n, s)
           c == Committed(t, e)
<1>1. Valid(t, e) <=> t.openTurn = n /\ t.openStep = s
  BY DEF Valid, StepEnd, InOpenStep
<1>2. /\ c \in Traces /\ c.ok = t.ok
      /\ c.openTurn = t.openTurn /\ c.openStep = None
      /\ c.nextTurn = t.nextTurn /\ c.nextStep = t.nextStep + 1
  <2> DEFINE k == t.nextStep + 1
  <2>1. c = [t EXCEPT !.openStep = None, !.nextStep = k, !.pendingCalls = {}]
    BY DEF Committed, StepEnd
  <2>2. k \in Nat
    BY DEF Traces
  <2> HIDE DEF k, c
  <2>3. /\ c \in Traces /\ c.ok = t.ok
        /\ c.openTurn = t.openTurn /\ c.openStep = None
        /\ c.nextTurn = t.nextTurn /\ c.nextStep = k
    BY <2>1, <2>2 DEF Traces, None
  <2> QED
    BY <2>3 DEF k
<1>3. Record(t, e) = [c EXCEPT !.ok = t.ok /\ Valid(t, e)]
  BY DEF Record
<1> QED
  BY <1>1, <1>2, <1>3 DEF Traces

\* Logging assistant/message opens nothing, and is accepted in the open step.
LEMMA RecordAssistantMessage ==
  ASSUME NEW t \in Traces, NEW n \in Nat, NEW s \in Nat
  PROVE  LET r == Record(t, AssistantMessage(n, s))
         IN  /\ r \in Traces
             /\ r.openTurn = t.openTurn /\ r.openStep = t.openStep
             /\ r.nextTurn = t.nextTurn /\ r.nextStep = t.nextStep
             /\ r.ok <=> (t.ok /\ t.openTurn = n /\ t.openStep = s)
<1> DEFINE e == AssistantMessage(n, s)
           c == Committed(t, e)
<1>1. Valid(t, e) <=> t.openTurn = n /\ t.openStep = s
  BY DEF Valid, AssistantMessage, InOpenStep
<1>2. /\ c \in Traces /\ c.ok = t.ok
      /\ c.openTurn = t.openTurn /\ c.openStep = t.openStep
      /\ c.nextTurn = t.nextTurn /\ c.nextStep = t.nextStep
  BY DEF Committed, Traces, None, AssistantMessage
<1>3. Record(t, e) = [c EXCEPT !.ok = t.ok /\ Valid(t, e)]
  BY DEF Record
<1> QED
  BY <1>1, <1>2, <1>3 DEF Traces

\* Logging request/header opens nothing, and is accepted inside a turn.
LEMMA RecordRequestHeader ==
  ASSUME NEW t \in Traces
  PROVE  LET r == Record(t, RequestHeader)
         IN  /\ r \in Traces
             /\ r.openTurn = t.openTurn /\ r.openStep = t.openStep
             /\ r.nextTurn = t.nextTurn /\ r.nextStep = t.nextStep
             /\ r.ok <=> (t.ok /\ t.openTurn # None)
<1> DEFINE e == RequestHeader
           c == Committed(t, e)
<1>1. Valid(t, e) <=> t.openTurn # None
  BY DEF Valid, RequestHeader
<1>2. /\ c \in Traces /\ c.ok = t.ok
      /\ c.openTurn = t.openTurn /\ c.openStep = t.openStep
      /\ c.nextTurn = t.nextTurn /\ c.nextStep = t.nextStep
  BY DEF Committed, Traces, None, RequestHeader
<1>3. Record(t, e) = [c EXCEPT !.ok = t.ok /\ Valid(t, e)]
  BY DEF Record
<1> QED
  BY <1>1, <1>2, <1>3 DEF Traces

-----------------------------------------------------------------------------
(* Type correctness.                                                       *)

\* A splice of messages within the bounds of a list is a list of messages.
LEMMA SplicedType ==
  ASSUME NEW q \in Seq(Msgs), NEW start \in Nat, NEW count \in Nat,
         start + count <= Len(q), NEW inserted \in Seq(Msgs)
  PROVE  Spliced(q, start, count, inserted) \in Seq(Msgs)
<1>1. SubSeq(q, 1, start) \in Seq(Msgs)
  BY SubSeqProperties
<1>2. SubSeq(q, start + count + 1, Len(q)) \in Seq(Msgs)
  BY SubSeqProperties
<1> QED
  BY <1>1, <1>2 DEF Spliced

\* The splices of send, prepend and remove stay within the list's bounds.
LEMMA InsertedType ==
  ASSUME NEW q \in Seq(Msgs), NEW m \in Msgs
  PROVE  /\ Spliced(q, Len(q), 0, <<m>>) \in Seq(Msgs)
         /\ Spliced(q, 0, 0, <<m>>) \in Seq(Msgs)
<1>1. <<m>> \in Seq(Msgs)
  OBVIOUS
<1>2. Len(q) \in Nat /\ Len(q) + 0 <= Len(q) /\ 0 + 0 <= Len(q) /\ 0 \in Nat
  OBVIOUS
<1> HIDE DEF Spliced
<1>3. Spliced(q, Len(q), 0, <<m>>) \in Seq(Msgs)
  BY <1>1, <1>2, SplicedType
<1>4. Spliced(q, 0, 0, <<m>>) \in Seq(Msgs)
  BY <1>1, <1>2, SplicedType
<1> QED
  BY <1>3, <1>4

\* Removing one message of a list leaves a list of messages.
LEMMA RemovedType ==
  ASSUME NEW q \in Seq(Msgs), NEW i \in DOMAIN q
  PROVE  Spliced(q, i - 1, 1, <<>>) \in Seq(Msgs)
<1>1. i - 1 \in Nat /\ (i - 1) + 1 <= Len(q) /\ 1 \in Nat
  OBVIOUS
<1>2. <<>> \in Seq(Msgs)
  BY EmptySeq
<1> QED
  BY <1>1, <1>2, SplicedType

\* Replacing one message of a list by another leaves a list of messages.
LEMMA ReplacedType ==
  ASSUME NEW q \in Seq(Msgs), NEW i \in DOMAIN q, NEW n \in Msgs
  PROVE  Spliced(q, i - 1, 1, <<n>>) \in Seq(Msgs)
<1>1. i - 1 \in Nat /\ (i - 1) + 1 <= Len(q) /\ 1 \in Nat
  OBVIOUS
<1>2. <<n>> \in Seq(Msgs)
  OBVIOUS
<1> QED
  BY <1>1, <1>2, SplicedType

\* Initially every variable has its type.
LEMMA TypeInit == Init => TypeOK
<1> SUFFICES ASSUME Init PROVE TypeOK
  OBVIOUS
<1>1. <<>> \in Seq(Msgs)
  BY EmptySeq
<1>2. FreshTrace \in Traces
  BY DEF FreshTrace, Traces, None
<1> QED
  BY <1>1, <1>2 DEF Init, TypeOK, PCs, NoCause, NoWakes

\* The finally block of turn() keeps the types of what it assigns.
LEMMA CloseTurnType ==
  ASSUME TypeOK, NEW reason \in Reasons \cup {"none"}, CloseTurn(reason)
  PROVE  trace' \in Traces /\ claimed' \in Seq(Msgs)
         /\ outcome' \in Reasons \cup {"none"}
         /\ fate' \in [Msgs -> {"unsent", "sent", "entered", "canceled", "dropped"}]
         /\ pc' = "closing"
<1>1. Record(trace, TurnEnd(turn)) \in Traces
  BY RecordTurnEnd DEF TypeOK
<1>2. <<>> \in Seq(Msgs)
  BY EmptySeq
<1> QED
  BY <1>1, <1>2 DEF TypeOK, CloseTurn, Dropped

\* inbox.claim keeps the types of what it assigns.
LEMMA ClaimType ==
  ASSUME TypeOK, Claim
  PROVE  /\ claimed' \in Seq(Msgs) /\ nextTurn' \in Seq(Msgs)
         /\ nextStep' \in Seq(Msgs) /\ prompts' \subseteq Msgs
         /\ pc' = "assembling"
<1> DEFINE count == IF step = 0 /\ nextTurn # <<>> THEN 1 ELSE 0
           taken == SubSeq(nextTurn, 1, count)
<1>1. count \in Nat /\ count <= Len(nextTurn)
  BY EmptySeq DEF TypeOK
<1>2. taken \in Seq(Msgs)
  BY <1>1, SubSeqProperties DEF TypeOK
<1>3. Spliced(nextTurn, 0, count, <<>>) \in Seq(Msgs)
  <2>1. 0 + count <= Len(nextTurn) /\ count \in Nat /\ 0 \in Nat
    BY <1>1
  <2>2. <<>> \in Seq(Msgs) /\ nextTurn \in Seq(Msgs)
    BY EmptySeq DEF TypeOK
  <2> HIDE DEF count
  <2> QED
    BY <2>1, <2>2, SplicedType
<1>4. Elems(taken) \subseteq Msgs
  BY <1>2 DEF Elems
<1>5. nextStep \o taken \in Seq(Msgs)
  BY <1>2 DEF TypeOK
<1>6. <<>> \in Seq(Msgs)
  BY EmptySeq
<1>7. prompts \cup Elems(taken) \subseteq Msgs
  BY <1>4 DEF TypeOK
<1> QED
  BY <1>3, <1>5, <1>6, <1>7 DEF Claim

\* Starting a driver, or latching the wake behind a busy agent, keeps the types
\* of the variables that the two assign.
LEMMA StartDriverType ==
  ASSUME TypeOK, StartDriver
  PROVE  /\ phase' \in {"idle", "maintenance", "running"} /\ step' \in Nat
         /\ cause' \in Causes \cup {NoCause} /\ wakeRequested' \in BOOLEAN
         /\ pc' \in PCs /\ asked' \in {"no", "cancel", "dispose"}
         /\ waking' \in [Msgs -> {"no", "joined", "late"}]
BY DEF StartDriver, PCs, NoWakes

\* wakeDriver keeps the types of what it assigns, idle or busy.
LEMMA WakeDriverType ==
  ASSUME TypeOK, NEW afterAbort \in BOOLEAN, WakeDriver(afterAbort)
  PROVE  /\ phase' \in {"idle", "maintenance", "running"} /\ step' \in Nat
         /\ cause' \in Causes \cup {NoCause} /\ wakeRequested' \in BOOLEAN
         /\ pc' \in PCs /\ asked' \in {"no", "cancel", "dispose"}
         /\ waking' \in [Msgs -> {"no", "joined", "late"}]
<1>1. CASE StartDriver
  BY <1>1, StartDriverType
<1>2. CASE LatchWake(afterAbort)
  <2>1. wakeRequested' \in BOOLEAN
    BY <1>2, ZenonT(20) DEF LatchWake, TypeOK
  <2> QED
    BY <1>2, <2>1 DEF LatchWake, TypeOK
<1> QED
  BY <1>1, <1>2 DEF WakeDriver

\* Every action keeps the type invariant.
LEMMA TypeStep == TypeOK /\ [Next]_vars => TypeOK'
<1> SUFFICES ASSUME TypeOK, [Next]_vars PROVE TypeOK'
  OBVIOUS
<1> USE DEF agentVars, inbox, localVars, sendVars, history
<1>1. ASSUME NEW m \in Msgs, NEW target \in {"next-turn", "next-step"},
             NEW wakeup \in BOOLEAN, Send(m, target, wakeup)
      PROVE  TypeOK'
  <2>1. Spliced(nextTurn, Len(nextTurn), 0, <<m>>) \in Seq(Msgs)
    BY InsertedType DEF TypeOK
  <2>2. Spliced(nextStep, Len(nextStep), 0, <<m>>) \in Seq(Msgs)
    BY InsertedType DEF TypeOK
  <2>3. nextTurn' \in Seq(Msgs) /\ nextStep' \in Seq(Msgs)
    BY <1>1, <2>1, <2>2 DEF Send, Insert, TypeOK
  <2>4. fate' \in [Msgs -> {"unsent", "sent", "entered", "canceled", "dropped"}]
    BY <1>1 DEF Send, Insert, TypeOK
  <2> QED
    BY <1>1, <2>3, <2>4 DEF Send, TypeOK
<1>2. CASE SendWakes
  <2>1. WakeDriver(wakingAfterAbort)
    BY <1>2 DEF SendWakes
  <2> QED
    BY <1>2, <2>1, WakeDriverType DEF SendWakes, TypeOK
<1>3. ASSUME NEW m \in Msgs, Prepend(m) PROVE TypeOK'
  <2>1. Spliced(nextStep, 0, 0, <<m>>) \in Seq(Msgs)
    BY InsertedType DEF TypeOK
  <2> QED
    BY <1>3, <2>1 DEF Prepend, TypeOK
<1>4. ASSUME NEW m \in Msgs, Remove(m) PROVE TypeOK'
  <2>2. nextTurn' \in Seq(Msgs) /\ nextStep' \in Seq(Msgs)
    BY <1>4, RemovedType DEF Remove, TypeOK
  <2> QED
    BY <1>4, <2>2 DEF Remove, TypeOK
<1>4a. ASSUME NEW m \in Msgs, NEW n \in Msgs, Replace(m, n) PROVE TypeOK'
  <2>1. nextTurn' \in Seq(Msgs) /\ nextStep' \in Seq(Msgs)
    BY <1>4a, ReplacedType DEF Replace, TypeOK
  <2>2. fate' \in [Msgs -> {"unsent", "sent", "entered", "canceled", "dropped"}]
    BY <1>4a DEF Replace, TypeOK
  <2>3. UNCHANGED <<agentVars, pc, localVars, sendVars, retiring, trace, outcome,
                    owed, prompts, asked, waking>>
    BY <1>4a DEF Replace
  <2> QED
    BY <2>1, <2>2, <2>3 DEF TypeOK
<1>5. ASSUME NEW c \in Causes, NEW keep \in BOOLEAN, AskCancel(c, keep)
      PROVE  TypeOK'
  <2>1. CASE Cancel(c, keep)
    <3>1. nextTurn' \in Seq(Msgs) /\ nextStep' \in Seq(Msgs)
      BY <2>1, EmptySeq DEF Cancel, ClearInbox, TypeOK
    <3> QED
      BY <1>5, <2>1, <3>1 DEF AskCancel, Cancel, ClearInbox, AbortActivity, TypeOK
  <2>2. CASE CancelThrows(keep) /\ UNCHANGED <<agentVars, nextTurn, nextStep, fate>>
    BY <1>5, <2>2 DEF AskCancel, TypeOK
  <2> QED
    BY <1>5, <2>1, <2>2 DEF AskCancel
<1>6. CASE StartMaintenance
  BY <1>6 DEF StartMaintenance, TypeOK, NoCause, NoWakes
<1>7. CASE EndMaintenance
  <2>1. CASE StartDriver
    BY <1>7, <2>1, StartDriverType DEF EndMaintenance, TypeOK
  <2>2. CASE ~StartDriver
    BY <1>7, <2>2 DEF EndMaintenance, TypeOK, NoCause, NoWakes
  <2> QED
    BY <2>1, <2>2
<1>8. CASE OpenTurn
  <2>1. turn + 1 \in Nat
    BY DEF TypeOK
  <2>2. Record(trace, TurnStart(turn + 1)) \in Traces
    BY <2>1, RecordTurnStart DEF TypeOK
  <2> QED
    BY <1>8, <2>1, <2>2 DEF OpenTurn, TypeOK, PCs
<1>9. CASE AbandonTurn
  BY <1>9 DEF AbandonTurn, TypeOK, PCs
<1>10. CASE BeginProposal
  BY <1>10, ClaimType DEF BeginProposal, TypeOK, PCs
<1>11. CASE Assembled
  BY <1>11 DEF Assembled, TypeOK, PCs
<1>12. CASE Reject
  BY <1>12, CloseTurnType DEF Reject, TypeOK, PCs, Reasons
<1>13. CASE EnterNothing
  BY <1>13, CloseTurnType DEF EnterNothing, TypeOK, PCs, Reasons
<1>14. ASSUME NEW kept \in SUBSET Elems(claimed), NEW context \in BOOLEAN,
              EnterStep(kept, context)
       PROVE  TypeOK'
  <2>1. step + 1 \in Nat
    BY DEF TypeOK
  <2>2. Record(trace, StepStart(turn, step + 1)) \in Traces
    BY <2>1, RecordStepStart DEF TypeOK
  <2>3. fate' \in [Msgs -> {"unsent", "sent", "entered", "canceled", "dropped"}]
    BY <1>14 DEF EnterStep, Dropped, TypeOK
  <2>4. /\ step' = step + 1 /\ trace' = Record(trace, StepStart(turn, step + 1))
        /\ claimed' = <<>> /\ owed' = FALSE /\ pc' = "entered"
        /\ UNCHANGED <<phase, turn, cause, wakeRequested, inbox, turnEnds, sendVars,
                       retiring, outcome, prompts, asked, waking>>
    BY <1>14 DEF EnterStep
  <2>5. step' \in Nat /\ trace' \in Traces /\ claimed' \in Seq(Msgs) /\ pc' \in PCs
    BY <2>1, <2>2, <2>4, EmptySeq DEF PCs
  <2>6. /\ owed' = FALSE
        /\ UNCHANGED <<phase, turn, cause, wakeRequested, inbox, turnEnds, sendVars,
                       retiring, outcome, prompts, asked, waking>>
    BY <2>4
  <2> QED
    BY <2>3, <2>5, <2>6, ZenonT(40) DEF TypeOK
<1>15. CASE Request
  <2>1. Record(trace, RequestHeader) \in Traces
    BY RecordRequestHeader DEF TypeOK
  <2> QED
    BY <1>15, <2>1 DEF Request, TypeOK, PCs
<1>16. ASSUME NEW stepEnd \in {"completed", "max-tokens"}, Answer(stepEnd)
       PROVE  TypeOK'
  <2>1. Record(Record(trace, AssistantMessage(turn, step)), StepEnd(turn, step)) \in Traces
    BY RecordAssistantMessage, RecordStepEnd DEF TypeOK
  <2> QED
    BY <1>16, <2>1 DEF Answer, FinishStep, TypeOK, PCs
<1>17. CASE CallTools
  <2>1. Record(trace, AssistantMessage(turn, step)) \in Traces
    BY RecordAssistantMessage DEF TypeOK
  <2> QED
    BY <1>17, <2>1 DEF CallTools, TypeOK, PCs
<1>18. ASSUME NEW concluded \in BOOLEAN, ToolsSettle(concluded)
       PROVE  TypeOK'
  <2>1. Record(trace, StepEnd(turn, step)) \in Traces
    BY RecordStepEnd DEF TypeOK
  <2> QED
    BY <1>18, <2>1 DEF ToolsSettle, FinishStep, TypeOK, PCs
<1>19. CASE LeaveStep
  <2>1. Record(trace, StepEnd(turn, step)) \in Traces
    BY RecordStepEnd DEF TypeOK
  <2> QED
    BY <1>19, <2>1 DEF LeaveStep, TypeOK, PCs
<1>20. CASE Fail
  BY <1>20, EmptySeq DEF Fail, Dropped, TypeOK, PCs
<1>21. CASE EndFailedTurn
  BY <1>21, CloseTurnType DEF EndFailedTurn, TypeOK, PCs, Reasons
<1>22. CASE AbortTurn
  BY <1>22, CloseTurnType DEF AbortTurn, TypeOK, PCs, Reasons
<1>23. CASE TurnStopping
  BY <1>23 DEF TurnStopping, TypeOK, PCs
<1>24. CASE Continue
  BY <1>24, ClaimType DEF Continue, TypeOK, PCs
<1>25. CASE Stop
  BY <1>25, CloseTurnType DEF Stop, TypeOK, PCs, Reasons
<1>26. CASE NextTurn
  BY <1>26 DEF NextTurn, TypeOK, PCs, NoCause, NoWakes
<1>27. CASE LeaveTurn
  BY <1>27 DEF LeaveTurn, TypeOK, PCs
<1>28. CASE Retire
  BY <1>28 DEF Retire, TypeOK, PCs, NoCause, NoWakes
<1>29. CASE Replay
  <2>1. CASE WakeDriver(FALSE)
    <3>1. /\ phase' \in {"idle", "maintenance", "running"} /\ step' \in Nat
          /\ cause' \in Causes \cup {NoCause} /\ wakeRequested' \in BOOLEAN
          /\ pc' \in PCs /\ asked' \in {"no", "cancel", "dispose"}
          /\ waking' \in [Msgs -> {"no", "joined", "late"}]
      BY <2>1, WakeDriverType
    <3>2. /\ retiring' = "no"
          /\ UNCHANGED <<turn, inbox, localVars, sendVars, trace, fate, outcome, owed, prompts>>
      BY <1>29 DEF Replay
    <3> QED
      BY <3>1, <3>2 DEF TypeOK
  <2>2. CASE ~WakeDriver(FALSE)
    BY <1>29, <2>2 DEF Replay, TypeOK, NoWakes
  <2> QED
    BY <2>1, <2>2
<1>30. CASE UNCHANGED vars
  BY <1>30 DEF vars, TypeOK
<1> QED
  BY <1>1, <1>2, <1>3, <1>4, <1>4a, <1>5, <1>6, <1>7, <1>8, <1>9, <1>10, <1>11,
     <1>12, <1>13, <1>14, <1>15, <1>16, <1>17, <1>18, <1>19, <1>20, <1>21,
     <1>22, <1>23, <1>24, <1>25, <1>26, <1>27, <1>28, <1>29, <1>30
  DEF Next, Progress, DriverStep, UserStep

\* Every variable of a reachable state has its type, for any set of messages.
THEOREM TypeCorrect == Spec => []TypeOK
<1>1. Init => TypeOK
  BY TypeInit
<1>2. TypeOK /\ [Next]_vars => TypeOK'
  BY TypeStep
<1> QED
  BY <1>1, <1>2, PTL DEF Spec

-----------------------------------------------------------------------------
(* The log is always one the session companion accepts. LogAccepted is not *)
(* inductive: whether the next event is accepted depends on what the log   *)
(* has open, so LogMirrorsDriver ties that to where the driver stands.     *)

LogInv == LogAccepted /\ LogMirrorsDriver

\* The fresh log is balanced and accepted.
LEMMA LogInit == Init => LogInv
BY DEF  Init, LogInv, LogAccepted, LogMirrorsDriver, FreshTrace, InTurn, InStep, None

\* turn/end is accepted wherever a turn is open and no step is, and leaves the
\* log balanced.
LEMMA CloseTurnLog ==
  ASSUME TypeOK, LogInv, NEW reason, CloseTurn(reason), InTurn, ~InStep,
         phase' = phase, turn' = turn, step' = step
  PROVE  LogInv'
<1>1. trace' = Record(trace, TurnEnd(turn)) /\ pc' = "closing"
  BY DEF CloseTurn
<1>2. /\ trace'.openTurn = None /\ trace'.openStep = trace.openStep
      /\ trace'.nextTurn = trace.nextTurn + 1
      /\ trace'.ok <=> (trace.ok /\ trace.openTurn = turn /\ trace.openStep = None)
  <2> DEFINE r == Record(trace, TurnEnd(turn))
  <2>1. trace \in Traces /\ turn \in Nat
    BY DEF TypeOK
  <2>2. /\ r.openTurn = None /\ r.openStep = trace.openStep
        /\ r.nextTurn = trace.nextTurn + 1
        /\ r.ok <=> (trace.ok /\ trace.openTurn = turn /\ trace.openStep = None)
    BY <2>1, RecordTurnEnd
  <2>3. trace' = r
    BY <1>1
  <2> HIDE DEF r
  <2> QED
    BY <2>2, <2>3
<1>3. ~InTurn' /\ ~InStep'
  BY <1>1 DEF InTurn, InStep
<1>4. phase = "running" /\ turn \in Nat /\ step \in Nat
  BY DEF InTurn, LogInv, LogMirrorsDriver, TypeOK
<1> QED
  BY <1>1, <1>2, <1>3, <1>4 DEF LogInv, LogAccepted, LogMirrorsDriver

\* A step that appends nothing keeps the log invariant when the driver stays
\* inside the turn it was in, or outside any, and likewise for the step.
LEMMA NoAppend ==
  ASSUME LogInv, trace' = trace, turn' = turn,
         InTurn' <=> InTurn, InStep' <=> InStep,
         InTurn => step' = step,
         pc' \in {"reserved", "kick"} => step' = 0,
         phase' # "running" => pc' = "off"
  PROVE  LogInv'
<1>1. InStep => InTurn
  BY DEF InStep, InTurn
<1>2. InStep => step' = step
  BY <1>1
<1>3. trace'.ok
  BY DEF LogInv, LogAccepted
<1>4. LogMirrorsDriver'
  BY <1>1, <1>2 DEF LogInv, LogMirrorsDriver
<1> QED
  BY <1>3, <1>4 DEF LogInv, LogAccepted

\* Starting a driver opens nothing; latching a wake moves nothing.
LEMMA WakeDriverLog ==
  ASSUME LogInv, NEW afterAbort, WakeDriver(afterAbort), trace' = trace, turn' = turn
  PROVE  LogInv'
<1>1. CASE phase = "idle" /\ StartDriver
  <2>1. pc = "off"
    BY <1>1 DEF LogInv, LogMirrorsDriver
  <2>2. ~InTurn /\ ~InStep /\ ~InTurn' /\ ~InStep'
    BY <1>1, <2>1 DEF StartDriver, InTurn, InStep
  <2> QED
    BY <1>1, <2>2, NoAppend DEF StartDriver
<1>2. CASE LatchWake(afterAbort)
  BY <1>2 DEF LatchWake, LogInv, LogAccepted, LogMirrorsDriver, InTurn, InStep
<1> QED
  BY <1>1, <1>2 DEF WakeDriver

\* Every action keeps the log accepted and in agreement with the driver.
LEMMA LogStep == TypeOK /\ LogInv /\ [Next]_vars => LogInv'
<1> SUFFICES ASSUME TypeOK, LogInv, [Next]_vars PROVE LogInv'
  OBVIOUS
<1> USE DEF agentVars, inbox, localVars, sendVars, history
<1>1. CASE UserStep
  <2>1. ASSUME NEW m \in Msgs, NEW target \in {"next-turn", "next-step"},
               NEW wakeup \in BOOLEAN, Send(m, target, wakeup)
        PROVE  UNCHANGED <<phase, turn, step, pc, trace>>
    BY <2>1 DEF Send
  <2>2. ASSUME NEW m \in Msgs, Prepend(m) \/ Remove(m)
        PROVE  UNCHANGED <<phase, turn, step, pc, trace>>
    BY <2>2 DEF Prepend, Remove
  <2>6. ASSUME NEW m \in Msgs, NEW n \in Msgs, Replace(m, n)
        PROVE  UNCHANGED <<phase, turn, step, pc, trace>>
    BY <2>6 DEF Replace
  <2>3. ASSUME NEW c \in Causes, NEW keep \in BOOLEAN, AskCancel(c, keep)
        PROVE  UNCHANGED <<phase, turn, step, pc, trace>>
    BY <2>3 DEF AskCancel, Cancel
  <2>4. CASE StartMaintenance
    <3>1. UNCHANGED <<turn, step, pc, trace>> /\ pc = "off"
      BY <2>4 DEF StartMaintenance, LogInv, LogMirrorsDriver
    <3> QED
      BY <3>1 DEF LogInv, LogAccepted, LogMirrorsDriver, InTurn, InStep
  <2>5. CASE UNCHANGED <<phase, turn, step, pc, trace>>
    BY <2>5 DEF LogInv, LogAccepted, LogMirrorsDriver, InTurn, InStep
  <2> QED
    BY <1>1, <2>1, <2>2, <2>6, <2>3, <2>4, <2>5 DEF UserStep
<1>2. CASE SendWakes
  BY <1>2, WakeDriverLog DEF SendWakes
<1>3. CASE EndMaintenance
  <2>1. pc = "off"
    BY <1>3 DEF EndMaintenance, LogInv, LogMirrorsDriver
  <2>2. ~InTurn /\ ~InStep /\ ~InTurn' /\ ~InStep'
    BY <1>3, <2>1 DEF EndMaintenance, StartDriver, InTurn, InStep
  <2>3. /\ trace' = trace /\ turn' = turn
        /\ pc' \in {"reserved", "kick"} => step' = 0
        /\ phase' # "running" => pc' = "off"
    BY <1>3, <2>1 DEF EndMaintenance, StartDriver
  <2> QED
    BY <2>2, <2>3, NoAppend
<1>4. CASE Replay
  <2>1. CASE WakeDriver(FALSE)
    BY <1>4, <2>1, WakeDriverLog DEF Replay
  <2>2. CASE UNCHANGED <<phase, turn, step, pc, trace>>
    BY <2>2 DEF LogInv, LogAccepted, LogMirrorsDriver, InTurn, InStep
  <2> QED
    BY <1>4, <2>1, <2>2 DEF Replay
<1>5. CASE OpenTurn
  <2>1. /\ pc' = "opened" /\ turn' = turn + 1 /\ step' = step /\ step = 0
        /\ phase' = phase /\ phase = "running"
        /\ trace' = Record(trace, TurnStart(turn + 1))
        /\ ~InTurn /\ ~InStep /\ InTurn' /\ ~InStep'
    BY <1>5 DEF OpenTurn, LogInv, LogMirrorsDriver, InTurn, InStep, TypeOK
  <2>2. /\ trace'.openTurn = turn + 1 /\ trace'.openStep = trace.openStep
        /\ trace'.nextTurn = trace.nextTurn /\ trace'.nextStep = 1
        /\ trace'.ok <=> (trace.ok /\ trace.openTurn = None /\ turn + 1 = trace.nextTurn)
    <3>1. turn + 1 \in Nat /\ trace \in Traces
      BY DEF TypeOK
    <3> QED
      BY <2>1, <3>1, RecordTurnStart
  <2>3. turn \in Nat
    BY DEF TypeOK
  <2> QED
    BY <2>1, <2>2, <2>3 DEF LogInv, LogAccepted, LogMirrorsDriver
<1>6. CASE AbandonTurn \/ NextTurn \/ LeaveTurn \/ Retire
  <2>1. ~InTurn /\ ~InStep /\ ~InTurn' /\ ~InStep'
    BY <1>6 DEF AbandonTurn, NextTurn, LeaveTurn, Retire, InTurn, InStep
  <2>2. /\ trace' = trace /\ turn' = turn
        /\ pc' \in {"reserved", "kick"} => step' = 0
        /\ phase' # "running" => pc' = "off"
    BY <1>6 DEF AbandonTurn, NextTurn, LeaveTurn, Retire, LogInv, LogMirrorsDriver
  <2> QED
    BY <2>1, <2>2, NoAppend
<1>7. CASE BeginProposal \/ Assembled \/ TurnStopping \/ Continue \/ Fail
  <2>1. InTurn /\ ~InStep /\ InTurn' /\ ~InStep'
    BY <1>7 DEF BeginProposal, Assembled, TurnStopping, Continue, Fail, Claim,
                InTurn, InStep
  <2>2. /\ trace' = trace /\ turn' = turn /\ step' = step
        /\ pc' \notin {"reserved", "kick"}
        /\ phase' # "running" => pc' = "off"
    BY <1>7 DEF BeginProposal, Assembled, TurnStopping, Continue, Fail, Claim,
                LogInv, LogMirrorsDriver
  <2> QED
    BY <2>1, <2>2, NoAppend
<1>8. CASE Reject \/ EnterNothing \/ EndFailedTurn \/ AbortTurn \/ Stop
  <2>1. InTurn /\ ~InStep /\ phase' = phase /\ turn' = turn /\ step' = step
    BY <1>8 DEF Reject, EnterNothing, EndFailedTurn, AbortTurn, Stop, InTurn, InStep
  <2>2. \E reason : CloseTurn(reason)
    BY <1>8 DEF Reject, EnterNothing, EndFailedTurn, AbortTurn, Stop
  <2> QED
    BY <2>1, <2>2, CloseTurnLog
<1>9. ASSUME NEW kept \in SUBSET Elems(claimed), NEW context \in BOOLEAN,
             EnterStep(kept, context)
      PROVE  LogInv'
  <2>1. /\ pc' = "entered" /\ turn' = turn /\ step' = step + 1
        /\ phase' = phase /\ phase = "running"
        /\ trace' = Record(trace, StepStart(turn, step + 1))
        /\ InTurn /\ ~InStep /\ InTurn' /\ InStep'
    BY <1>9 DEF EnterStep, LogInv, LogMirrorsDriver, InTurn, InStep
  <2>2. turn \in Nat /\ step \in Nat /\ step + 1 \in Nat /\ trace \in Traces
    BY DEF TypeOK
  <2>3. /\ trace'.openTurn = trace.openTurn /\ trace'.openStep = step + 1
        /\ trace'.nextTurn = trace.nextTurn /\ trace'.nextStep = trace.nextStep
        /\ trace'.ok <=> (/\ trace.ok /\ trace.openTurn = turn
                         /\ trace.openStep = None /\ step + 1 = trace.nextStep)
    BY <2>1, <2>2, RecordStepStart
  <2> QED
    BY <2>1, <2>2, <2>3 DEF LogInv, LogAccepted, LogMirrorsDriver
<1>10. CASE Request
  <2>1. /\ pc' = "model" /\ turn' = turn /\ step' = step /\ phase' = phase
        /\ trace' = Record(trace, RequestHeader)
        /\ InTurn /\ InStep /\ InTurn' /\ InStep'
    BY <1>10 DEF Request, InTurn, InStep
  <2>2. turn \in Nat /\ step \in Nat /\ trace \in Traces
    BY DEF TypeOK
  <2>3. /\ trace'.openTurn = trace.openTurn /\ trace'.openStep = trace.openStep
        /\ trace'.nextTurn = trace.nextTurn /\ trace'.nextStep = trace.nextStep
        /\ trace'.ok <=> (trace.ok /\ trace.openTurn # None)
    BY <2>1, <2>2, RecordRequestHeader
  <2> QED
    BY <1>10, <2>1, <2>2, <2>3 DEF Request, LogInv, LogAccepted, LogMirrorsDriver, None
<1>11. CASE CallTools
  <2>1. /\ pc' = "tools" /\ turn' = turn /\ step' = step /\ phase' = phase
        /\ trace' = Record(trace, AssistantMessage(turn, step))
        /\ InTurn /\ InStep /\ InTurn' /\ InStep'
    BY <1>11 DEF CallTools, InTurn, InStep
  <2>2. turn \in Nat /\ step \in Nat /\ trace \in Traces
    BY DEF TypeOK
  <2>3. /\ trace'.openTurn = trace.openTurn /\ trace'.openStep = trace.openStep
        /\ trace'.nextTurn = trace.nextTurn /\ trace'.nextStep = trace.nextStep
        /\ trace'.ok <=> (trace.ok /\ trace.openTurn = turn /\ trace.openStep = step)
    BY <2>1, <2>2, RecordAssistantMessage
  <2> QED
    BY <1>11, <2>1, <2>2, <2>3 DEF CallTools, LogInv, LogAccepted, LogMirrorsDriver
<1>12. ASSUME NEW log \in Traces, pc' \in {"stepEnded", "stepFailed"}, InStep,
              UNCHANGED <<phase, turn, step>>,
              trace' = Record(log, StepEnd(turn, step)),
              log.openTurn = trace.openTurn, log.openStep = trace.openStep,
              log.nextTurn = trace.nextTurn, log.nextStep = trace.nextStep,
              log.ok <=> trace.ok
       PROVE  LogInv'
  <2>1. InTurn /\ InTurn' /\ ~InStep' /\ phase = "running"
    BY <1>12 DEF InTurn, InStep, LogInv, LogMirrorsDriver
  <2>2. turn \in Nat /\ step \in Nat /\ log \in Traces
    BY <1>12 DEF TypeOK
  <2>3. /\ trace'.openTurn = log.openTurn /\ trace'.openStep = None
        /\ trace'.nextTurn = log.nextTurn /\ trace'.nextStep = log.nextStep + 1
        /\ trace'.ok <=> (log.ok /\ log.openTurn = turn /\ log.openStep = step)
    <3> DEFINE r == Record(log, StepEnd(turn, step))
    <3>1. /\ r.openTurn = log.openTurn /\ r.openStep = None
          /\ r.nextTurn = log.nextTurn /\ r.nextStep = log.nextStep + 1
          /\ r.ok <=> (log.ok /\ log.openTurn = turn /\ log.openStep = step)
      BY <2>2, RecordStepEnd
    <3>2. trace' = r
      BY <1>12
    <3> HIDE DEF r
    <3> QED
      BY <3>1, <3>2
  <2> QED
    BY <1>12, <2>1, <2>2, <2>3 DEF LogInv, LogAccepted, LogMirrorsDriver
<1>13. ASSUME NEW stepEnd \in {"completed", "max-tokens"}, Answer(stepEnd)
       PROVE  LogInv'
  <2> DEFINE log == Record(trace, AssistantMessage(turn, step))
  <2>1. InStep /\ InTurn
    BY <1>13 DEF Answer, InStep, InTurn
  <2>2. turn \in Nat /\ step \in Nat /\ trace \in Traces
    BY DEF TypeOK
  <2>3. /\ log \in Traces
        /\ log.openTurn = trace.openTurn /\ log.openStep = trace.openStep
        /\ log.nextTurn = trace.nextTurn /\ log.nextStep = trace.nextStep
        /\ log.ok <=> (trace.ok /\ trace.openTurn = turn /\ trace.openStep = step)
    BY <2>2, RecordAssistantMessage
  <2>4. log.ok <=> trace.ok
    BY <2>1, <2>3 DEF LogInv, LogMirrorsDriver
  <2>5. /\ pc' = "stepEnded" /\ UNCHANGED <<phase, turn, step>>
        /\ trace' = Record(log, StepEnd(turn, step))
    BY <1>13 DEF Answer, FinishStep
  <2> HIDE DEF log
  <2> QED
    BY <1>12, <2>1, <2>3, <2>4, <2>5
<1>14. ASSUME NEW concluded \in BOOLEAN, ToolsSettle(concluded) PROVE LogInv'
  <2>1. /\ InStep /\ trace \in Traces
        /\ pc' = "stepEnded" /\ UNCHANGED <<phase, turn, step>>
        /\ trace' = Record(trace, StepEnd(turn, step))
    BY <1>14 DEF ToolsSettle, FinishStep, InStep, TypeOK
  <2> QED
    BY <1>12, <2>1
<1>15. CASE LeaveStep
  <2>1. /\ InStep /\ trace \in Traces
        /\ pc' = "stepFailed" /\ UNCHANGED <<phase, turn, step>>
        /\ trace' = Record(trace, StepEnd(turn, step))
    BY <1>15 DEF LeaveStep, InStep, TypeOK
  <2> QED
    BY <1>12, <2>1
<1>16. CASE UNCHANGED vars
  BY <1>16 DEF vars, LogInv, LogAccepted, LogMirrorsDriver, InTurn, InStep
<1> QED
  BY <1>1, <1>2, <1>3, <1>4, <1>5, <1>6, <1>7, <1>8, <1>9, <1>10, <1>11,
     <1>13, <1>14, <1>15, <1>16
  DEF Next, Progress, DriverStep

\* Whatever the interleaving of users, listeners and the driver, the loop never
\* appends an event that the session companion rejects.
THEOREM LogCorrect == Spec => []LogAccepted
<1>1. Init => TypeOK /\ LogInv
  BY TypeInit, LogInit
<1>2. TypeOK /\ LogInv /\ [Next]_vars => (TypeOK /\ LogInv)'
  BY TypeStep, LogStep
<1>3. LogInv => LogAccepted
  BY DEF LogInv
<1> QED
  BY <1>1, <1>2, <1>3, PTL DEF Spec

\* In memory and in the log, the same turn and the same step are open.
THEOREM LogMirrored == Spec => []LogMirrorsDriver
<1>1. Init => TypeOK /\ LogInv
  BY TypeInit, LogInit
<1>2. TypeOK /\ LogInv /\ [Next]_vars => (TypeOK /\ LogInv)'
  BY TypeStep, LogStep
<1>3. LogInv => LogMirrorsDriver
  BY DEF LogInv
<1> QED
  BY <1>1, <1>2, <1>3, PTL DEF Spec

\* No turn or step stays open in the log once its driver has left it.
BalancedBetweenTurns ==
  pc \in {"off", "reserved", "kick", "exit"} =>
    trace.openTurn = None /\ trace.openStep = None

\* Between two turns, and while no driver runs, the log is balanced.
THEOREM BalanceCorrect == Spec => []BalancedBetweenTurns
<1>1. LogMirrorsDriver => BalancedBetweenTurns
  BY DEF LogMirrorsDriver, BalancedBetweenTurns, InTurn, InStep
<1> QED
  BY <1>1, LogMirrored, PTL

-----------------------------------------------------------------------------
(* Aborted turns.                                                          *)

\* An aborted driver can only close its step, then its turn: everything else it
\* does between two awaits checks the signal first.
LEMMA AbortedOpensNothing ==
  ASSUME TypeOK, Next, Aborted
  PROVE  trace'.openStep \in {trace.openStep, None}
<1> USE DEF agentVars, inbox, localVars, sendVars, history
<1>1. trace \in Traces /\ turn \in Nat /\ step \in Nat
  BY DEF TypeOK
<1>2. CASE UserStep
  BY <1>2 DEF UserStep, Send, Prepend, Remove, Replace, AskCancel, StartMaintenance
<1>3. CASE Replay \/ SendWakes \/ EndMaintenance
  BY <1>3 DEF Replay, SendWakes, EndMaintenance
<1>4. CASE DriverStep
  <2>1. CASE \/ AbandonTurn \/ LeaveTurn \/ Retire \/ NextTurn
             \/ OpenTurn \/ BeginProposal \/ Assembled \/ Reject \/ EnterNothing
             \/ Request \/ CallTools \/ Fail \/ TurnStopping \/ Continue \/ Stop
             \/ \E kept \in SUBSET Elems(claimed), context \in BOOLEAN : EnterStep(kept, context)
             \/ \E stepEnd \in {"completed", "max-tokens"} : Answer(stepEnd)
             \/ \E concluded \in BOOLEAN : ToolsSettle(concluded)
    BY <2>1 DEF AbandonTurn, LeaveTurn, Retire, NextTurn, OpenTurn, BeginProposal, Assembled,
                Reject, EnterNothing, EnterStep, Request, Answer, CallTools, ToolsSettle,
                Fail, TurnStopping, Continue, Stop
  <2>2. CASE LeaveStep
    <3>1. trace' = Record(trace, StepEnd(turn, step))
      BY <2>2 DEF LeaveStep
    <3>2. Record(trace, StepEnd(turn, step)).openStep = None
      BY <1>1, RecordStepEnd
    <3> QED
      BY <3>1, <3>2
  <2>3. CASE EndFailedTurn \/ AbortTurn
    <3>1. trace' = Record(trace, TurnEnd(turn))
      BY <2>3 DEF EndFailedTurn, AbortTurn, CloseTurn
    <3>2. Record(trace, TurnEnd(turn)).openStep = trace.openStep
      BY <1>1, RecordTurnEnd
    <3> QED
      BY <3>1, <3>2
  <2> QED
    BY <1>4, <2>1, <2>2, <2>3 DEF DriverStep
<1> QED
  BY <1>2, <1>3, <1>4 DEF Next, Progress

\* An aborted turn enters no further step, wherever the abort lands
\* (throwIfAborted after each await of ReactLoopAgent.turn).
THEOREM AbortStopsSteps == Spec => NoStepAfterAbort
<1>1. TypeOK /\ [Next]_vars =>
        [Aborted => trace'.openStep \in {trace.openStep, None}]_vars
  BY AbortedOpensNothing
<1> QED
  BY <1>1, TypeCorrect, PTL DEF Spec, NoStepAfterAbort

\* Which actions append turn/end, and with which reason.
LEMMA AbortedCloses ==
  ASSUME Next, Aborted, pc # "closing", pc' = "closing"
  PROVE  outcome' \in {"aborted", "error"}
<1> USE DEF agentVars, inbox, localVars, sendVars, history
<1>1. CASE EndFailedTurn \/ AbortTurn
  BY <1>1 DEF EndFailedTurn, AbortTurn, CloseTurn
<1>2. ~UserStep
  BY DEF UserStep, Send, Prepend, Remove, Replace, AskCancel, StartMaintenance
<1>3. ~(Replay \/ SendWakes \/ EndMaintenance)
  BY DEF Replay, SendWakes, EndMaintenance, WakeDriver, StartDriver, LatchWake
<1>4. ~(\/ OpenTurn \/ BeginProposal \/ Assembled \/ Reject \/ EnterNothing
        \/ \E kept \in SUBSET Elems(claimed), context \in BOOLEAN : EnterStep(kept, context)
        \/ Request \/ CallTools \/ Fail \/ TurnStopping \/ Continue \/ Stop
        \/ \E stepEnd \in {"completed", "max-tokens"} : Answer(stepEnd)
        \/ \E concluded \in BOOLEAN : ToolsSettle(concluded))
  BY DEF OpenTurn, BeginProposal, Assembled, Reject, EnterNothing, EnterStep, Request,
         CallTools, Fail, TurnStopping, Continue, Stop, Answer, ToolsSettle
<1>5. ~(AbandonTurn \/ LeaveStep \/ NextTurn \/ LeaveTurn \/ Retire)
  BY DEF AbandonTurn, LeaveStep, NextTurn, LeaveTurn, Retire
<1> QED
  BY <1>1, <1>2, <1>3, <1>4, <1>5 DEF Next, Progress, DriverStep

\* A turn whose signal is aborted never ends as a success: the catch block of
\* turn() maps the abort to "aborted", unless agent/error came first.
THEOREM AbortsAreReported == Spec => AbortIsReported
<1>1. [Next]_vars =>
        [Aborted /\ pc # "closing" /\ pc' = "closing" => outcome' \in {"aborted", "error"}]_vars
  BY AbortedCloses
<1> QED
  BY <1>1, PTL DEF Spec, AbortIsReported

\* Both promises of a cancellation together: no step after it, no success.
THEOREM AbortFinal == Spec => AbortIsFinal
BY AbortStopsSteps, AbortsAreReported DEF AbortIsFinal

-----------------------------------------------------------------------------
(* The wake latch. LatchIsNeeded is not inductive: a waking send is         *)
(* classified before the observers of its insertion run, and latches only  *)
(* after them. LatchInv says what its classification is still worth then.  *)

BehindActivity == \E m \in Msgs : waking[m] = "late"

LatchInv ==
  /\ LatchIsNeeded
  /\ wakingAfterAbort => sending # {} /\ phase # "idle" /\ Aborted
  /\ sending # {} /\ (phase = "maintenance" \/ wakingAfterAbort) =>
       cause = "disposed" \/ BehindActivity
  /\ retiring = "replay" /\ phase # "running" => BehindActivity

\* No wake is latched, and none is on its way, in the initial state.
LEMMA LatchInit == Init => LatchInv
BY DEF Init, LatchInv, LatchIsNeeded

\* wakeDriver latches only what LatchInv allows.
LEMMA WakeDriverLatch ==
  ASSUME TypeOK, LogInv, LatchInv, WakeDriver(wakingAfterAbort), sending # {},
         sending' = {}, wakingAfterAbort' = FALSE, retiring' = retiring
  PROVE  LatchInv'
<1>1. CASE phase = "idle" /\ StartDriver
  BY <1>1 DEF StartDriver, LatchInv, LatchIsNeeded
<1>2. CASE phase # "idle" /\ LatchWake(wakingAfterAbort)
  BY <1>2 DEF LatchWake, LatchInv, LatchIsNeeded, BehindActivity, TypeOK, Aborted
<1> QED
  BY <1>1, <1>2 DEF WakeDriver

\* Every action keeps the latch invariant.
LEMMA LatchStep == TypeOK /\ LogInv /\ LatchInv /\ [Next]_vars => LatchInv'
<1> SUFFICES ASSUME TypeOK, LogInv, LatchInv, [Next]_vars PROVE LatchInv'
  OBVIOUS
<1> USE DEF agentVars, inbox, localVars, sendVars, history
<1>1. ASSUME NEW m \in Msgs, NEW target \in {"next-turn", "next-step"},
             NEW wakeup \in BOOLEAN, Send(m, target, wakeup)
      PROVE  LatchInv'
  <2>1. UNCHANGED agentVars
    BY <1>1 DEF Send
  <2>2. ASSUME phase # "running" \/ Aborted, NEW x \in Msgs, waking[x] = "late"
        PROVE  waking'[x] = "late"
    <3>1. CASE UNCHANGED waking
      BY <2>2, <3>1
    <3>2. CASE /\ wakeup /\ phase # "idle"
               /\ waking' = [waking EXCEPT ![m] =
                     IF phase = "maintenance" \/ wakingAfterAbort'
                     THEN "late" ELSE "joined"]
      <4>1. wakingAfterAbort' <=> Aborted
        BY <1>1, <3>2 DEF Send
      <4>2. phase = "maintenance" \/ wakingAfterAbort'
        BY <2>2, <3>2, <4>1 DEF TypeOK
      <4> QED
        BY <2>2, <3>2, <4>2 DEF TypeOK
    <3> QED
      BY <1>1, <3>1, <3>2 DEF Send
  <2>3. LatchIsNeeded'
    BY <2>1, <2>2 DEF LatchInv, LatchIsNeeded, Aborted
  <2>4. /\ wakingAfterAbort' <=> (wakeup /\ phase # "idle" /\ Aborted)
        /\ sending' = IF wakeup THEN {m} ELSE {}
        /\ retiring' = retiring
    BY <1>1 DEF Send
  <2>5. ASSUME sending' # {}, phase = "maintenance" \/ wakingAfterAbort', cause # "disposed"
        PROVE  BehindActivity'
    <3>1. waking' = [waking EXCEPT ![m] = IF phase = "maintenance" \/ wakingAfterAbort'
                                          THEN "late" ELSE "joined"]
      BY <1>1, <2>4, <2>5 DEF Send
    <3>2. waking'[m] = "late"
      BY <2>5, <3>1 DEF TypeOK
    <3> QED
      BY <3>2 DEF BehindActivity
  <2>6. wakingAfterAbort' => sending' # {} /\ phase' # "idle" /\ Aborted'
    BY <2>1, <2>4 DEF Aborted
  <2>7. sending' # {} /\ (phase' = "maintenance" \/ wakingAfterAbort') =>
          cause' = "disposed" \/ BehindActivity'
    BY <2>1, <2>5
  <2>8. retiring' = "replay" /\ phase' # "running" => BehindActivity'
    BY <2>1, <2>2, <2>4 DEF LatchInv, BehindActivity
  <2> QED
    BY <2>3, <2>6, <2>7, <2>8 DEF LatchInv
<1>2. ASSUME NEW m \in Msgs, Prepend(m) \/ Remove(m) PROVE LatchInv'
  <2>1. UNCHANGED <<agentVars, sendVars, retiring, waking>>
    BY <1>2 DEF Prepend, Remove
  <2> QED
    BY <2>1 DEF LatchInv, LatchIsNeeded, BehindActivity, Aborted
<1>3. ASSUME NEW m \in Msgs, NEW n \in Msgs, Replace(m, n) PROVE LatchInv'
  <2>1. UNCHANGED <<agentVars, sendVars, retiring, waking>>
    BY <1>3 DEF Replace
  <2> QED
    BY <2>1 DEF LatchInv, LatchIsNeeded, BehindActivity, Aborted
<1>4. ASSUME NEW c \in Causes, NEW keep \in BOOLEAN, AskCancel(c, keep)
      PROVE  LatchInv'
  <2>1. CASE Cancel(c, keep)
    <3>1. /\ UNCHANGED <<phase, sendVars, retiring, waking>>
          /\ wakeRequested' => wakeRequested
      BY <1>4, <2>1 DEF AskCancel, Cancel, TypeOK
    <3>2. Aborted => Aborted' /\ cause' = cause
      BY <2>1 DEF Cancel, AbortActivity, Aborted
    <3>3. ~Aborted => cause # "disposed"
      BY DEF Aborted, NoCause
    <3> QED
      BY <3>1, <3>2, <3>3 DEF LatchInv, LatchIsNeeded, BehindActivity
  <2>2. CASE UNCHANGED agentVars
    BY <1>4, <2>2 DEF AskCancel, LatchInv, LatchIsNeeded, BehindActivity, Aborted
  <2> QED
    BY <1>4, <2>1, <2>2 DEF AskCancel
<1>5. CASE StartMaintenance
  <2>1. ~wakeRequested' /\ UNCHANGED <<sendVars, retiring>> /\ phase = "idle"
        /\ waking' = [m \in Msgs |-> IF m \in sending THEN "late" ELSE waking[m]]
    BY <1>5 DEF StartMaintenance
  <2>2. sending # {} => BehindActivity'
    BY <2>1 DEF BehindActivity, TypeOK
  <2>3. BehindActivity => BehindActivity'
    BY <2>1 DEF BehindActivity, TypeOK
  <2> QED
    BY <2>1, <2>2, <2>3 DEF LatchInv, LatchIsNeeded
<1>6. CASE SendWakes
  BY <1>6, WakeDriverLatch DEF SendWakes, localVars
<1>7. CASE EndMaintenance
  <2>1. /\ sending = {} /\ retiring = "no"
        /\ ~wakeRequested' /\ UNCHANGED <<sendVars, retiring>>
    BY <1>7 DEF EndMaintenance, StartDriver, Quiet
  <2> QED
    BY <2>1 DEF LatchInv, LatchIsNeeded
<1>8. CASE Replay
  <2>1. sending = {} /\ retiring' = "no" /\ UNCHANGED sendVars /\ ~wakingAfterAbort
    BY <1>8 DEF Replay, LatchInv
  <2>2. CASE phase = "idle" /\ StartDriver
    BY <2>1, <2>2 DEF StartDriver, LatchInv, LatchIsNeeded
  <2>3. CASE retiring = "replay" /\ phase # "idle" /\ LatchWake(FALSE)
    <3>1. UNCHANGED <<phase, cause, waking>>
      BY <2>3 DEF LatchWake
    <3>2. wakeRequested' => wakeRequested \/ phase = "maintenance"
      BY <2>3 DEF LatchWake, TypeOK
    <3>3. phase = "maintenance" => BehindActivity
      BY <2>3 DEF LatchInv
    <3> QED
      BY <2>1, <3>1, <3>2, <3>3 DEF LatchInv, LatchIsNeeded, BehindActivity, Aborted
  <2>4. CASE /\ waking' = IF phase = "idle" THEN NoWakes ELSE waking
             /\ UNCHANGED <<phase, cause, wakeRequested>>
    BY <2>1, <2>4 DEF LatchInv, LatchIsNeeded, BehindActivity, Aborted
  <2> QED
    BY <1>8, <2>2, <2>3, <2>4 DEF Replay, WakeDriver
<1>9. CASE NextTurn \/ Retire
  <2>1. sending = {} /\ ~wakeRequested' /\ UNCHANGED sendVars /\ ~wakingAfterAbort
    BY <1>9 DEF NextTurn, Retire, Quiet, LatchInv
  <2>2. retiring' = "replay" => BehindActivity'
    BY <1>9 DEF NextTurn, Retire, Quiet, LatchInv, LatchIsNeeded, BehindActivity
  <2> QED
    BY <2>1, <2>2 DEF LatchInv, LatchIsNeeded
<1>10. CASE UNCHANGED <<phase, cause, wakeRequested, sendVars, retiring, waking>>
  BY <1>10 DEF LatchInv, LatchIsNeeded, BehindActivity, Aborted
<1>11. CASE DriverStep
  <2>1. \/ NextTurn \/ Retire
        \/ UNCHANGED <<phase, cause, wakeRequested, sendVars, retiring, waking>>
    BY <1>11 DEF DriverStep, OpenTurn, AbandonTurn, BeginProposal, Assembled, Reject,
       EnterNothing, EnterStep, Request, CallTools, LeaveStep, Answer, ToolsSettle,
       FinishStep, Fail, EndFailedTurn, AbortTurn, TurnStopping, Continue, Stop, LeaveTurn
  <2> QED
    BY <1>9, <1>10, <2>1
<1>12. CASE UNCHANGED vars
  BY <1>10, <1>12 DEF vars
<1> QED
  BY <1>1, <1>2, <1>3, <1>4, <1>5, <1>6, <1>7, <1>8, <1>11, <1>12
  DEF Next, Progress, UserStep

\* A wake is latched only behind maintenance or an aborted driver, and only for
\* waking input that arrived there: a live driver is never replayed.
THEOREM LatchCorrect == Spec => []LatchIsNeeded
<1>1. Init => TypeOK /\ LogInv /\ LatchInv
  BY TypeInit, LogInit, LatchInit
<1>2. TypeOK /\ LogInv /\ LatchInv /\ [Next]_vars => (TypeOK /\ LogInv /\ LatchInv)'
  BY TypeStep, LogStep, LatchStep
<1>3. LatchInv => LatchIsNeeded
  BY DEF LatchInv
<1> QED
  BY <1>1, <1>2, <1>3, PTL DEF Spec
=============================================================================
