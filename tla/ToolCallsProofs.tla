-------------------------- MODULE ToolCallsProofs --------------------------
(* Theorems about ToolCalls, for any number of calls and any pool size. *)
EXTENDS ToolCalls, FiniteSetTheorems, SequenceTheorems, TLAPS

-----------------------------------------------------------------------------
(* The inductive invariant.                                                *)

\* runGroup is under way: its counters describe the group and not its neighbours.
InGroup == pc \notin {"group", "skip", "done"}

\* Where the counters of the batch and of its running group stand.
Counting ==
  /\ committed <= started
  /\ pc \in {"group", "skip"} => started < N
  /\ pc = "done" => started = N
  /\ pc = "group" => committed = started
  /\ pc = "preparing" => committed < started
  /\ InGroup => /\ groupStart <= committed /\ started <= groupEnd
                /\ mode = "exclusive" => groupEnd = groupStart + 1

\* What the counters and the program counter say of each call, and what each
\* call says of the rest.
Statuses ==
  \A c \in Calls :
    /\ status[c] = "planned" <=> started < c
    /\ status[c] = "answered" <=> c <= committed
    /\ status[c] = "preparing" <=> pc = "preparing" /\ c = started
    /\ status[c] = "lost" => failure
    /\ status[c] = "skipped" => pc \in {"skip", "done"}
    /\ ~InGroup => status[c] \notin {"running", "ready", "lost"}
    /\ pc = "failed" => status[c] # "running"

\* The pool holds every running body, and never more than Max calls.
Pool ==
  /\ \A c \in Calls : status[c] = "running" => c \in inFlight
  /\ \A c \in inFlight : status[c] \in {"running", "ready", "lost", "answered"}
  /\ ~InGroup => inFlight = {}
  /\ Cardinality(inFlight) <= Max
  /\ pc = "preparing" => HasRoom

\* The calls of the running group were started under its mode.
Kinds == InGroup => \A c \in Calls : groupStart < c /\ c <= started => kind[c] = mode

\* Where a failure and an abort have been noticed: the fill loop starts calls only
\* between a fresh look at both and the next await.
Samples ==
  /\ pc \in {"group", "fill", "skip", "done"} => ~failure
  /\ pc \in {"draining", "failed"} => failure
  /\ pc = "fill" => ~NextReady /\ (signal => aborted)
  /\ pc = "finalizing" => NextReady

\* Results so far are the first calls of the message, in order.
InOrder(n) == [i \in 1..n |-> i]
Answers == answered = InOrder(IF pc \in {"skip", "done"} THEN started ELSE committed)

\* A result that concludes the turn is remembered by its group or by the batch.
Conclusions ==
  /\ concluded \/ groupConcluded <=> concluding # {}
  /\ ~InGroup => (groupConcluded => concluded)

\* The accepted trace of an open step whose calls in P await their result.
StepTrace(P) == [openTurn |-> 1, openStep |-> 1, nextTurn |-> 1, nextStep |-> 1,
                 pendingCalls |-> P, ok |-> TRUE]
Pending == {c \in Calls : status[c] \in {"preparing", "running", "ready", "lost"}}
Logged == trace = StepTrace(Pending)

IInv ==
  /\ TypeOK
  /\ Counting /\ Statuses /\ Pool /\ Kinds
  /\ Samples /\ Answers /\ Conclusions /\ Logged

\* The calls of a message, and so the pool, are finitely many.
LEMMA PoolFinite ==
  ASSUME TypeOK
  PROVE  IsFiniteSet(inFlight) /\ Cardinality(inFlight) \in Nat
<1>1. IsFiniteSet(Calls)
  BY FS_Interval, BoundsAssumption DEF Calls
<1> QED
  BY <1>1, FS_Subset, FS_CardinalityType DEF TypeOK

-----------------------------------------------------------------------------
(* What the events of a batch do to the log.                               *)

\* A tool/call of the open step is accepted and awaits its result.
LEMMA RecordToolCall ==
  ASSUME NEW P, NEW c \in Calls
  PROVE  Record(StepTrace(P), ToolCall(1, 1, c)) = StepTrace(P \cup {c})
<1> DEFINE e == ToolCall(1, 1, c)
           t == StepTrace(P)
<1>1. Valid(t, e)
  BY DEF Valid, ToolCall, InOpenStep, StepTrace
<1>2. Committed(t, e) = StepTrace(P \cup {c})
  BY DEF Committed, ToolCall, StepTrace
<1>3. Record(t, e) = [StepTrace(P \cup {c}) EXCEPT !.ok = t.ok /\ Valid(t, e)]
  BY <1>2 DEF Record
<1>4. t.ok
  BY DEF StepTrace
<1> HIDE DEF t, e
<1>5. (t.ok /\ Valid(t, e)) = TRUE
  BY <1>1, <1>4
<1> QED
  BY <1>3, <1>5 DEF StepTrace, t, e

\* The result of a call that awaits it is accepted and settles the call.
LEMMA RecordToolResult ==
  ASSUME NEW P, NEW c \in P
  PROVE  Record(StepTrace(P), ToolResult(1, 1, c, FALSE)) = StepTrace(P \ {c})
<1> DEFINE e == ToolResult(1, 1, c, FALSE)
           t == StepTrace(P)
<1>1. Valid(t, e)
  BY DEF Valid, ToolResult, InOpenStep, StepTrace
<1>2. Committed(t, e) = StepTrace(P \ {c})
  BY DEF Committed, ToolResult, StepTrace
<1>3. Record(t, e) = [StepTrace(P \ {c}) EXCEPT !.ok = t.ok /\ Valid(t, e)]
  BY <1>2 DEF Record
<1>4. t.ok
  BY DEF StepTrace
<1> HIDE DEF t, e
<1>5. (t.ok /\ Valid(t, e)) = TRUE
  BY <1>1, <1>4
<1> QED
  BY <1>3, <1>5 DEF StepTrace, t, e

\* The log a batch finds is that of a step without calls.
LEMMA FreshStep == OpenedStep = StepTrace({})
<1> DEFINE t == Record(FreshTrace, TurnStart(1))
<1>1. t = [openTurn |-> 1, openStep |-> 0, nextTurn |-> 1, nextStep |-> 1,
           pendingCalls |-> {}, ok |-> TRUE]
  <2>1. Committed(FreshTrace, TurnStart(1)) = [FreshTrace EXCEPT !.openTurn = 1, !.nextStep = 1]
    BY DEF Committed, TurnStart
  <2>2. Valid(FreshTrace, TurnStart(1))
    BY DEF Valid, TurnStart, FreshTrace, None
  <2>3. (FreshTrace.ok /\ Valid(FreshTrace, TurnStart(1))) = TRUE
    BY <2>2 DEF FreshTrace
  <2>4. t = [[FreshTrace EXCEPT !.openTurn = 1, !.nextStep = 1] EXCEPT !.ok = TRUE]
    BY <2>1, <2>3 DEF Record
  <2> HIDE DEF t
  <2> QED
    BY <2>4 DEF FreshTrace, None
<1>2. Record(t, StepStart(1, 1)) = StepTrace({})
  <2>1. Committed(t, StepStart(1, 1)) = [t EXCEPT !.openStep = 1]
    BY DEF Committed, StepStart
  <2>2. Valid(t, StepStart(1, 1))
    BY <1>1 DEF Valid, StepStart, FreshTrace, None
  <2> HIDE DEF t
  <2>3. (t.ok /\ Valid(t, StepStart(1, 1))) = TRUE
    BY <1>1, <2>2 DEF FreshTrace
  <2> QED
    BY <1>1, <2>1, <2>3 DEF Record, FreshTrace, StepTrace, None
<1> QED
  BY <1>2 DEF OpenedStep

-----------------------------------------------------------------------------
(* The invariant holds initially and is kept.                              *)

\* A batch starts with every call planned, in the step the driver opened.
LEMMA InvInit == Init => IInv
<1> SUFFICES ASSUME Init PROVE IInv
  OBVIOUS
<1> USE BoundsAssumption DEF Init, Calls, Modes, InGroup
<1>1. TypeOK
  <2>1. answered \in Seq(Calls)
    BY EmptySeq
  <2>2. /\ status \in [Calls -> {"planned", "preparing", "running", "ready", "lost",
                              "answered", "skipped"}]
        /\ kind \in [Calls -> Modes]
    OBVIOUS
  <2>3. pc \in {"group", "done"} /\ mode \in Modes
    OBVIOUS
  <2>4. /\ groupStart \in 0..N /\ groupEnd \in 0..N
        /\ started \in 0..N /\ committed \in 0..N
    OBVIOUS
  <2>5. /\ inFlight \subseteq Calls /\ concluding \subseteq Calls
        /\ signal \in BOOLEAN /\ aborted \in BOOLEAN /\ failure \in BOOLEAN
        /\ concluded \in BOOLEAN /\ groupConcluded \in BOOLEAN
    OBVIOUS
  <2> QED
    BY <2>1, <2>2, <2>3, <2>4, <2>5 DEF TypeOK
<1>2. Counting /\ Statuses /\ Kinds
  BY DEF Counting, Statuses, Kinds
<1>3. Cardinality(inFlight) = 0
  BY FS_EmptySet
<1>4. Pool /\ Samples
  BY <1>3 DEF Pool, Samples, NextReady
<1>5. Answers /\ Conclusions
  BY DEF Answers, InOrder, Conclusions
<1>6. Pending = {}
  BY DEF Pending
<1>7. Logged
  BY <1>6, FreshStep DEF Logged
<1> QED
  BY <1>1, <1>2, <1>4, <1>5, <1>7 DEF IInv

\* No step of the batch, and none of the code around it, leaves the types.
LEMMA TypeStep ==
  ASSUME TypeOK, Counting, Samples, [Next]_vars
  PROVE  TypeOK'
<1> USE BoundsAssumption DEF group, history, Calls, Modes
<1>1. ASSUME NEW m \in Modes, StartGroup(m)
      PROVE  TypeOK'
  <2>1. groupStart' \in 0..N /\ groupEnd' \in 0..N
    BY <1>1 DEF StartGroup, TypeOK, Counting
  <2> QED
    BY <1>1, <2>1 DEF StartGroup, TypeOK
<1>2. CASE Start
  BY <1>2 DEF TypeOK, Start
<1>3. CASE PrepareFails
  BY <1>3 DEF TypeOK, PrepareFails
<1>4. ASSUME NEW dispatched \in BOOLEAN, Prepared(dispatched)
      PROVE  TypeOK'
  BY <1>4 DEF TypeOK, Counting, InGroup, Prepared
<1>5. CASE Finalize
  BY <1>5 DEF TypeOK, Finalize
<1>6. CASE FinalizeFails
  BY <1>6 DEF TypeOK, FinalizeFails
<1>7. CASE CommitDone
  BY <1>7 DEF TypeOK, CommitDone
<1>8. ASSUME NEW concludes \in BOOLEAN, Commit(concludes)
      PROVE  TypeOK'
  <2>1. committed + 1 \in Calls
    BY <1>8 DEF Commit, TypeOK, NextReady, Samples
  <2>2. answered' \in Seq(Calls)
    BY <1>8, <2>1, AppendProperties DEF Commit, TypeOK
  <2>3. concluding' \subseteq Calls /\ groupConcluded' \in BOOLEAN
    BY <1>8, <2>1 DEF Commit, TypeOK
  <2> QED
    BY <1>8, <2>1, <2>2, <2>3 DEF Commit, TypeOK
<1>9. CASE AwaitBodies
  BY <1>9 DEF TypeOK, AwaitBodies, PoolFilled
<1>10. CASE EndGroup
  BY <1>10 DEF TypeOK, EndGroup, PoolFilled
<1>11. CASE Skip
  BY <1>11 DEF TypeOK, Counting, Skip
<1>12. CASE Drained
  BY <1>12 DEF TypeOK, Drained
<1>13. ASSUME NEW c \in Calls, Race(c)
      PROVE  TypeOK'
  BY <1>13 DEF TypeOK, Race
<1>14. ASSUME NEW c \in Calls, BodySettles(c)
      PROVE  TypeOK'
  BY <1>14 DEF TypeOK, BodySettles, Yielded
<1>15. ASSUME NEW c \in Calls, DispatchRejects(c)
      PROVE  TypeOK'
  BY <1>15 DEF TypeOK, DispatchRejects, Yielded
<1>16. CASE Abort
  BY <1>16 DEF TypeOK, Abort, Yielded
<1>17. CASE UNCHANGED vars
  BY <1>17 DEF TypeOK, vars
<1> QED
  BY <1>1, <1>2, <1>3, <1>4, <1>5, <1>6, <1>7, <1>8, <1>9, <1>10, <1>11, <1>12,
     <1>13, <1>14, <1>15, <1>16, <1>17
  DEF Next, Scheduler, Bodies

\* The counters keep their order: a group that ends without an abort has recorded
\* the result of every call it started, since a slot that is not ready is preparing,
\* running or lost, and the fill loop's end excludes all three.
LEMMA CountingStep ==
  ASSUME TypeOK, Counting, Statuses, Pool, Samples, [Next]_vars
  PROVE  Counting'
<1> USE BoundsAssumption DEF group, history, Calls, Modes
<1>1. ASSUME NEW m \in Modes, StartGroup(m)
      PROVE  Counting'
  BY <1>1 DEF TypeOK, Counting, InGroup, Samples, Statuses, NextReady, Pool, StartGroup
<1>2. CASE Start
  BY <1>2 DEF TypeOK, Counting, InGroup, Samples, Statuses, NextReady, Pool, Start
<1>3. CASE PrepareFails
  BY <1>3 DEF TypeOK, Counting, InGroup, Samples, Statuses, NextReady, Pool, PrepareFails
<1>4. ASSUME NEW dispatched \in BOOLEAN, Prepared(dispatched)
      PROVE  Counting'
  BY <1>4 DEF TypeOK, Counting, InGroup, Samples, Statuses, NextReady, Pool, Prepared
<1>5. CASE Finalize
  BY <1>5 DEF TypeOK, Counting, InGroup, Samples, Statuses, NextReady, Pool, Finalize
<1>6. CASE FinalizeFails
  BY <1>6 DEF TypeOK, Counting, InGroup, Samples, Statuses, NextReady, Pool, FinalizeFails
<1>7. CASE CommitDone
  BY <1>7 DEF TypeOK, Counting, InGroup, Samples, Statuses, NextReady, Pool, CommitDone
<1>8. ASSUME NEW concludes \in BOOLEAN, Commit(concludes)
      PROVE  Counting'
  BY <1>8 DEF TypeOK, Counting, InGroup, Samples, Statuses, NextReady, Pool, Commit
<1>9. CASE AwaitBodies
  BY <1>9 DEF TypeOK, Counting, InGroup, Samples, Statuses, NextReady, Pool, AwaitBodies, PoolFilled
<1>10. CASE EndGroup
  BY <1>10 DEF TypeOK, Counting, InGroup, Samples, Statuses, NextReady, Pool, EndGroup, PoolFilled
<1>11. CASE Skip
  BY <1>11 DEF TypeOK, Counting, InGroup, Samples, Statuses, NextReady, Pool, Skip
<1>12. CASE Drained
  BY <1>12 DEF TypeOK, Counting, InGroup, Samples, Statuses, NextReady, Pool, Drained
<1>13. ASSUME NEW c \in Calls, Race(c)
      PROVE  Counting'
  BY <1>13 DEF TypeOK, Counting, InGroup, Samples, Statuses, NextReady, Pool, Race
<1>14. ASSUME NEW c \in Calls, BodySettles(c)
      PROVE  Counting'
  BY <1>14 DEF TypeOK, Counting, InGroup, Samples, Statuses, NextReady, Pool, BodySettles, Yielded
<1>15. ASSUME NEW c \in Calls, DispatchRejects(c)
      PROVE  Counting'
  BY <1>15 DEF TypeOK, Counting, InGroup, Samples, Statuses, NextReady, Pool, DispatchRejects, Yielded
<1>16. CASE Abort
  BY <1>16 DEF TypeOK, Counting, InGroup, Samples, Statuses, NextReady, Pool, Abort, Yielded
<1>17. CASE UNCHANGED vars
  BY <1>17 DEF TypeOK, Counting, InGroup, Samples, Statuses, NextReady, Pool, vars
<1> QED
  BY <1>1, <1>2, <1>3, <1>4, <1>5, <1>6, <1>7, <1>8, <1>9, <1>10, <1>11, <1>12,
     <1>13, <1>14, <1>15, <1>16, <1>17
  DEF Next, Scheduler, Bodies

\* Every call keeps the status that the counters and the program counter say.
LEMMA StatusesStep ==
  ASSUME TypeOK, Counting, Statuses, Pool, Samples, [Next]_vars
  PROVE  Statuses'
<1> USE BoundsAssumption DEF group, history, Calls, Modes
<1>1. ASSUME NEW m \in Modes, StartGroup(m)
      PROVE  Statuses'
  BY <1>1 DEF TypeOK, Counting, InGroup, Samples, Statuses, NextReady, Pool, StartGroup
<1>2. CASE Start
  BY <1>2 DEF TypeOK, Counting, InGroup, Samples, Statuses, NextReady, Pool, Start
<1>3. CASE PrepareFails
  BY <1>3 DEF TypeOK, Counting, InGroup, Samples, Statuses, NextReady, Pool, PrepareFails
<1>4. ASSUME NEW dispatched \in BOOLEAN, Prepared(dispatched)
      PROVE  Statuses'
  BY <1>4 DEF TypeOK, Counting, InGroup, Samples, Statuses, NextReady, Pool, Prepared
<1>5. CASE Finalize
  BY <1>5 DEF TypeOK, Counting, InGroup, Samples, Statuses, NextReady, Pool, Finalize
<1>6. CASE FinalizeFails
  BY <1>6 DEF TypeOK, Counting, InGroup, Samples, Statuses, NextReady, Pool, FinalizeFails
<1>7. CASE CommitDone
  BY <1>7 DEF TypeOK, Counting, InGroup, Samples, Statuses, NextReady, Pool, CommitDone
<1>8. ASSUME NEW concludes \in BOOLEAN, Commit(concludes)
      PROVE  Statuses'
  BY <1>8 DEF TypeOK, Counting, InGroup, Samples, Statuses, NextReady, Pool, Commit
<1>9. CASE AwaitBodies
  BY <1>9 DEF TypeOK, Counting, InGroup, Samples, Statuses, NextReady, Pool, AwaitBodies, PoolFilled
<1>10. CASE EndGroup
  BY <1>10 DEF TypeOK, Counting, InGroup, Samples, Statuses, NextReady, Pool, EndGroup, PoolFilled
<1>11. CASE Skip
  BY <1>11 DEF TypeOK, Counting, InGroup, Samples, Statuses, NextReady, Pool, Skip
<1>12. CASE Drained
  BY <1>12 DEF TypeOK, Counting, InGroup, Samples, Statuses, NextReady, Pool, Drained
<1>13. ASSUME NEW c \in Calls, Race(c)
      PROVE  Statuses'
  BY <1>13 DEF TypeOK, Counting, InGroup, Samples, Statuses, NextReady, Pool, Race
<1>14. ASSUME NEW c \in Calls, BodySettles(c)
      PROVE  Statuses'
  BY <1>14 DEF TypeOK, Counting, InGroup, Samples, Statuses, NextReady, Pool, BodySettles, Yielded
<1>15. ASSUME NEW c \in Calls, DispatchRejects(c)
      PROVE  Statuses'
  BY <1>15 DEF TypeOK, Counting, InGroup, Samples, Statuses, NextReady, Pool, DispatchRejects, Yielded
<1>16. CASE Abort
  BY <1>16 DEF TypeOK, Counting, InGroup, Samples, Statuses, NextReady, Pool, Abort, Yielded
<1>17. CASE UNCHANGED vars
  BY <1>17 DEF TypeOK, Counting, InGroup, Samples, Statuses, NextReady, Pool, vars
<1> QED
  BY <1>1, <1>2, <1>3, <1>4, <1>5, <1>6, <1>7, <1>8, <1>9, <1>10, <1>11, <1>12,
     <1>13, <1>14, <1>15, <1>16, <1>17
  DEF Next, Scheduler, Bodies

\* The pool gains the call just prepared while it has room, and loses a call only
\* when that one's body has settled.
LEMMA PoolStep ==
  ASSUME TypeOK, Counting, Statuses, Pool, Samples, [Next]_vars
  PROVE  Pool'
<1> USE BoundsAssumption DEF group, history, Calls, Modes
<1>1. ASSUME NEW m \in Modes, StartGroup(m)
      PROVE  Pool'
  BY <1>1 DEF TypeOK, Counting, InGroup, Samples, Statuses, NextReady, Pool, HasRoom, StartGroup
<1>2. CASE Start
  BY <1>2 DEF TypeOK, Counting, InGroup, Samples, Statuses, NextReady, Pool, HasRoom, Start
<1>3. CASE PrepareFails
  BY <1>3 DEF TypeOK, Counting, InGroup, Samples, Statuses, NextReady, Pool, HasRoom, PrepareFails
<1>4. ASSUME NEW dispatched \in BOOLEAN, Prepared(dispatched)
      PROVE  Pool'
  <2>1. \A d \in Calls : status'[d] = "running" => d \in inFlight'
    BY <1>4 DEF Prepared, TypeOK, Pool
  <2>2. \A d \in inFlight' : status'[d] \in {"running", "ready", "lost", "answered"}
    BY <1>4 DEF Prepared, TypeOK, Counting, InGroup, Pool
  <2>3. InGroup' /\ pc' # "preparing"
    BY <1>4 DEF Prepared, InGroup
  <2>4. Cardinality(inFlight') <= Max
    <3>1. IsFiniteSet(inFlight) /\ Cardinality(inFlight) \in Nat
      BY PoolFinite
    <3>2. Cardinality(inFlight) < Max /\ Max \in Nat
      BY <1>4 DEF Prepared, Pool, HasRoom
    <3>3. CASE inFlight' = inFlight
      BY <3>1, <3>2, <3>3
    <3>4. CASE inFlight' = inFlight \cup {started}
      <4>1. \/ Cardinality(inFlight \cup {started}) = Cardinality(inFlight)
            \/ Cardinality(inFlight \cup {started}) = Cardinality(inFlight) + 1
        BY <3>1, FS_AddElement
      <4> QED
        BY <3>1, <3>2, <3>4, <4>1
    <3> QED
      BY <1>4, <3>3, <3>4 DEF Prepared
  <2> QED
    BY <2>1, <2>2, <2>3, <2>4 DEF Pool, HasRoom
<1>5. CASE Finalize
  BY <1>5 DEF TypeOK, Counting, InGroup, Samples, Statuses, NextReady, Pool, HasRoom, Finalize
<1>6. CASE FinalizeFails
  BY <1>6 DEF TypeOK, Counting, InGroup, Samples, Statuses, NextReady, Pool, HasRoom, FinalizeFails
<1>7. CASE CommitDone
  BY <1>7 DEF TypeOK, Counting, InGroup, Samples, Statuses, NextReady, Pool, HasRoom, CommitDone
<1>8. ASSUME NEW concludes \in BOOLEAN, Commit(concludes)
      PROVE  Pool'
  BY <1>8 DEF TypeOK, Counting, InGroup, Samples, Statuses, NextReady, Pool, HasRoom, Commit
<1>9. CASE AwaitBodies
  BY <1>9 DEF TypeOK, Counting, InGroup, Samples, Statuses, NextReady, Pool, HasRoom, AwaitBodies, PoolFilled
<1>10. CASE EndGroup
  BY <1>10 DEF TypeOK, Counting, InGroup, Samples, Statuses, NextReady, Pool, HasRoom, EndGroup, PoolFilled
<1>11. CASE Skip
  BY <1>11 DEF TypeOK, Counting, InGroup, Samples, Statuses, NextReady, Pool, HasRoom, Skip
<1>12. CASE Drained
  BY <1>12 DEF TypeOK, Counting, InGroup, Samples, Statuses, NextReady, Pool, HasRoom, Drained
<1>13. ASSUME NEW c \in Calls, Race(c)
      PROVE  Pool'
  <2>1. \A d \in Calls : status'[d] = "running" => d \in inFlight'
    BY <1>13 DEF Race, TypeOK, Pool
  <2>2. \A d \in inFlight' : status'[d] \in {"running", "ready", "lost", "answered"}
    BY <1>13 DEF Race, Pool
  <2>3. InGroup' /\ pc' # "preparing"
    BY <1>13 DEF Race, InGroup
  <2>4. Cardinality(inFlight') <= Max
    <3>1. IsFiniteSet(inFlight) /\ Cardinality(inFlight) \in Nat
      BY PoolFinite
    <3>2. Cardinality(inFlight \ {c}) = Cardinality(inFlight) - 1
      BY <1>13, <3>1, FS_RemoveElement DEF Race
    <3>3. Cardinality(inFlight) <= Max /\ Max \in Nat
      BY DEF Pool
    <3>4. inFlight' = inFlight \ {c}
      BY <1>13 DEF Race
    <3> QED
      BY <3>1, <3>2, <3>3, <3>4
  <2> QED
    BY <2>1, <2>2, <2>3, <2>4 DEF Pool
<1>14. ASSUME NEW c \in Calls, BodySettles(c)
      PROVE  Pool'
  BY <1>14 DEF TypeOK, Counting, InGroup, Samples, Statuses, NextReady, Pool, HasRoom, BodySettles, Yielded
<1>15. ASSUME NEW c \in Calls, DispatchRejects(c)
      PROVE  Pool'
  BY <1>15 DEF TypeOK, Counting, InGroup, Samples, Statuses, NextReady, Pool, HasRoom, DispatchRejects, Yielded
<1>16. CASE Abort
  BY <1>16 DEF TypeOK, Counting, InGroup, Samples, Statuses, NextReady, Pool, HasRoom, Abort, Yielded
<1>17. CASE UNCHANGED vars
  BY <1>17 DEF TypeOK, Counting, InGroup, Samples, Statuses, NextReady, Pool, HasRoom, vars
<1> QED
  BY <1>1, <1>2, <1>3, <1>4, <1>5, <1>6, <1>7, <1>8, <1>9, <1>10, <1>11, <1>12,
     <1>13, <1>14, <1>15, <1>16, <1>17
  DEF Next, Scheduler, Bodies

\* A group starts calls under its own mode only.
LEMMA KindsStep ==
  ASSUME TypeOK, Counting, Kinds, [Next]_vars
  PROVE  Kinds'
<1> USE BoundsAssumption DEF group, history, Calls, Modes
<1>1. ASSUME NEW m \in Modes, StartGroup(m)
      PROVE  Kinds'
  BY <1>1 DEF TypeOK, Counting, InGroup, Kinds, NextReady, StartGroup
<1>2. CASE Start
  BY <1>2 DEF TypeOK, Counting, InGroup, Kinds, NextReady, Start
<1>3. CASE PrepareFails
  BY <1>3 DEF TypeOK, Counting, InGroup, Kinds, NextReady, PrepareFails
<1>4. ASSUME NEW dispatched \in BOOLEAN, Prepared(dispatched)
      PROVE  Kinds'
  BY <1>4 DEF TypeOK, Counting, InGroup, Kinds, NextReady, Prepared
<1>5. CASE Finalize
  BY <1>5 DEF TypeOK, Counting, InGroup, Kinds, NextReady, Finalize
<1>6. CASE FinalizeFails
  BY <1>6 DEF TypeOK, Counting, InGroup, Kinds, NextReady, FinalizeFails
<1>7. CASE CommitDone
  BY <1>7 DEF TypeOK, Counting, InGroup, Kinds, NextReady, CommitDone
<1>8. ASSUME NEW concludes \in BOOLEAN, Commit(concludes)
      PROVE  Kinds'
  BY <1>8 DEF TypeOK, Counting, InGroup, Kinds, NextReady, Commit
<1>9. CASE AwaitBodies
  BY <1>9 DEF TypeOK, Counting, InGroup, Kinds, NextReady, AwaitBodies, PoolFilled
<1>10. CASE EndGroup
  BY <1>10 DEF TypeOK, Counting, InGroup, Kinds, NextReady, EndGroup, PoolFilled
<1>11. CASE Skip
  BY <1>11 DEF TypeOK, Counting, InGroup, Kinds, NextReady, Skip
<1>12. CASE Drained
  BY <1>12 DEF TypeOK, Counting, InGroup, Kinds, NextReady, Drained
<1>13. ASSUME NEW c \in Calls, Race(c)
      PROVE  Kinds'
  BY <1>13 DEF TypeOK, Counting, InGroup, Kinds, NextReady, Race
<1>14. ASSUME NEW c \in Calls, BodySettles(c)
      PROVE  Kinds'
  BY <1>14 DEF TypeOK, Counting, InGroup, Kinds, NextReady, BodySettles, Yielded
<1>15. ASSUME NEW c \in Calls, DispatchRejects(c)
      PROVE  Kinds'
  BY <1>15 DEF TypeOK, Counting, InGroup, Kinds, NextReady, DispatchRejects, Yielded
<1>16. CASE Abort
  BY <1>16 DEF TypeOK, Counting, InGroup, Kinds, NextReady, Abort, Yielded
<1>17. CASE UNCHANGED vars
  BY <1>17 DEF TypeOK, Counting, InGroup, Kinds, NextReady, vars
<1> QED
  BY <1>1, <1>2, <1>3, <1>4, <1>5, <1>6, <1>7, <1>8, <1>9, <1>10, <1>11, <1>12,
     <1>13, <1>14, <1>15, <1>16, <1>17
  DEF Next, Scheduler, Bodies

\* The fill loop is entered only past a look at the failure and the signal, and
\* nothing else runs inside it.
LEMMA SamplesStep ==
  ASSUME TypeOK, Counting, Statuses, Pool, Samples, [Next]_vars
  PROVE  Samples'
<1> USE BoundsAssumption DEF group, history, Calls, Modes
<1>1. ASSUME NEW m \in Modes, StartGroup(m)
      PROVE  Samples'
  BY <1>1 DEF TypeOK, Counting, InGroup, Samples, Statuses, NextReady, Pool, StartGroup
<1>2. CASE Start
  BY <1>2 DEF TypeOK, Counting, InGroup, Samples, Statuses, NextReady, Pool, Start
<1>3. CASE PrepareFails
  BY <1>3 DEF TypeOK, Counting, InGroup, Samples, Statuses, NextReady, Pool, PrepareFails
<1>4. ASSUME NEW dispatched \in BOOLEAN, Prepared(dispatched)
      PROVE  Samples'
  BY <1>4 DEF TypeOK, Counting, InGroup, Samples, Statuses, NextReady, Pool, Prepared
<1>5. CASE Finalize
  BY <1>5 DEF TypeOK, Counting, InGroup, Samples, Statuses, NextReady, Pool, Finalize
<1>6. CASE FinalizeFails
  BY <1>6 DEF TypeOK, Counting, InGroup, Samples, Statuses, NextReady, Pool, FinalizeFails
<1>7. CASE CommitDone
  BY <1>7 DEF TypeOK, Counting, InGroup, Samples, Statuses, NextReady, Pool, CommitDone
<1>8. ASSUME NEW concludes \in BOOLEAN, Commit(concludes)
      PROVE  Samples'
  BY <1>8 DEF TypeOK, Counting, InGroup, Samples, Statuses, NextReady, Pool, Commit
<1>9. CASE AwaitBodies
  BY <1>9 DEF TypeOK, Counting, InGroup, Samples, Statuses, NextReady, Pool, AwaitBodies, PoolFilled
<1>10. CASE EndGroup
  BY <1>10 DEF TypeOK, Counting, InGroup, Samples, Statuses, NextReady, Pool, EndGroup, PoolFilled
<1>11. CASE Skip
  BY <1>11 DEF TypeOK, Counting, InGroup, Samples, Statuses, NextReady, Pool, Skip
<1>12. CASE Drained
  BY <1>12 DEF TypeOK, Counting, InGroup, Samples, Statuses, NextReady, Pool, Drained
<1>13. ASSUME NEW c \in Calls, Race(c)
      PROVE  Samples'
  BY <1>13 DEF TypeOK, Counting, InGroup, Samples, Statuses, NextReady, Pool, Race
<1>14. ASSUME NEW c \in Calls, BodySettles(c)
      PROVE  Samples'
  BY <1>14 DEF TypeOK, Counting, InGroup, Samples, Statuses, NextReady, Pool, BodySettles, Yielded
<1>15. ASSUME NEW c \in Calls, DispatchRejects(c)
      PROVE  Samples'
  BY <1>15 DEF TypeOK, Counting, InGroup, Samples, Statuses, NextReady, Pool, DispatchRejects, Yielded
<1>16. CASE Abort
  BY <1>16 DEF TypeOK, Counting, InGroup, Samples, Statuses, NextReady, Pool, Abort, Yielded
<1>17. CASE UNCHANGED vars
  BY <1>17 DEF TypeOK, Counting, InGroup, Samples, Statuses, NextReady, Pool, vars
<1> QED
  BY <1>1, <1>2, <1>3, <1>4, <1>5, <1>6, <1>7, <1>8, <1>9, <1>10, <1>11, <1>12,
     <1>13, <1>14, <1>15, <1>16, <1>17
  DEF Next, Scheduler, Bodies

\* commitReady and the skipping of the rest record the next call's result.
LEMMA AnswersStep ==
  ASSUME TypeOK, Counting, Statuses, Pool, Samples, Answers, [Next]_vars
  PROVE  Answers'
<1> USE BoundsAssumption DEF group, history, Calls, Modes
<1>1. ASSUME NEW m \in Modes, StartGroup(m)
      PROVE  Answers'
  BY <1>1 DEF TypeOK, Counting, InGroup, Samples, Statuses, NextReady, Pool, Answers, InOrder, StartGroup
<1>2. CASE Start
  BY <1>2 DEF TypeOK, Counting, InGroup, Samples, Statuses, NextReady, Pool, Answers, InOrder, Start
<1>3. CASE PrepareFails
  BY <1>3 DEF TypeOK, Counting, InGroup, Samples, Statuses, NextReady, Pool, Answers, InOrder, PrepareFails
<1>4. ASSUME NEW dispatched \in BOOLEAN, Prepared(dispatched)
      PROVE  Answers'
  BY <1>4 DEF TypeOK, Counting, InGroup, Samples, Statuses, NextReady, Pool, Answers, InOrder, Prepared
<1>5. CASE Finalize
  BY <1>5 DEF TypeOK, Counting, InGroup, Samples, Statuses, NextReady, Pool, Answers, InOrder, Finalize
<1>6. CASE FinalizeFails
  BY <1>6 DEF TypeOK, Counting, InGroup, Samples, Statuses, NextReady, Pool, Answers, InOrder, FinalizeFails
<1>7. CASE CommitDone
  BY <1>7 DEF TypeOK, Counting, InGroup, Samples, Statuses, NextReady, Pool, Answers, InOrder, CommitDone
<1>8. ASSUME NEW concludes \in BOOLEAN, Commit(concludes)
      PROVE  Answers'
  BY <1>8 DEF TypeOK, Counting, InGroup, Samples, Statuses, NextReady, Pool, Answers, InOrder, Commit
<1>9. CASE AwaitBodies
  BY <1>9 DEF TypeOK, Counting, InGroup, Samples, Statuses, NextReady, Pool, Answers, InOrder, AwaitBodies, PoolFilled
<1>10. CASE EndGroup
  BY <1>10 DEF TypeOK, Counting, InGroup, Samples, Statuses, NextReady, Pool, Answers, InOrder, EndGroup, PoolFilled
<1>11. CASE Skip
  BY <1>11 DEF TypeOK, Counting, InGroup, Samples, Statuses, NextReady, Pool, Answers, InOrder, Skip
<1>12. CASE Drained
  BY <1>12 DEF TypeOK, Counting, InGroup, Samples, Statuses, NextReady, Pool, Answers, InOrder, Drained
<1>13. ASSUME NEW c \in Calls, Race(c)
      PROVE  Answers'
  BY <1>13 DEF TypeOK, Counting, InGroup, Samples, Statuses, NextReady, Pool, Answers, InOrder, Race
<1>14. ASSUME NEW c \in Calls, BodySettles(c)
      PROVE  Answers'
  BY <1>14 DEF TypeOK, Counting, InGroup, Samples, Statuses, NextReady, Pool, Answers, InOrder, BodySettles, Yielded
<1>15. ASSUME NEW c \in Calls, DispatchRejects(c)
      PROVE  Answers'
  BY <1>15 DEF TypeOK, Counting, InGroup, Samples, Statuses, NextReady, Pool, Answers, InOrder, DispatchRejects, Yielded
<1>16. CASE Abort
  BY <1>16 DEF TypeOK, Counting, InGroup, Samples, Statuses, NextReady, Pool, Answers, InOrder, Abort, Yielded
<1>17. CASE UNCHANGED vars
  BY <1>17 DEF TypeOK, Counting, InGroup, Samples, Statuses, NextReady, Pool, Answers, InOrder, vars
<1> QED
  BY <1>1, <1>2, <1>3, <1>4, <1>5, <1>6, <1>7, <1>8, <1>9, <1>10, <1>11, <1>12,
     <1>13, <1>14, <1>15, <1>16, <1>17
  DEF Next, Scheduler, Bodies

\* A concluding result reaches the batch's flag when its group ends.
LEMMA ConclusionsStep ==
  ASSUME TypeOK, Counting, Conclusions, [Next]_vars
  PROVE  Conclusions'
<1> USE BoundsAssumption DEF group, history, Calls, Modes
<1>1. ASSUME NEW m \in Modes, StartGroup(m)
      PROVE  Conclusions'
  BY <1>1 DEF TypeOK, Conclusions, InGroup, StartGroup
<1>2. CASE Start
  BY <1>2 DEF TypeOK, Conclusions, InGroup, Start
<1>3. CASE PrepareFails
  BY <1>3 DEF TypeOK, Conclusions, InGroup, PrepareFails
<1>4. ASSUME NEW dispatched \in BOOLEAN, Prepared(dispatched)
      PROVE  Conclusions'
  BY <1>4 DEF TypeOK, Conclusions, InGroup, Prepared
<1>5. CASE Finalize
  BY <1>5 DEF TypeOK, Conclusions, InGroup, Finalize
<1>6. CASE FinalizeFails
  BY <1>6 DEF TypeOK, Conclusions, InGroup, FinalizeFails
<1>7. CASE CommitDone
  BY <1>7 DEF TypeOK, Conclusions, InGroup, CommitDone
<1>8. ASSUME NEW concludes \in BOOLEAN, Commit(concludes)
      PROVE  Conclusions'
  BY <1>8 DEF TypeOK, Conclusions, InGroup, Commit
<1>9. CASE AwaitBodies
  BY <1>9 DEF TypeOK, Conclusions, InGroup, AwaitBodies, PoolFilled
<1>10. CASE EndGroup
  BY <1>10 DEF TypeOK, Conclusions, InGroup, EndGroup, PoolFilled
<1>11. CASE Skip
  BY <1>11 DEF TypeOK, Conclusions, InGroup, Skip
<1>12. CASE Drained
  BY <1>12 DEF TypeOK, Conclusions, InGroup, Drained
<1>13. ASSUME NEW c \in Calls, Race(c)
      PROVE  Conclusions'
  BY <1>13 DEF TypeOK, Conclusions, InGroup, Race
<1>14. ASSUME NEW c \in Calls, BodySettles(c)
      PROVE  Conclusions'
  BY <1>14 DEF TypeOK, Conclusions, InGroup, BodySettles, Yielded
<1>15. ASSUME NEW c \in Calls, DispatchRejects(c)
      PROVE  Conclusions'
  BY <1>15 DEF TypeOK, Conclusions, InGroup, DispatchRejects, Yielded
<1>16. CASE Abort
  BY <1>16 DEF TypeOK, Conclusions, InGroup, Abort, Yielded
<1>17. CASE UNCHANGED vars
  BY <1>17 DEF TypeOK, Conclusions, InGroup, vars
<1> QED
  BY <1>1, <1>2, <1>3, <1>4, <1>5, <1>6, <1>7, <1>8, <1>9, <1>10, <1>11, <1>12,
     <1>13, <1>14, <1>15, <1>16, <1>17
  DEF Next, Scheduler, Bodies

\* Every event of the batch is accepted: the result of a call follows its own
\* tool/call, and no call is answered twice.
LEMMA LoggedStep ==
  ASSUME TypeOK, Counting, Statuses, Pool, Samples, Logged, [Next]_vars
  PROVE  Logged'
<1> USE BoundsAssumption DEF group, history, Calls, Modes
<1>1. ASSUME NEW m \in Modes, StartGroup(m)
      PROVE  Logged'
  BY <1>1 DEF TypeOK, Logged, Pending, StepTrace, StartGroup
<1>2. CASE Start
  <2>1. started + 1 \in Calls
    BY <1>2 DEF Start, TypeOK
  <2>2. trace' = StepTrace(Pending \cup {started + 1})
    BY <1>2, <2>1, RecordToolCall DEF Start, Logged
  <2>3. Pending' = Pending \cup {started + 1}
    BY <1>2, <2>1 DEF Start, Pending, TypeOK
  <2> QED
    BY <2>2, <2>3 DEF Logged
<1>3. CASE PrepareFails
  BY <1>3 DEF TypeOK, Logged, Pending, Counting, Statuses, PrepareFails
<1>4. ASSUME NEW dispatched \in BOOLEAN, Prepared(dispatched)
      PROVE  Logged'
  <2>1. status[started] = "preparing" \/ started \notin Calls
    BY <1>4 DEF Prepared, Statuses
  <2>2. Pending' = Pending
    BY <1>4, <2>1 DEF Prepared, Pending, TypeOK
  <2> QED
    BY <1>4, <2>2 DEF Prepared, Logged
<1>5. CASE Finalize
  BY <1>5 DEF TypeOK, Logged, Pending, Finalize
<1>6. CASE FinalizeFails
  BY <1>6 DEF TypeOK, Logged, Pending, FinalizeFails
<1>7. CASE CommitDone
  BY <1>7 DEF TypeOK, Logged, Pending, CommitDone
<1>8. ASSUME NEW concludes \in BOOLEAN, Commit(concludes)
      PROVE  Logged'
  <2>1. committed + 1 \in Calls /\ status[committed + 1] = "ready"
    BY <1>8 DEF Commit, NextReady, Samples, TypeOK
  <2>2. committed + 1 \in Pending
    BY <2>1 DEF Pending
  <2>3. trace' = StepTrace(Pending \ {committed + 1})
    BY <1>8, <2>2, RecordToolResult DEF Commit, Logged
  <2>4. Pending' = Pending \ {committed + 1}
    BY <1>8, <2>1 DEF Commit, Pending, TypeOK
  <2> QED
    BY <2>3, <2>4 DEF Logged
<1>9. CASE AwaitBodies
  BY <1>9 DEF TypeOK, Logged, Pending, AwaitBodies, PoolFilled
<1>10. CASE EndGroup
  BY <1>10 DEF TypeOK, Logged, Pending, Logged, EndGroup, PoolFilled
<1>11. CASE Skip
  <2>1. started + 1 \in Calls
    BY <1>11 DEF Skip, TypeOK, Counting
  <2> DEFINE c == started + 1
  <2>2. Record(trace, ToolCall(1, 1, c)) = StepTrace(Pending \cup {c})
    BY <2>1, RecordToolCall DEF Logged
  <2>3. trace' = StepTrace((Pending \cup {c}) \ {c})
    BY <1>11, <2>2, RecordToolResult DEF Skip
  <2>4. Pending' = (Pending \cup {c}) \ {c}
    BY <1>11, <2>1 DEF Skip, Pending, TypeOK, Statuses
  <2> QED
    BY <2>3, <2>4 DEF Logged
<1>12. CASE Drained
  BY <1>12 DEF TypeOK, Logged, Pending, Drained
<1>13. ASSUME NEW c \in Calls, Race(c)
      PROVE  Logged'
  BY <1>13 DEF TypeOK, Logged, Pending, Race
<1>14. ASSUME NEW c \in Calls, BodySettles(c)
      PROVE  Logged'
  BY <1>14 DEF TypeOK, Logged, Pending, BodySettles, Yielded
<1>15. ASSUME NEW c \in Calls, DispatchRejects(c)
      PROVE  Logged'
  BY <1>15 DEF TypeOK, Logged, Pending, DispatchRejects, Yielded
<1>16. CASE Abort
  BY <1>16 DEF TypeOK, Logged, Pending, Abort, Yielded
<1>17. CASE UNCHANGED vars
  BY <1>17 DEF TypeOK, Logged, Pending, vars
<1> QED
  BY <1>1, <1>2, <1>3, <1>4, <1>5, <1>6, <1>7, <1>8, <1>9, <1>10, <1>11, <1>12,
     <1>13, <1>14, <1>15, <1>16, <1>17
  DEF Next, Scheduler, Bodies

\* Every step keeps the whole invariant.
LEMMA InvStep == IInv /\ [Next]_vars => IInv'
BY TypeStep, CountingStep, StatusesStep, PoolStep, KindsStep, SamplesStep,
   AnswersStep, ConclusionsStep, LoggedStep DEF IInv

\* The inductive invariant, from which the theorems below follow.
LEMMA InvHolds == Spec => []IInv
BY InvInit, InvStep, PTL DEF Spec

-----------------------------------------------------------------------------
(* Theorems.                                                               *)

\* Every variable of the scheduler keeps its type: in particular the counters
\* never leave the message.
THEOREM TypeCorrect == Spec => []TypeOK
<1>1. IInv => TypeOK
  BY DEF IInv
<1> QED
  BY <1>1, InvHolds, PTL

\* The session companion accepts every event a batch records.
THEOREM LogCorrect == Spec => []LogAccepted
<1>1. IInv => LogAccepted
  BY DEF IInv, Logged, LogAccepted, StepTrace
<1> QED
  BY <1>1, InvHolds, PTL

\* Results stand in model order, each call's once, and a batch that returns has
\* answered every call and reports the concluding results of all its groups.
THEOREM EveryCallCorrect == Spec => []EveryCallAnswered
<1>1. ASSUME IInv PROVE EveryCallAnswered
  <2>1. \A n \in 0..N : Len(InOrder(n)) = n
    BY BoundsAssumption DEF InOrder
  <2>2. committed \in 0..N /\ started \in 0..N
    BY <1>1 DEF IInv, TypeOK
  <2>3. answered = InOrder(Len(answered))
    BY <1>1, <2>1, <2>2 DEF IInv, Answers
  <2>4. pc = "done" => Len(answered) = N
    BY <1>1, <2>1, <2>2 DEF IInv, Answers, Counting
  <2>5. pc = "done" => (concluded <=> concluding # {})
    BY <1>1 DEF IInv, Conclusions, InGroup
  <2> QED
    BY <2>3, <2>4, <2>5 DEF EveryCallAnswered, InOrder
<1> QED
  BY <1>1, InvHolds, PTL

\* An exclusive call is alone while it is prepared and while its body runs, and
\* the bodies of parallel calls stay within the pool.
THEOREM BarrierCorrect == Spec => []Barrier
<1>1. ASSUME IInv PROVE Barrier
  <2> DEFINE active == {c \in Calls : status[c] \in {"preparing", "running"}}
             bodies == {c \in active : status[c] = "running"}
  <2>1. \A c \in active : InGroup /\ groupStart < c /\ c <= started
    BY <1>1, BoundsAssumption DEF IInv, TypeOK, Calls, Counting, Statuses, InGroup
  <2>2. ASSUME NEW c \in active, NEW d \in active, c # d
        PROVE  kind[c] = "parallel"
    <3>1. kind[c] = mode
      BY <1>1, <2>1 DEF IInv, Kinds
    <3>2. mode # "exclusive"
      BY <1>1, <2>1, <2>2, BoundsAssumption DEF IInv, TypeOK, Counting, Calls
    <3> QED
      BY <1>1, <3>1, <3>2 DEF IInv, TypeOK, Modes
  <2>3. bodies \subseteq inFlight
    BY <1>1 DEF IInv, Pool
  <2>4. Cardinality(bodies) <= Cardinality(inFlight) /\ Cardinality(bodies) \in Nat
    <3> HIDE DEF bodies
    <3> QED
      BY <1>1, <2>3, PoolFinite, FS_Subset, FS_CardinalityType DEF IInv
  <2>5. Cardinality(bodies) <= Max
    BY <1>1, <2>4, PoolFinite, BoundsAssumption DEF IInv, Pool
  <2> QED
    BY <2>2, <2>5 DEF Barrier
<1> QED
  BY <1>1, InvHolds, PTL

\* After an abort or a scheduler failure no further call starts, no prepared call
\* is dispatched after a failure, and no result is fabricated for one.
LEMMA StartsStopStep ==
  ASSUME IInv, [Next]_vars
  PROVE  [/\ signal \/ failure => ~\E c \in Calls : status[c] = "planned" /\ status'[c] = "preparing"
          /\ failure => ~\E c \in Calls :
               \/ status[c] = "preparing" /\ status'[c] = "running"
               \/ status[c] = "planned" /\ status'[c] = "skipped"]_vars
<1> USE DEF group, history
<1> DEFINE started1 == \E c \in Calls : status[c] = "planned" /\ status'[c] = "preparing"
           dispatched1 == \E c \in Calls : status[c] = "preparing" /\ status'[c] = "running"
           skipped1 == \E c \in Calls : status[c] = "planned" /\ status'[c] = "skipped"
<1>1. CASE Start
  <2>1. ~signal /\ ~failure
    BY <1>1 DEF Start, IInv, Samples
  <2> QED
    BY <2>1
<1>2. ASSUME NEW d \in BOOLEAN, Prepared(d)
      PROVE  ~failure /\ ~started1
  BY <1>2 DEF Prepared, IInv, TypeOK
<1>3. CASE Skip
  <2>1. ~failure /\ ~started1
    BY <1>3 DEF Skip, IInv, TypeOK, Samples
  <2> QED
    BY <2>1
<1>4. ASSUME NEW d \in BOOLEAN, Commit(d)
      PROVE  ~started1 /\ ~dispatched1 /\ ~skipped1
  BY <1>4 DEF Commit, IInv, TypeOK
<1>5. ASSUME PrepareFails
      PROVE  ~started1 /\ ~dispatched1 /\ ~skipped1
  BY <1>5 DEF PrepareFails, IInv, TypeOK
<1>6. ASSUME NEW c \in Calls, BodySettles(c) \/ DispatchRejects(c)
      PROVE  ~started1 /\ ~dispatched1 /\ ~skipped1
  BY <1>6 DEF BodySettles, DispatchRejects, IInv, TypeOK
<1>7. ASSUME UNCHANGED status
      PROVE  ~started1 /\ ~dispatched1 /\ ~skipped1
  BY <1>7
<1>8. \/ Start \/ Skip \/ PrepareFails \/ UNCHANGED status
      \/ \E d \in BOOLEAN : Prepared(d) \/ Commit(d)
      \/ \E c \in Calls : BodySettles(c) \/ DispatchRejects(c)
  BY DEF Next, Scheduler, Bodies, Abort, StartGroup, Finalize, FinalizeFails, CommitDone,
     AwaitBodies, EndGroup, Drained, Race, vars
<1> QED
  BY <1>1, <1>2, <1>3, <1>4, <1>5, <1>6, <1>7, <1>8


\* The batch stops in an orderly way, whatever settles, fails or aborts when.
THEOREM StopsCorrect == Spec => StopsOrderly
<1>1. IInv => NothingLeftRunning
  BY DEF IInv, NothingLeftRunning, Statuses, Samples, InGroup
<1>2. IInv /\ [Next]_vars =>
        [/\ signal \/ failure => ~\E c \in Calls : status[c] = "planned" /\ status'[c] = "preparing"
         /\ failure => ~\E c \in Calls :
              \/ status[c] = "preparing" /\ status'[c] = "running"
              \/ status[c] = "planned" /\ status'[c] = "skipped"]_vars
  BY StartsStopStep
<1> QED
  BY <1>1, <1>2, InvHolds, PTL DEF Spec, StopsOrderly, StartsStop
====
