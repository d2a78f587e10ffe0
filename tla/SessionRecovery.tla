-------------------------- MODULE SessionRecovery --------------------------
(***************************************************************************)
(* A session log across crashes: the loop extends the log in memory, the   *)
(* persistence backend stores a growing prefix of it, the process dies at  *)
(* any moment, and the next one loads what was stored, computes the        *)
(* synthetic closers of packages/core/session/src/repair.ts, commits them  *)
(* (packages/session/session-persistence/src/coordinator.ts) and resumes.  *)
(* The repair itself may be interrupted between any two events it writes.  *)
(*                                                                         *)
(* A tool body has effects outside the process, so which bodies ran        *)
(* survives a crash. session-checkpoint-policy lets a body run only after  *)
(* its recorded call is durable.                                           *)
(*                                                                         *)
(* Call identifiers are the positions 1..MaxCalls in the assistant         *)
(* message, so the same identifiers come back in every step.               *)
(***************************************************************************)
EXTENDS Naturals, Sequences, SessionTrace

CONSTANTS MaxTurns, MaxSteps, MaxCalls, MaxCrashes

ASSUME RecoveryAssumption == {MaxTurns, MaxSteps, MaxCalls, MaxCrashes} \subseteq Nat

VARIABLES
  mode,      \* "live", "down", or "prepared" with its closers computed
  log,       \* the live session's log, empty while no process holds it
  durable,   \* the stored log
  closers,   \* the synthetic events of the prepared repair
  crashes,
  ran,       \* history: the calls whose body was entered
  abandoned, \* history: steps a scheduler failure left without their results
  promised   \* history: the stored log with its closers, between a crash and the resume

vars == <<mode, log, durable, closers, crashes, ran, abandoned, promised>>
history == <<ran, abandoned, promised>>

Calls == 1..MaxCalls

\* An assistant message requesting calls 1..n.
Message(t, s, n) == [type |-> "assistant/message", turn |-> t, step |-> s, calls |-> n]

\* The companion's trace after a whole log.
Replayed(events) ==
  LET after[i \in 0..Len(events)] ==
        IF i = 0 THEN FreshTrace ELSE Record(after[i - 1], events[i])
  IN  after[Len(events)]

-----------------------------------------------------------------------------
(* repair.ts: one scan of the stored events, then the missing closers.     *)

Cleared == [turn |-> None, step |-> None, pending |-> <<>>]

\* pendingCalls.delete
Deleted(pending, c) ==
  IF \A i \in DOMAIN pending : pending[i].call # c THEN pending
  ELSE LET i == CHOOSE j \in DOMAIN pending : pending[j].call = c
       IN  SubSeq(pending, 1, i - 1) \o SubSeq(pending, i + 1, Len(pending))

\* Faulty: results do not settle the calls they answer.
AdvanceUnanswered(scan, e) ==
  CASE e.type = "turn/start" -> [Cleared EXCEPT !.turn = e.turn]
    [] e.type = "turn/end"   -> Cleared
    [] e.type = "step/start" -> [scan EXCEPT !.step = e.step]
    [] e.type = "step/end"   -> [scan EXCEPT !.step = None, !.pending = <<>>]
    [] e.type = "assistant/message" ->
         [scan EXCEPT !.pending =
            @ \o [c \in 1..e.calls |-> [call |-> c, step |-> e.step, started |-> FALSE]]]
    [] e.type = "tool/call" ->
         [scan EXCEPT !.pending =
            [i \in DOMAIN @ |-> IF @[i].call = e.call THEN [@[i] EXCEPT !.started = TRUE]
                                                      ELSE @[i]]]
    [] OTHER -> scan

\* The requested calls become pending in message order, a recorded call start
\* marks its entry, a result removes it, and boundaries forget.
Advance(scan, e) ==
  CASE e.type = "turn/start" -> [Cleared EXCEPT !.turn = e.turn]
    [] e.type = "turn/end"   -> Cleared
    [] e.type = "step/start" -> [scan EXCEPT !.step = e.step]
    [] e.type = "step/end"   -> [scan EXCEPT !.step = None, !.pending = <<>>]
    [] e.type = "assistant/message" ->
         [scan EXCEPT !.pending =
            @ \o [c \in 1..e.calls |-> [call |-> c, step |-> e.step, started |-> FALSE]]]
    [] e.type = "tool/call" ->
         [scan EXCEPT !.pending =
            [i \in DOMAIN @ |-> IF @[i].call = e.call THEN [@[i] EXCEPT !.started = TRUE]
                                                      ELSE @[i]]]
    [] e.type = "tool/result" ->
         [scan EXCEPT !.pending = Deleted(@, e.call)]
    [] OTHER -> scan

Scan(events) ==
  LET after[i \in 0..Len(events)] ==
        IF i = 0 THEN Cleared ELSE Advance(after[i - 1], events[i])
  IN  after[Len(events)]

Results(scan) ==
  [i \in DOMAIN scan.pending |->
     ToolResult(scan.turn, scan.pending[i].step, scan.pending[i].call, ~scan.pending[i].started)]

\* Faulty: the open step is not closed before its turn.
ClosersWithoutStep(events) ==
  LET scan == Scan(events)
  IN  IF scan.turn = None THEN <<>> ELSE Results(scan) \o <<TurnEnd(scan.turn)>>

\* Faulty: a step/end is written although no step is open.
ClosersNullStep(events) ==
  LET scan == Scan(events)
  IN  IF scan.turn = None THEN <<>>
      ELSE Results(scan) \o <<StepEnd(scan.turn, scan.step), TurnEnd(scan.turn)>>

\* interruptedTurnClosers: nothing for a balanced log; otherwise an error
\* result for each pending call, then the step's end and the turn's.
Closers(events) ==
  LET scan == Scan(events)
  IN  IF scan.turn = None THEN <<>>
      ELSE Results(scan)
           \o (IF scan.step = None THEN <<>> ELSE <<StepEnd(scan.turn, scan.step)>>)
           \o <<TurnEnd(scan.turn)>>

-----------------------------------------------------------------------------
Init ==
  /\ mode = "live" /\ log = <<>> /\ durable = <<>> /\ closers = <<>>
  /\ crashes = 0
  /\ ran = {} /\ abandoned = {} /\ promised = <<>>

(* The live session. What is open, and what is pending, is read off the    *)
(* log; the order of the events is that of AgentDriver and ToolCalls.      *)

Appended(e) ==
  /\ mode = "live"
  /\ log' = Append(log, e)
  /\ UNCHANGED <<mode, durable, closers, crashes>>

OpenTurn ==
  LET t == Replayed(log)
  IN  /\ t.openTurn = None /\ t.nextTurn <= MaxTurns
      /\ Appended(TurnStart(t.nextTurn)) /\ UNCHANGED history

OpenStep ==
  LET t == Replayed(log)
  IN  /\ t.openTurn # None /\ t.openStep = None /\ t.nextStep <= MaxSteps
      /\ Appended(StepStart(t.openTurn, t.nextStep)) /\ UNCHANGED history

Answer(n) ==
  LET t == Replayed(log)
  IN  /\ t.openStep # None /\ log[Len(log)].type = "step/start"
      /\ Appended(Message(t.openTurn, t.openStep, n)) /\ UNCHANGED history

\* tool/call is recorded for the next call in model order.
CallTool ==
  LET scan == Scan(log)
  IN  \E i \in DOMAIN scan.pending :
        /\ ~scan.pending[i].started
        /\ \A j \in 1..(i - 1) : scan.pending[j].started
        /\ Appended(ToolCall(scan.turn, scan.step, scan.pending[i].call))
        /\ UNCHANGED history

Identity(e) == <<e.turn, e.step, e.call>>

\* Is the start of call c of this step stored?
Checkpointed(t, s, c) ==
  \E i \in DOMAIN durable : durable[i] = ToolCall(t, s, c)

\* Faulty: the body does not wait for the flush.
RunBodyUnflushed(i) ==
  LET scan == Scan(log)
  IN  /\ mode = "live" /\ i \in DOMAIN scan.pending
      /\ scan.pending[i].started
      /\ ran' = ran \cup {<<scan.turn, scan.step, scan.pending[i].call>>}
      /\ UNCHANGED <<mode, log, durable, closers, crashes, abandoned, promised>>

\* session-checkpoint-policy on tools/execute: flush, then enter the body.
RunBody(i) ==
  LET scan == Scan(log)
  IN  /\ mode = "live" /\ i \in DOMAIN scan.pending
      /\ scan.pending[i].started
      /\ Checkpointed(scan.turn, scan.step, scan.pending[i].call)
      /\ ran' = ran \cup {<<scan.turn, scan.step, scan.pending[i].call>>}
      /\ UNCHANGED <<mode, log, durable, closers, crashes, abandoned, promised>>

\* Results follow model order; a denied, skipped or aborted call has one too.
RecordResult ==
  LET scan == Scan(log)
  IN  /\ scan.pending # <<>> /\ scan.pending[1].started
      /\ Appended(ToolResult(scan.turn, scan.step, scan.pending[1].call, FALSE))
      /\ UNCHANGED history

\* The step ends with its results recorded, or by a scheduler failure.
EndStep ==
  LET scan == Scan(log)
  IN  /\ scan.step # None
      /\ Appended(StepEnd(scan.turn, scan.step))
      /\ abandoned' = IF scan.pending = <<>> THEN abandoned
                      ELSE abandoned \cup {<<scan.turn, scan.step>>}
      /\ UNCHANGED <<ran, promised>>

EndTurn ==
  LET t == Replayed(log)
  IN  /\ t.openTurn # None /\ t.openStep = None
      /\ Appended(TurnEnd(t.openTurn)) /\ UNCHANGED history

\* A background batch or a flush reaches the store, or a crash tears it.
Persist(n) ==
  /\ mode = "live" /\ n \in (Len(durable) + 1)..Len(log)
  /\ durable' = SubSeq(log, 1, n)
  /\ UNCHANGED <<mode, log, closers, crashes, history>>

-----------------------------------------------------------------------------
(* Crash, repair, resume.                                                  *)

Crash ==
  /\ mode \in {"live", "prepared"} /\ crashes < MaxCrashes
  /\ crashes' = crashes + 1
  /\ promised' = IF mode = "live" THEN durable \o Closers(durable) ELSE promised
  /\ mode' = "down" /\ log' = <<>> /\ closers' = <<>>
  /\ UNCHANGED <<durable, ran, abandoned>>

Prepare ==
  /\ mode = "down"
  /\ closers' = Closers(durable)
  /\ mode' = "prepared"
  /\ UNCHANGED <<log, durable, crashes, history>>

\* Faulty: the closers are dropped, as if only a torn tail had been repaired.
CommitRepairTruncates ==
  /\ mode = "prepared" /\ closers # <<>>
  /\ closers' = <<>> /\ mode' = "down"
  /\ UNCHANGED <<log, durable, crashes, history>>

\* The committed repair changed the store, so it is loaded again.
CommitRepair ==
  /\ mode = "prepared" /\ closers # <<>>
  /\ durable' = durable \o closers
  /\ closers' = <<>> /\ mode' = "down"
  /\ UNCHANGED <<log, crashes, history>>

\* The process dies with the first n closers written.
RepairTorn(n) ==
  /\ mode = "prepared" /\ n < Len(closers) /\ crashes < MaxCrashes
  /\ crashes' = crashes + 1
  /\ durable' = durable \o SubSeq(closers, 1, n)
  /\ closers' = <<>> /\ mode' = "down"
  /\ UNCHANGED <<log, history>>

Resume ==
  /\ mode = "prepared" /\ closers = <<>>
  /\ log' = durable /\ promised' = <<>>
  /\ mode' = "live"
  /\ UNCHANGED <<durable, closers, crashes, ran, abandoned>>

-----------------------------------------------------------------------------
Live ==
  \/ OpenTurn \/ OpenStep \/ CallTool \/ RecordResult \/ EndStep \/ EndTurn
  \/ \E n \in 0..MaxCalls : Answer(n)
  \/ \E i \in Calls : RunBody(i)
  \/ \E n \in 1..Len(log) : Persist(n)

Recovery == Prepare \/ CommitRepair \/ Resume

Next == Live \/ Crash \/ Recovery \/ \E n \in 1..Len(closers) : RepairTorn(n)

Spec == Init /\ [][Next]_vars

\* A restarted process loads and repairs the session.
FairSpec == Spec /\ WF_vars(Recovery)

-----------------------------------------------------------------------------
(* What must hold.                                                         *)

Turns == 1..MaxTurns
Steps == 1..MaxSteps

Events ==
  [type : {"turn/start", "turn/end"}, turn : Turns]
  \cup [type : {"step/start", "step/end"}, turn : Turns, step : Steps]
  \cup [type : {"assistant/message"}, turn : Turns, step : Steps, calls : 0..MaxCalls]
  \cup [type : {"tool/call"}, turn : Turns, step : Steps, call : Calls]
  \cup [type : {"tool/result"}, turn : Turns, step : Steps, call : Calls,
        notStarted : BOOLEAN]

TypeOK ==
  /\ mode \in {"live", "down", "prepared"}
  /\ log \in Seq(Events) /\ durable \in Seq(Events) /\ closers \in Seq(Events)
  /\ promised \in Seq(Events)
  /\ crashes \in 0..MaxCrashes
  /\ ran \subseteq Turns \X Steps \X Calls
  /\ abandoned \subseteq Turns \X Steps

\* The session companion accepts the live log and every stored one, closers
\* and half-written repairs included, so a crashed session always loads again.
LogAccepted == Replayed(log).ok /\ Replayed(durable).ok

\* However often the repair is itself interrupted, it arrives at the log that
\* one uninterrupted repair of the crashed session would have produced.
RepairConverges ==
  mode # "live" => durable \o Closers(durable) = promised

\* Every call an assistant message requested has exactly one result once its
\* step is closed, whether the loop, the abort path or the repair wrote it;
\* only a scheduler failure leaves a call without one.
TranscriptPaired ==
  \A i, j \in DOMAIN log :
    /\ log[i].type = "assistant/message" /\ log[j].type = "step/end"
    /\ log[j].turn = log[i].turn /\ log[j].step = log[i].step
    /\ <<log[i].turn, log[i].step>> \notin abandoned
    => \A c \in 1..log[i].calls :
         \E r \in i..j :
           /\ log[r].type = "tool/result" /\ log[r].call = c
           /\ \A q \in DOMAIN log :
                log[q].type = "tool/result" /\ Identity(log[q]) = Identity(log[r]) => q = r

\* A call that is reported to the model as never started did not run: its body
\* had no effect, and retrying it is safe.
NotStartedIsTrue ==
  \A i \in DOMAIN log :
    log[i].type = "tool/result" /\ log[i].notStarted => Identity(log[i]) \notin ran

\* The transcript a resumed session shows the model is complete and true, however
\* the crash fell between a call's checkpoint, its body and its result.
TranscriptTrue == TranscriptPaired /\ NotStartedIsTrue

\* A crashed session is resumed.
Resumes == mode = "down" ~> mode = "live"
=============================================================================
