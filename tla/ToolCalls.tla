----------------------------- MODULE ToolCalls -----------------------------
(***************************************************************************)
(* The tool calls of one assistant step: executeToolCalls and runGroup of  *)
(* packages/core/agent-loop/src/tool-calls.ts. The calls 1..N stand in     *)
(* model order. Calls of parallel mode share a bounded rolling pool, an    *)
(* exclusive call is a barrier that runs alone, preparation and the        *)
(* recording of results stay in model order, and only the tool bodies      *)
(* overlap. An abort stops new starts, lets the started calls finish and   *)
(* gives every other call a synthetic result; a scheduler failure stops    *)
(* everything and fabricates nothing.                                      *)
(*                                                                         *)
(* The tool registry is external: executionMode may answer differently     *)
(* each time, prepare may dispatch, answer or throw, a dispatched body     *)
(* settles whenever it likes, or its dispatch rejects.                     *)
(*                                                                         *)
(* pc names where the scheduler stands: group (between two groups), fill   *)
(* (the synchronous head of fillPool's loop), preparing (awaiting the      *)
(* pre-execute stage of the last started call), commit (the head of        *)
(* commitReady's loop), finalizing (awaiting post-execute), race (awaiting *)
(* any body), skip (recording skipped calls), draining (a failure awaits   *)
(* the bodies in flight), done and failed.                                 *)
(***************************************************************************)
EXTENDS Naturals, Sequences, FiniteSets, SessionTrace

CONSTANTS N,      \* calls in the assistant message
          Max     \* maxParallelToolCalls

ASSUME BoundsAssumption == N \in Nat /\ Max \in Nat \ {0}

VARIABLES
  pc,
  mode,       \* mode of the running group
  groupStart, \* calls before the running group
  groupEnd,   \* last call the running group may start
  started,    \* calls with a recorded tool/call
  committed,  \* calls with a recorded tool/result
  status,     \* what each call is doing
  inFlight,   \* dispatched calls whose settlement the race has not seen
  signal,     \* the step's abort signal
  aborted,    \* the group's last reading of it
  failure,    \* a scheduler failure was recorded
  concluded,  \* some committed result of the finished groups ends the turn
  groupConcluded,
  trace,      \* the session log, its turn 1 and step 1 open
  answered,   \* history: calls in the order of their tool/result
  kind,       \* history: mode under which each call was started
  concluding  \* history: calls whose result carried concludesTurn

vars == <<pc, mode, groupStart, groupEnd, started, committed, status, inFlight,
          signal, aborted, failure, concluded, groupConcluded, trace, answered,
          kind, concluding>>
group   == <<mode, groupStart, groupEnd>>
history == <<answered, kind, concluding>>

Calls == 1..N
Modes == {"exclusive", "parallel"}

\* The other code of the process runs only where the scheduler awaits or
\* publishes; the head of the fill loop does neither.
Yielded == pc # "fill"

OpenedStep == Record(Record(FreshTrace, TurnStart(1)), StepStart(1, 1))

Init ==
  /\ pc = IF N = 0 THEN "done" ELSE "group"
  /\ mode = "exclusive" /\ groupStart = 0 /\ groupEnd = 0
  /\ started = 0 /\ committed = 0
  /\ status = [c \in Calls |-> "planned"] /\ inFlight = {}
  /\ signal \in BOOLEAN /\ aborted = FALSE /\ failure = FALSE
  /\ concluded = FALSE /\ groupConcluded = FALSE
  /\ trace = OpenedStep
  /\ answered = <<>> /\ kind = [c \in Calls |-> "exclusive"] /\ concluding = {}

-----------------------------------------------------------------------------
(* The rest of the process.                                                *)

Abort ==
  /\ Yielded /\ ~signal /\ pc \notin {"done", "failed"}
  /\ signal' = TRUE
  /\ UNCHANGED <<pc, group, started, committed, status, inFlight, aborted,
                 failure, concluded, groupConcluded, trace, history>>

\* A dispatched body settles and fills its slot.
BodySettles(c) ==
  /\ Yielded /\ status[c] = "running"
  /\ status' = [status EXCEPT ![c] = "ready"]
  /\ UNCHANGED <<pc, group, started, committed, inFlight, signal, aborted,
                 failure, concluded, groupConcluded, trace, history>>

\* The dispatch itself rejects: a scheduler failure.
DispatchRejects(c) ==
  /\ Yielded /\ status[c] = "running"
  /\ status' = [status EXCEPT ![c] = "lost"] /\ failure' = TRUE
  /\ UNCHANGED <<pc, group, started, committed, inFlight, signal, aborted,
                 concluded, groupConcluded, trace, history>>

-----------------------------------------------------------------------------
(* executeToolCalls and runGroup.                                          *)

\* Faulty: an exclusive call does not end its group.
StartGroupUnbounded(m) ==
  /\ pc = "group"
  /\ mode' = m
  /\ groupStart' = started
  /\ groupEnd' = N
  /\ aborted' = signal /\ groupConcluded' = FALSE
  /\ pc' = "fill"
  /\ UNCHANGED <<started, committed, status, inFlight, signal, failure,
                 concluded, trace, history>>

\* Classify the first call again, and read the signal, at each group.
StartGroup(m) ==
  /\ pc = "group"
  /\ mode' = m
  /\ groupStart' = started
  /\ groupEnd' = IF m = "parallel" THEN N ELSE started + 1
  /\ aborted' = signal /\ groupConcluded' = FALSE
  /\ pc' = "fill"
  /\ UNCHANGED <<started, committed, status, inFlight, signal, failure,
                 concluded, trace, history>>

HasRoom == Cardinality(inFlight) < Max

\* startCall up to the await of prepare. A later call of a parallel group was
\* read again and is still parallel.
Start ==
  LET c == started + 1
  IN  /\ pc = "fill" /\ ~aborted
      /\ started < groupEnd /\ HasRoom
      /\ trace' = Record(trace, ToolCall(1, 1, c))
      /\ started' = c
      /\ status' = [status EXCEPT ![c] = "preparing"]
      /\ kind' = [kind EXCEPT ![c] = mode]
      /\ pc' = "preparing"
      /\ UNCHANGED <<group, committed, inFlight, signal, aborted, failure,
                     concluded, groupConcluded, answered, concluding>>

\* prepare answered: the call is dispatched, or has its result already.
Prepared(dispatched) ==
  /\ pc = "preparing" /\ ~failure
  /\ status' = [status EXCEPT ![started] = IF dispatched THEN "running" ELSE "ready"]
  /\ inFlight' = IF dispatched THEN inFlight \cup {started} ELSE inFlight
  /\ pc' = "commit"
  /\ UNCHANGED <<group, started, committed, signal, aborted, failure, concluded,
                 groupConcluded, trace, history>>

\* prepare threw, or a body in flight failed while it was awaited.
PrepareFails ==
  /\ pc = "preparing"
  /\ status' = [status EXCEPT ![started] = "lost"] /\ failure' = TRUE
  /\ pc' = "draining"
  /\ UNCHANGED <<group, started, committed, inFlight, signal, aborted, concluded,
                 groupConcluded, trace, history>>

NextReady == committed < started /\ status[committed + 1] = "ready"

Finalize ==
  /\ pc = "commit" /\ NextReady
  /\ pc' = "finalizing"
  /\ UNCHANGED <<group, started, committed, status, inFlight, signal, aborted,
                 failure, concluded, groupConcluded, trace, history>>

FinalizeFails ==
  /\ pc = "finalizing"
  /\ failure' = TRUE
  /\ pc' = "draining"
  /\ UNCHANGED <<group, started, committed, status, inFlight, signal, aborted,
                 concluded, groupConcluded, trace, history>>

\* The next result in model order is final, with or without post-execute, and
\* is recorded.
Commit(concludes) ==
  LET c == committed + 1
  IN  /\ pc = "finalizing" \/ (pc = "commit" /\ NextReady)
      /\ trace' = Record(trace, ToolResult(1, 1, c, FALSE))
      /\ committed' = c
      /\ status' = [status EXCEPT ![c] = "answered"]
      /\ answered' = Append(answered, c)
      /\ groupConcluded' = (groupConcluded \/ concludes)
      /\ concluding' = IF concludes THEN concluding \cup {c} ELSE concluding
      /\ pc' = "commit"
      /\ UNCHANGED <<group, started, inFlight, signal, aborted, failure,
                     concluded, kind>>

\* Faulty: the signal is read once per group.
CommitDoneBlind ==
  /\ pc = "commit" /\ ~NextReady
  /\ pc' = IF failure THEN "draining" ELSE "fill"
  /\ aborted' = aborted
  /\ UNCHANGED <<group, started, committed, status, inFlight, signal, failure,
                 concluded, groupConcluded, trace, history>>

\* No contiguous slot is left: on to the rest of the pool, or to the failure.
CommitDone ==
  /\ pc = "commit" /\ ~NextReady
  /\ pc' = IF failure THEN "draining" ELSE "fill"
  /\ aborted' = (aborted \/ (~failure /\ signal))
  /\ UNCHANGED <<group, started, committed, status, inFlight, signal, failure,
                 concluded, groupConcluded, trace, history>>

\* fillPool's loop ends: abort, the group's end, a full pool, or a later call
\* that is no longer parallel.
PoolFilled ==
  /\ pc = "fill"
  /\ \/ aborted \/ started = groupEnd \/ ~HasRoom
     \/ mode = "parallel" /\ started > groupStart

AwaitBodies ==
  /\ PoolFilled /\ inFlight # {}
  /\ pc' = "race"
  /\ UNCHANGED <<group, started, committed, status, inFlight, signal, aborted,
                 failure, concluded, groupConcluded, trace, history>>

\* Faulty: a settled body stays in the pool.
RaceKeeps(c) ==
  /\ pc = "race" /\ c \in inFlight /\ status[c] # "running"
  /\ UNCHANGED inFlight
  /\ pc' = IF failure THEN "draining" ELSE "commit"
  /\ UNCHANGED <<group, started, committed, status, signal, aborted, failure,
                 concluded, groupConcluded, trace, history>>

Race(c) ==
  /\ pc = "race" /\ c \in inFlight /\ status[c] # "running"
  /\ inFlight' = inFlight \ {c}
  /\ pc' = IF failure THEN "draining" ELSE "commit"
  /\ UNCHANGED <<group, started, committed, status, signal, aborted, failure,
                 concluded, groupConcluded, trace, history>>

\* Faulty: an abort skips nothing behind the group.
EndGroupOnly ==
  /\ PoolFilled /\ inFlight = {}
  /\ concluded' = (concluded \/ groupConcluded)
  /\ pc' = IF aborted THEN "done"
           ELSE IF committed # started THEN "failed"
           ELSE IF started = N THEN "done" ELSE "group"
  /\ UNCHANGED <<group, started, committed, status, inFlight, signal, aborted,
                 failure, groupConcluded, trace, history>>

\* The group returns what it consumed; an aborted one leaves every remaining
\* call of the message to be skipped. A started call without its result is an
\* internal error.
EndGroup ==
  /\ PoolFilled /\ inFlight = {}
  /\ concluded' = (concluded \/ groupConcluded)
  /\ pc' = IF aborted THEN (IF started = N THEN "done" ELSE "skip")
           ELSE IF committed # started THEN "failed"
           ELSE IF started = N THEN "done" ELSE "group"
  /\ UNCHANGED <<group, started, committed, status, inFlight, signal, aborted,
                 failure, groupConcluded, trace, history>>

\* Faulty: the loop over the skipped calls does not stop.
SkipPastEnd ==
  LET c == started + 1
  IN  /\ pc = "skip"
      /\ trace' = Record(Record(trace, ToolCall(1, 1, c)), ToolResult(1, 1, c, FALSE))
      /\ started' = c
      /\ status' = [status EXCEPT ![c] = "skipped"]
      /\ answered' = Append(answered, c)
      /\ pc' = "skip"
      /\ UNCHANGED <<group, committed, inFlight, signal, aborted, failure,
                     concluded, groupConcluded, kind, concluding>>

\* Faulty: a skipped call gets its result only.
SkipUncalled ==
  LET c == started + 1
  IN  /\ pc = "skip"
      /\ trace' = Record(trace, ToolResult(1, 1, c, FALSE))
      /\ started' = c
      /\ status' = [status EXCEPT ![c] = "skipped"]
      /\ answered' = Append(answered, c)
      /\ pc' = IF c = N THEN "done" ELSE "skip"
      /\ UNCHANGED <<group, committed, inFlight, signal, aborted, failure,
                     concluded, groupConcluded, kind, concluding>>

\* appendSkippedToolCall: the recorded pair of a call that never ran.
Skip ==
  LET c == started + 1
  IN  /\ pc = "skip"
      /\ trace' = Record(Record(trace, ToolCall(1, 1, c)), ToolResult(1, 1, c, FALSE))
      /\ started' = c
      /\ status' = [status EXCEPT ![c] = "skipped"]
      /\ answered' = Append(answered, c)
      /\ pc' = IF c = N THEN "done" ELSE "skip"
      /\ UNCHANGED <<group, committed, inFlight, signal, aborted, failure,
                     concluded, groupConcluded, kind, concluding>>

\* The first failure is thrown once every body in flight has settled.
Drained ==
  /\ pc = "draining" /\ \A c \in inFlight : status[c] # "running"
  /\ pc' = "failed"
  /\ UNCHANGED <<group, started, committed, status, inFlight, signal, aborted,
                 failure, concluded, groupConcluded, trace, history>>

-----------------------------------------------------------------------------
Scheduler ==
  \/ \E m \in Modes : StartGroup(m)
  \/ Start \/ PrepareFails
  \/ \E dispatched \in BOOLEAN : Prepared(dispatched)
  \/ Finalize \/ FinalizeFails \/ CommitDone
  \/ \E concludes \in BOOLEAN : Commit(concludes)
  \/ AwaitBodies \/ EndGroup \/ Skip \/ Drained
  \/ \E c \in Calls : Race(c)

Bodies == \E c \in Calls : BodySettles(c) \/ DispatchRejects(c)

Next == Scheduler \/ Bodies \/ Abort

Spec == Init /\ [][Next]_vars

\* The registry's stages and every dispatched body settle, aborted or not: they
\* are handed the step's signal, and the scheduler itself has no timeout.
FairSpec == Spec /\ WF_vars(Scheduler) /\ WF_vars(Bodies)

-----------------------------------------------------------------------------
(* What must hold.                                                         *)

TypeOK ==
  /\ pc \in {"group", "fill", "preparing", "commit", "finalizing", "race",
             "skip", "draining", "done", "failed"}
  /\ mode \in Modes /\ kind \in [Calls -> Modes]
  /\ groupStart \in 0..N /\ groupEnd \in 0..N
  /\ started \in 0..N /\ committed \in 0..N
  /\ status \in [Calls -> {"planned", "preparing", "running", "ready", "lost",
                           "answered", "skipped"}]
  /\ inFlight \subseteq Calls /\ concluding \subseteq Calls
  /\ signal \in BOOLEAN /\ aborted \in BOOLEAN /\ failure \in BOOLEAN
  /\ concluded \in BOOLEAN /\ groupConcluded \in BOOLEAN
  /\ answered \in Seq(Calls)

\* Every result follows its own tool/call inside the open step, the skipped
\* ones included: the session companion accepts the whole batch.
LogAccepted == trace.ok

\* Bodies overlap and finish in any order, but results are recorded in model
\* order, each call once. When the batch returns, aborted or not, every call of
\* the message has its result, so the transcript can be replayed to a provider,
\* and a result of any group that concludes the turn has reached the caller.
EveryCallAnswered ==
  /\ answered = [i \in 1..Len(answered) |-> i]
  /\ pc = "done" => Len(answered) = N /\ (concluded <=> concluding # {})

\* An exclusive call overlaps no other: while it is prepared or its body runs,
\* nothing else of the message does, and parallel bodies never exceed the pool.
Barrier ==
  LET active == {c \in Calls : status[c] \in {"preparing", "running"}}
  IN  /\ \A c, d \in active : c # d => kind[c] = "parallel" /\ kind[d] = "parallel"
      /\ Cardinality({c \in active : status[c] = "running"}) <= Max

\* Stopping is orderly, in two parts. The batch neither returns nor throws while a body
\* of it still runs, and it throws only for a scheduler failure (the internal
\* "uncommitted settled calls" error is unreachable).
NothingLeftRunning ==
  /\ pc \in {"done", "failed"} => \A c \in Calls : status[c] # "running"
  /\ pc = "failed" => failure

\* And after the step's signal is aborted, or a scheduler failure is recorded, no
\* further call is started, wherever the scheduler stood; after a failure no
\* prepared call is dispatched either, and no result is fabricated.
StartsStop ==
  [][/\ signal \/ failure => ~\E c \in Calls : status[c] = "planned" /\ status'[c] = "preparing"
     /\ failure => ~\E c \in Calls :
          \/ status[c] = "preparing" /\ status'[c] = "running"
          \/ status[c] = "planned" /\ status'[c] = "skipped"]_vars

\* (runGroup: its samples of the signal, and its drain)
StopsOrderly == []NothingLeftRunning /\ StartsStop

\* The batch always comes to an end.
Settles == <>(pc \in {"done", "failed"})
=============================================================================
