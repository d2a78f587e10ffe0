---------------------------- MODULE AgentDriver ----------------------------
(***************************************************************************)
(* One agent of packages/core/agent-loop (ReactLoopAgent, src/agent.ts)    *)
(* with its inbox (packages/core/agent/src/inbox.ts): anyone may send,     *)
(* remove, cancel or start maintenance at any time, and one driver at a    *)
(* time turns the pending messages into turns and steps of the session     *)
(* log, whose relational checks are SessionTrace.                          *)
(*                                                                         *)
(* JavaScript runs to completion, so an action is the code between two     *)
(* points where other code can run: an await, or a synchronous             *)
(* notification whose listeners may call the agent back. pc names the      *)
(* point where the driver stands:                                          *)
(*                                                                         *)
(*   off         no driver                                                 *)
(*   reserved    agent/status(running) listeners, before turn() is entered *)
(*   kick        awaiting turn(), which asked for another turn             *)
(*   opened      session/event listeners of turn/start                     *)
(*   assembling  awaiting the system prompt, the batch being claimed       *)
(*   proposing   awaiting the agent/pre-step waterfall                     *)
(*   entered     session/event listeners of step/start and user/message    *)
(*   model       awaiting the request, the stream or a retry decision      *)
(*   tools       awaiting executeToolCalls                                 *)
(*   stepEnded   session/event listeners of step/end                       *)
(*   stepFailed  the same, the step having thrown                          *)
(*   stopping    awaiting agent/turn-stopping                              *)
(*   failing     agent/error listeners                                     *)
(*   closing     session/event listeners of turn/end                       *)
(*   exit        turn() settled, kick() not yet resumed                    *)
(*                                                                         *)
(* A session cannot append while it publishes an event, so in the          *)
(* session/event windows an operation that would append throws instead.    *)
(***************************************************************************)
EXTENDS Naturals, Sequences, SessionTrace

CONSTANTS Msgs,          \* message identities
          MaxToolSteps   \* a model asks for tools in the first so many steps

ASSUME ConstantsAssumption == MaxToolSteps \in Nat

VARIABLES
  phase,      \* "idle", "maintenance" or "running"
  turn,       \* lastTurn while idle or in maintenance, turn while running
  step,       \* the last step entered in this turn
  cause,      \* reason of the activity's AbortController, NoCause until aborted
  wakeRequested, \* a wake latched behind this activity
  nextTurn,   \* inbox: prompts awaiting a turn each
  nextStep,   \* inbox: input awaiting the next step boundary
  pc,         \* where the driver stands
  claimed,    \* the batch of the step being proposed
  turnEnds,   \* why this turn ends, "none" for null
  sending,    \* {m} between a waking send's insertion of m and its wakeDriver
  wakingAfterAbort, \* how that send was classified before the insertion
  retiring,   \* kick's finally, between the idle phase and the replay
  trace,      \* summary of the session log
  fate,       \* history: what became of each message
  outcome,    \* history: reason of the last turn/end
  owed,       \* history: the last step left tool results unanswered
  prompts,    \* history: messages this turn took from the next-turn list
  asked,      \* history: strongest cancellation asked of this activity
  waking      \* history: waking input of this activity, "late" if behind it

agentVars == <<phase, turn, step, cause, wakeRequested>>
inbox     == <<nextTurn, nextStep>>
localVars == <<claimed, turnEnds>>
sendVars  == <<sending, wakingAfterAbort>>
history   == <<fate, outcome, owed, prompts, asked, waking>>
vars == <<phase, turn, step, cause, wakeRequested, nextTurn, nextStep, pc,
          claimed, turnEnds, sending, wakingAfterAbort, retiring, trace, fate,
          outcome, owed, prompts, asked, waking>>

NoCause == "none"
NoWakes == [m \in Msgs |-> "no"]
Causes  == {"user", "disposed"}
Publishing == pc \in {"opened", "entered", "stepEnded", "stepFailed", "closing"}

Elems(q)   == {q[i] : i \in DOMAIN q}
Pending(m) == m \in Elems(nextTurn) \cup Elems(nextStep)
HasPending == nextTurn # <<>> \/ nextStep # <<>>
Aborted    == cause # NoCause

\* inbox.mutate: count elements from offset start give way to the inserted.
Spliced(q, start, count, inserted) ==
  SubSeq(q, 1, start) \o inserted \o SubSeq(q, start + count + 1, Len(q))

\* No synchronous continuation of send or kick is on the stack.
Quiet == sending = {} /\ retiring = "no"

Init ==
  /\ phase = "idle" /\ turn = 0 /\ step = 0 /\ cause = NoCause /\ wakeRequested = FALSE
  /\ nextTurn = <<>> /\ nextStep = <<>>
  /\ pc = "off" /\ claimed = <<>> /\ turnEnds = "none"
  /\ sending = {} /\ wakingAfterAbort = FALSE /\ retiring = "no"
  /\ trace = FreshTrace
  /\ fate = [m \in Msgs |-> "unsent"]
  /\ outcome = "none" /\ owed = FALSE /\ prompts = {} /\ asked = "no" /\ waking = NoWakes

-----------------------------------------------------------------------------
(* Waking the driver.                                                      *)

StartDriver ==
  /\ phase' = "running" /\ step' = 0 /\ cause' = NoCause /\ wakeRequested' = FALSE
  /\ pc' = "reserved" /\ asked' = "no" /\ waking' = NoWakes

\* Faulty: maintenance does not latch the wakes behind it.
LatchWakeTurnsOnly(afterAbort) ==
  /\ wakeRequested' = (wakeRequested \/ (cause # "disposed" /\ afterAbort))
  /\ UNCHANGED <<phase, step, cause, pc, asked, waking>>

\* wakeDriver on a busy agent: a live driver claims the queue itself,
\* maintenance and aborted drivers latch the wake, disposal never does.
LatchWake(afterAbort) ==
  /\ wakeRequested' = (wakeRequested \/ (cause # "disposed" /\ (phase = "maintenance" \/ afterAbort)))
  /\ UNCHANGED <<phase, step, cause, pc, asked, waking>>

WakeDriver(afterAbort) ==
  \/ phase = "idle" /\ StartDriver
  \/ phase # "idle" /\ LatchWake(afterAbort)

-----------------------------------------------------------------------------
(* What the agent's users and its synchronous observers may do.            *)

Insert(m, target) ==
  /\ fate[m] = "unsent"
  /\ fate' = [fate EXCEPT ![m] = "sent"]
  /\ IF target = "next-turn"
       THEN nextTurn' = Spliced(nextTurn, Len(nextTurn), 0, <<m>>) /\ UNCHANGED nextStep
       ELSE nextStep' = Spliced(nextStep, Len(nextStep), 0, <<m>>) /\ UNCHANGED nextTurn

\* followup, steer, inject and send: waking input cannot join an aborted
\* activity, so it goes to the next turn. A waking send then runs its inserted
\* observers before wakeDriver.
Send(m, target, wakeup) ==
  /\ sending = {} /\ ~Publishing
  /\ wakingAfterAbort' = (wakeup /\ phase # "idle" /\ Aborted)
  /\ Insert(m, IF wakingAfterAbort' THEN "next-turn" ELSE target)
  /\ sending' = IF wakeup THEN {m} ELSE {}
  /\ waking' = IF wakeup /\ phase # "idle" /\ cause # "disposed"
               THEN [waking EXCEPT ![m] = IF phase = "maintenance" \/ wakingAfterAbort'
                                          THEN "late" ELSE "joined"]
               ELSE waking
  /\ UNCHANGED <<agentVars, pc, localVars, retiring, trace, outcome, owed,
                 prompts, asked>>

\* Faulty: the wake is classified after the inserted observers.
SendWakesReclassified ==
  /\ sending # {}
  /\ WakeDriver(Aborted)
  /\ sending' = {} /\ wakingAfterAbort' = FALSE
  /\ UNCHANGED <<turn, inbox, localVars, retiring, trace, fate, outcome, owed,
                 prompts>>

SendWakes ==
  /\ sending # {}
  /\ WakeDriver(wakingAfterAbort)
  /\ sending' = {} /\ wakingAfterAbort' = FALSE
  /\ UNCHANGED <<turn, inbox, localVars, retiring, trace, fate, outcome, owed,
                 prompts>>

\* inbox.prepend on the next-step list, used by plugins for context.
Prepend(m) ==
  /\ ~Publishing
  /\ fate[m] = "unsent"
  /\ fate' = [fate EXCEPT ![m] = "sent"]
  /\ nextStep' = Spliced(nextStep, 0, 0, <<m>>)
  /\ UNCHANGED <<agentVars, nextTurn, pc, localVars, sendVars, retiring, trace,
                 outcome, owed, prompts, asked, waking>>

Remove(m) ==
  /\ ~Publishing
  /\ \/ \E i \in DOMAIN nextTurn :
            /\ nextTurn[i] = m
            /\ nextTurn' = Spliced(nextTurn, i - 1, 1, <<>>) /\ UNCHANGED nextStep
     \/ \E i \in DOMAIN nextStep :
            /\ nextStep[i] = m
            /\ nextStep' = Spliced(nextStep, i - 1, 1, <<>>) /\ UNCHANGED nextTurn
  /\ fate' = [fate EXCEPT ![m] = "canceled"]
  /\ UNCHANGED <<agentVars, pc, localVars, sendVars, retiring, trace,
                 outcome, owed, prompts, asked, waking>>

\* inbox.replace: the edited message n takes the place of the pending m.
Replace(m, n) ==
  /\ ~Publishing
  /\ fate[n] = "unsent"
  /\ \/ \E i \in DOMAIN nextTurn :
            /\ nextTurn[i] = m
            /\ nextTurn' = Spliced(nextTurn, i - 1, 1, <<n>>) /\ UNCHANGED nextStep
     \/ \E i \in DOMAIN nextStep :
            /\ nextStep[i] = m
            /\ nextStep' = Spliced(nextStep, i - 1, 1, <<n>>) /\ UNCHANGED nextTurn
  /\ fate' = [fate EXCEPT ![m] = "canceled", ![n] = "sent"]
  /\ UNCHANGED <<agentVars, pc, localVars, sendVars, retiring, trace,
                 outcome, owed, prompts, asked, waking>>

\* cancel(c, {keepInbox: keep}): clearing a non-empty inbox appends, so inside
\* a publication the call throws before it reaches the abort.
CancelThrows(keep) == Publishing /\ ~keep /\ HasPending

ClearInbox ==
  /\ nextTurn' = <<>> /\ nextStep' = <<>>
  /\ fate' = [m \in Msgs |-> IF Pending(m) THEN "canceled" ELSE fate[m]]

\* Faulty: the controller is aborted without the caller's cause.
AbortWithoutCause(c) == cause' = IF phase # "idle" /\ ~Aborted THEN "AbortError" ELSE cause

AbortActivity(c) == cause' = IF phase # "idle" /\ ~Aborted THEN c ELSE cause

Cancel(c, keep) ==
  /\ ~CancelThrows(keep)
  /\ IF keep THEN UNCHANGED <<nextTurn, nextStep, fate, wakeRequested>>
             ELSE ClearInbox /\ wakeRequested' = FALSE
  /\ AbortActivity(c)
  /\ UNCHANGED <<phase, turn, step>>

AskCancel(c, keep) ==
  /\ \/ Cancel(c, keep)
     \/ CancelThrows(keep) /\ UNCHANGED <<agentVars, nextTurn, nextStep, fate>>
  /\ asked' = IF phase = "idle" THEN asked
              ELSE IF c = "disposed" \/ asked = "dispose" THEN "dispose"
              ELSE "cancel"
  /\ UNCHANGED <<pc, localVars, sendVars, retiring, trace, outcome, owed, prompts, waking>>

StartMaintenance ==
  /\ phase = "idle"
  /\ phase' = "maintenance" /\ cause' = NoCause /\ wakeRequested' = FALSE
  /\ asked' = "no" /\ waking' = [m \in Msgs |-> IF m \in sending THEN "late" ELSE waking[m]]
  /\ UNCHANGED <<turn, step, inbox, pc, localVars, sendVars, retiring, trace,
                 fate, outcome, owed, prompts>>

\* The task settled. The public status was idle all along, so no status
\* listener runs between the idle phase and the replay of a latched wake.
EndMaintenance ==
  /\ phase = "maintenance" /\ Quiet
  /\ IF wakeRequested /\ HasPending
       THEN StartDriver
       ELSE /\ phase' = "idle" /\ cause' = NoCause /\ wakeRequested' = FALSE
            /\ asked' = "no" /\ waking' = NoWakes
            /\ UNCHANGED <<step, pc>>
  /\ UNCHANGED <<turn, inbox, localVars, sendVars, retiring, trace,
                 fate, outcome, owed, prompts>>

-----------------------------------------------------------------------------
(* The driver: kick, turn, preStep and step.                               *)

\* Faulty: a batch that is given up goes back to pending.
DroppedReturns(ms) == [m \in Msgs |-> IF m \in ms THEN "sent" ELSE fate[m]]

Dropped(ms) == [m \in Msgs |-> IF m \in ms THEN "dropped" ELSE fate[m]]

\* The finally block of turn(): every exit appends turn/end with its reason.
\* What the turn claimed and never entered is gone.
CloseTurn(reason) ==
  /\ trace' = Record(trace, TurnEnd(turn))
  /\ outcome' = reason
  /\ claimed' = <<>> /\ fate' = Dropped(Elems(claimed))
  /\ pc' = "closing"

\* Faulty: the next-step list is copied, not drained.
ClaimKeepsSteering ==
  LET count == IF step = 0 /\ nextTurn # <<>> THEN 1 ELSE 0
      taken == SubSeq(nextTurn, 1, count)
  IN  /\ claimed' = nextStep \o taken
      /\ nextTurn' = Spliced(nextTurn, 0, count, <<>>)
      /\ prompts' = prompts \cup Elems(taken)
      /\ UNCHANGED nextStep
      /\ pc' = "assembling"

\* Faulty: the most recent prompt is taken first.
ClaimNewest ==
  LET count == IF step = 0 /\ nextTurn # <<>> THEN 1 ELSE 0
      taken == SubSeq(nextTurn, Len(nextTurn) - count + 1, Len(nextTurn))
  IN  /\ claimed' = nextStep \o taken
      /\ nextTurn' = Spliced(nextTurn, Len(nextTurn) - count, count, <<>>)
      /\ prompts' = prompts \cup Elems(taken)
      /\ nextStep' = <<>>
      /\ pc' = "assembling"

\* inbox.claim: all next-step input, and at the first step one queued prompt.
Claim ==
  LET count == IF step = 0 /\ nextTurn # <<>> THEN 1 ELSE 0
      taken == SubSeq(nextTurn, 1, count)
  IN  /\ claimed' = nextStep \o taken
      /\ nextTurn' = Spliced(nextTurn, 0, count, <<>>)
      /\ prompts' = prompts \cup Elems(taken)
      /\ nextStep' = <<>>
      /\ pc' = "assembling"

OpenTurn ==
  /\ pc \in {"reserved", "kick"} /\ Quiet /\ ~Aborted
  /\ trace' = Record(trace, TurnStart(turn + 1))
  /\ turn' = turn + 1
  /\ turnEnds' = "none" /\ owed' = FALSE /\ prompts' = {}
  /\ pc' = "opened"
  /\ UNCHANGED <<phase, step, cause, wakeRequested, inbox, claimed, sendVars, retiring,
                 fate, outcome, asked, waking>>

\* turn() throws before turn/start when the reserved activity was cancelled.
AbandonTurn ==
  /\ pc \in {"reserved", "kick"} /\ Quiet /\ Aborted
  /\ pc' = "exit"
  /\ UNCHANGED <<agentVars, inbox, localVars, sendVars, retiring, trace, history>>

BeginProposal ==
  /\ pc = "opened" /\ Quiet /\ ~Aborted
  /\ Claim
  /\ UNCHANGED <<agentVars, turnEnds, sendVars, retiring, trace, fate, outcome,
                 owed, asked, waking>>

Assembled ==
  /\ pc = "assembling" /\ Quiet /\ ~Aborted
  /\ pc' = "proposing"
  /\ UNCHANGED <<agentVars, inbox, localVars, sendVars, retiring, trace, history>>

Reject ==
  /\ pc = "proposing" /\ Quiet /\ ~Aborted
  /\ CloseTurn("blocked")
  /\ UNCHANGED <<agentVars, inbox, turnEnds, sendVars, retiring, owed, prompts, asked, waking>>

\* An admitted empty batch ends a turn that already knows how it ends, and a
\* first step without input is an empty turn.
EnterNothing ==
  /\ pc = "proposing" /\ Quiet /\ ~Aborted
  /\ turnEnds # "none" \/ step = 0
  /\ CloseTurn(IF turnEnds # "none" THEN turnEnds ELSE "completed")
  /\ UNCHANGED <<agentVars, inbox, turnEnds, sendVars, retiring, owed, prompts, asked, waking>>

\* Faulty: the signal is not checked again before step/start.
EnterStepUnchecked(kept, context) ==
  /\ pc = "proposing" /\ Quiet
  /\ kept # {} \/ context \/ (turnEnds = "none" /\ step > 0)
  /\ trace' = Record(trace, StepStart(turn, step + 1))
  /\ step' = step + 1
  /\ fate' = [m \in Msgs |-> IF m \in kept THEN "entered"
                             ELSE Dropped(Elems(claimed))[m]]
  /\ claimed' = <<>> /\ owed' = FALSE
  /\ pc' = "entered"
  /\ UNCHANGED <<phase, turn, cause, wakeRequested, inbox, turnEnds, sendVars, retiring,
                 outcome, prompts, asked, waking>>

\* The pre-step listeners keep some of the batch and may add a context message.
EnterStep(kept, context) ==
  /\ pc = "proposing" /\ Quiet /\ ~Aborted
  /\ kept # {} \/ context \/ (turnEnds = "none" /\ step > 0)
  /\ trace' = Record(trace, StepStart(turn, step + 1))
  /\ step' = step + 1
  /\ fate' = [m \in Msgs |-> IF m \in kept THEN "entered"
                             ELSE Dropped(Elems(claimed))[m]]
  /\ claimed' = <<>> /\ owed' = FALSE
  /\ pc' = "entered"
  /\ UNCHANGED <<phase, turn, cause, wakeRequested, inbox, turnEnds, sendVars, retiring,
                 outcome, prompts, asked, waking>>

Request ==
  /\ pc = "entered" /\ Quiet /\ ~Aborted
  /\ trace' = Record(trace, RequestHeader)
  /\ pc' = "model"
  /\ UNCHANGED <<agentVars, inbox, localVars, sendVars, retiring, history>>

\* The step returns: max-tokens is sticky, an unconcluded tool step is null.
FinishStep(stepEnd, log) ==
  /\ trace' = Record(log, StepEnd(turn, step))
  /\ turnEnds' = IF turnEnds = "max-tokens" THEN turnEnds ELSE stepEnd
  /\ owed' = (stepEnd = "none")
  /\ pc' = "stepEnded"
  /\ UNCHANGED <<agentVars, inbox, claimed, sendVars, retiring, fate, outcome, prompts,
                 asked, waking>>

Answer(stepEnd) ==
  /\ pc = "model" /\ Quiet /\ ~Aborted
  /\ FinishStep(stepEnd, Record(trace, AssistantMessage(turn, step)))

CallTools ==
  /\ pc = "model" /\ Quiet /\ ~Aborted /\ step <= MaxToolSteps
  /\ trace' = Record(trace, AssistantMessage(turn, step))
  /\ pc' = "tools"
  /\ UNCHANGED <<agentVars, inbox, localVars, sendVars, retiring, history>>

ToolsSettle(concluded) ==
  /\ pc = "tools" /\ Quiet /\ ~Aborted
  /\ FinishStep(IF concluded THEN "completed" ELSE "none", trace)

\* Faulty: a step that throws is left without its step/end.
LeaveStepOpen ==
  /\ \/ pc \in {"model", "tools"}
     \/ pc = "entered" /\ Aborted
  /\ Quiet
  /\ UNCHANGED trace
  /\ pc' = "stepFailed"
  /\ UNCHANGED <<agentVars, inbox, localVars, sendVars, retiring, history>>

\* The step throws (a failed request, a scheduler failure, an abort): its
\* finally block appends step/end on the way out. An aborted tool batch returns
\* normally and reaches the same point through the check that follows step/end.
LeaveStep ==
  /\ \/ pc \in {"model", "tools"}
     \/ pc = "entered" /\ Aborted
  /\ Quiet
  /\ trace' = Record(trace, StepEnd(turn, step))
  /\ pc' = "stepFailed"
  /\ UNCHANGED <<agentVars, inbox, localVars, sendVars, retiring, history>>

\* An await between steps throws, or a failed step reaches the catch block.
Fail ==
  /\ pc \in {"assembling", "proposing", "stopping", "stepFailed"}
  /\ Quiet /\ ~Aborted
  /\ claimed' = <<>> /\ fate' = Dropped(Elems(claimed))
  /\ pc' = "failing"
  /\ UNCHANGED <<agentVars, inbox, turnEnds, sendVars, retiring, trace, outcome,
                 owed, prompts, asked, waking>>

EndFailedTurn ==
  /\ pc = "failing" /\ Quiet
  /\ CloseTurn("error")
  /\ UNCHANGED <<agentVars, inbox, turnEnds, sendVars, retiring, owed, prompts, asked, waking>>

\* Some throwIfAborted between steps, or an await that rejects with the abort.
AbortTurn ==
  /\ pc \in {"opened", "assembling", "proposing", "stepEnded", "stepFailed", "stopping"}
  /\ Quiet /\ Aborted
  /\ CloseTurn("aborted")
  /\ UNCHANGED <<agentVars, inbox, turnEnds, sendVars, retiring, owed, prompts, asked, waking>>

TurnStopping ==
  /\ pc = "stepEnded" /\ Quiet /\ ~Aborted
  /\ turnEnds # "none" /\ nextStep = <<>>
  /\ pc' = "stopping"
  /\ UNCHANGED <<agentVars, inbox, localVars, sendVars, retiring, trace, history>>

\* Another step: the model owes a response, or input arrived for the next step.
Continue ==
  /\ \/ pc = "stepEnded" /\ (turnEnds = "none" \/ nextStep # <<>>)
     \/ pc = "stopping" /\ nextStep # <<>>
  /\ Quiet /\ ~Aborted
  /\ Claim
  /\ UNCHANGED <<agentVars, turnEnds, sendVars, retiring, trace, fate, outcome,
                 owed, asked, waking>>

Stop ==
  /\ pc = "stopping" /\ Quiet /\ ~Aborted
  /\ nextStep = <<>>
  /\ CloseTurn(turnEnds)
  /\ UNCHANGED <<agentVars, inbox, turnEnds, sendVars, retiring, owed, prompts, asked, waking>>

\* turn() returns TRUE only when it ran a step to a normal end and found more
\* pending: blocked, empty, failed and aborted turns leave the queue parked.
MoreWork ==
  /\ outcome \in {"completed", "max-tokens"} /\ step > 0
  /\ HasPending

NextTurn ==
  /\ pc = "closing" /\ Quiet /\ MoreWork
  /\ step' = 0 /\ cause' = NoCause /\ wakeRequested' = FALSE
  /\ asked' = "no" /\ waking' = NoWakes
  /\ pc' = "kick"
  /\ UNCHANGED <<phase, turn, inbox, localVars, sendVars, retiring, trace,
                 fate, outcome, owed, prompts>>

LeaveTurn ==
  /\ pc = "closing" /\ Quiet /\ ~MoreWork
  /\ pc' = "exit"
  /\ UNCHANGED <<agentVars, inbox, localVars, sendVars, retiring, trace, history>>

\* Faulty: the latch is read after the idle phase replaced it.
RetireForgets ==
  /\ pc = "exit" /\ Quiet
  /\ retiring' = "plain"
  /\ phase' = "idle" /\ step' = 0 /\ cause' = NoCause /\ wakeRequested' = FALSE
  /\ asked' = "no" /\ waking' = IF wakeRequested THEN waking ELSE NoWakes
  /\ pc' = "off"
  /\ UNCHANGED <<turn, inbox, localVars, sendVars, trace, fate, outcome, owed, prompts>>

\* kick's finally: the idle phase is published to agent/status listeners ...
Retire ==
  /\ pc = "exit" /\ Quiet
  /\ retiring' = IF wakeRequested THEN "replay" ELSE "plain"
  /\ phase' = "idle" /\ step' = 0 /\ cause' = NoCause /\ wakeRequested' = FALSE
  /\ asked' = "no" /\ waking' = IF wakeRequested THEN waking ELSE NoWakes
  /\ pc' = "off"
  /\ UNCHANGED <<turn, inbox, localVars, sendVars, trace, fate, outcome, owed, prompts>>

\* ... and then a latched wake is replayed.
Replay ==
  /\ retiring # "no" /\ sending = {}
  /\ retiring' = "no"
  /\ IF retiring = "replay" /\ HasPending
       THEN WakeDriver(FALSE)
       ELSE /\ waking' = IF phase = "idle" THEN NoWakes ELSE waking
            /\ UNCHANGED <<phase, step, cause, wakeRequested, pc, asked>>
  /\ UNCHANGED <<turn, inbox, localVars, sendVars, trace, fate, outcome, owed, prompts>>

-----------------------------------------------------------------------------
DriverStep ==
  \/ OpenTurn \/ AbandonTurn \/ BeginProposal \/ Assembled
  \/ Reject \/ EnterNothing
  \/ \E kept \in SUBSET Elems(claimed), context \in BOOLEAN : EnterStep(kept, context)
  \/ Request \/ CallTools \/ LeaveStep
  \/ \E stepEnd \in {"completed", "max-tokens"} : Answer(stepEnd)
  \/ \E concluded \in BOOLEAN : ToolsSettle(concluded)
  \/ Fail \/ EndFailedTurn \/ AbortTurn
  \/ TurnStopping \/ Continue \/ Stop
  \/ NextTurn \/ LeaveTurn \/ Retire

\* Everything the runtime itself carries on with.
Progress == DriverStep \/ Replay \/ SendWakes \/ EndMaintenance

UserStep ==
  \/ \E m \in Msgs, target \in {"next-turn", "next-step"}, wakeup \in BOOLEAN :
       Send(m, target, wakeup)
  \/ \E m \in Msgs : Prepend(m) \/ Remove(m)
  \/ \E m, n \in Msgs : Replace(m, n)
  \/ \E c \in Causes, keep \in BOOLEAN :
       (keep => c # "disposed") /\ AskCancel(c, keep)
  \/ StartMaintenance

Next == Progress \/ UserStep

Spec == Init /\ [][Next]_vars

\* Streams, tools, hooks and maintenance tasks settle; users owe nothing.
FairSpec == Spec /\ WF_vars(Progress)

-----------------------------------------------------------------------------
(* What must hold.                                                         *)

PCs == {"off", "reserved", "kick", "opened", "assembling", "proposing",
        "entered", "model", "tools", "stepEnded", "stepFailed", "stopping",
        "failing", "closing", "exit"}
Reasons == {"completed", "max-tokens", "blocked", "aborted", "error"}

\* The driver itself logs no tool call; ToolCalls does.
Traces == [openTurn : Nat, openStep : Nat, nextTurn : Nat, nextStep : Nat,
           pendingCalls : {{}}, ok : BOOLEAN]

\* The variables keep their types, and the turn and step counters stay natural.
TypeOK ==
  /\ phase \in {"idle", "maintenance", "running"}
  /\ turn \in Nat /\ step \in Nat
  /\ cause \in Causes \cup {NoCause} /\ wakeRequested \in BOOLEAN
  /\ nextTurn \in Seq(Msgs) /\ nextStep \in Seq(Msgs) /\ claimed \in Seq(Msgs)
  /\ pc \in PCs
  /\ turnEnds \in {"none", "completed", "max-tokens"}
  /\ sending \subseteq Msgs /\ wakingAfterAbort \in BOOLEAN
  /\ retiring \in {"no", "plain", "replay"}
  /\ trace \in Traces
  /\ fate \in [Msgs -> {"unsent", "sent", "entered", "canceled", "dropped"}]
  /\ outcome \in Reasons \cup {"none"}
  /\ owed \in BOOLEAN /\ prompts \subseteq Msgs
  /\ asked \in {"no", "cancel", "dispose"} /\ waking \in [Msgs -> {"no", "joined", "late"}]

\* Whatever fails or is cancelled when, the loop never appends an event the
\* session companion rejects (core/session/src/invariant.ts): turns and steps
\* are consecutive, never nested, and closed by the exit that leaves them.
LogAccepted == trace.ok

\* The windows in which the driver has a turn, or a step, open in memory.
InTurn == pc \in {"opened", "assembling", "proposing", "entered", "model",
                  "tools", "stepEnded", "stepFailed", "stopping", "failing"}
InStep == pc \in {"entered", "model", "tools"}

\* The log and the driver agree at every point where other code runs: what is
\* open in the log is what the driver has open in memory, and the number the
\* companion expects next is the one the driver will use next. No driver runs
\* outside the running phase.
LogMirrorsDriver ==
  /\ trace.openTurn = IF InTurn THEN turn ELSE None
  /\ trace.openStep = IF InStep THEN step ELSE None
  /\ trace.nextTurn = IF InTurn THEN turn ELSE turn + 1
  /\ InTurn => trace.nextStep = IF InStep THEN step ELSE step + 1
  /\ InTurn => turn > 0
  /\ InStep => step > 0
  /\ pc \in {"reserved", "kick"} => step = 0
  /\ phase # "running" => pc = "off"

\* A message that was sent and has not met its end sits in exactly one place,
\* once: one of the two inbox lists or the batch a live driver is proposing.
\* No interleaving of claims, cancels and aborts loses or duplicates it.
OneHome ==
  LET homes == nextTurn \o nextStep \o claimed
  IN  /\ \A i, j \in DOMAIN homes : homes[i] = homes[j] => i = j
      /\ Elems(homes) = {m \in Msgs : fate[m] = "sent"}

\* followup(): the prompt becomes the sole ordinary message of its own turn,
\* however many steps the turn takes, and prompts are served in the order they
\* were queued: one is not claimed while an earlier one stays behind.
PromptsInOrder ==
  [][/\ \A m, n \in prompts' : m = n
     /\ \A i, j \in DOMAIN nextTurn :
          i < j /\ nextTurn[j] \in Elems(claimed') =>
            nextTurn[i] \notin Elems(nextTurn')]_vars

\* A latch belongs to an activity that cannot deliver the wake itself, and to
\* waking input that arrived behind it: a live driver is never replayed, and
\* what a keepInbox cancellation parked is not restarted without a new wake.
LatchIsNeeded ==
  wakeRequested => /\ \E m \in Msgs : waking[m] = "late"
                   /\ phase = "maintenance" \/ (phase = "running" /\ Aborted)

\* Waking input that arrives behind a maintenance task or a cancelled turn is
\* never forgotten: as long as it is pending, the activity remembers to wake.
WakeIsRemembered ==
  phase # "idle" /\ Quiet /\ (\E m \in Msgs : waking[m] = "late" /\ Pending(m))
    => wakeRequested

\* A cancellation is final, wherever it lands: the turn enters no further step,
\* and its turn/end does not report a success.
NoStepAfterAbort ==
  [][Aborted => trace'.openStep \in {trace.openStep, None}]_vars

\* turn/end says aborted, or error when the abort came from an agent/error listener.
AbortIsReported ==
  [][Aborted /\ pc # "closing" /\ pc' = "closing" =>
       outcome' \in {"aborted", "error"}]_vars

\* Both halves, of ReactLoopAgent.turn.
AbortIsFinal == NoStepAfterAbort /\ AbortIsReported

\* cancel() converges, with nothing owed to what came meanwhile: an aborted turn
\* or maintenance task comes to an end, and the wake it latched is replayed by
\* another driver, unless what was pending is cancelled or removed first.
CancelConverges == Aborted ~> ~Aborted

LatchedWakeRuns == (wakeRequested /\ HasPending) ~> (pc = "reserved" \/ ~HasPending)

\* (Agent.cancel, kick, runMaintenance)
CancelSettles == CancelConverges /\ LatchedWakeRuns

\* The stage of MessageDelivery that each message has reached.
Stage == [m \in Msgs |-> IF fate[m] # "sent" THEN fate[m]
                         ELSE IF m \in Elems(claimed) THEN "claimed"
                         ELSE "pending"]

\* The driver implements MessageDelivery: whatever the interleaving, a batch
\* is settled before the next is claimed, a cancelled message never enters the
\* session, and no claimed message returns to the inbox.
Delivery == INSTANCE MessageDelivery WITH stage <- Stage

ImplementsDelivery == Delivery!Spec

-----------------------------------------------------------------------------
(* What the documentation says and the code does not keep.                 *)

\* wakeDriver: "disposal never latches, so teardown waits on no model turn".
DisposalNeverLatches == asked = "dispose" => ~wakeRequested

\* agent/turn-stopping: "the model owes no response (no live tool calls, no
\* fresh steering)".
StoppingOwesNothing == pc = "stopping" => ~owed

\* wakeDriver: "Live drivers claim queued work themselves": a driver does not
\* leave a completed turn behind a waking message that joined it alive.
LiveDriverClaims ==
  [][pc = "closing" /\ pc' = "exit" /\ outcome = "completed" =>
       \A m \in Msgs : waking[m] = "joined" => ~Pending(m)]_vars
=============================================================================
