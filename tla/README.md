# A TLA+ model of the DeepSeek Harness runtime

The repository is a TypeScript monorepo of Cordis plugins: an agent harness
(`dsh`) whose agents turn user messages into model requests, tool calls and an
append-only session log that survives crashes. This directory holds the
specifications kept beside that code. They model the part of the system where
ordering, cancellation and failure decide correctness: the agent driver and its
inbox, the tool-call scheduler, the session log's relational contract, crash
repair, the write path of session persistence, the ownership of a session id,
background jobs, and automatic goal rounds.

Everything here is translated from the source. Paths below are relative to
`src/packages/` unless they say otherwise.

## 1. The system

### Components

| component | state it keeps | operations | correct when |
|---|---|---|---|
| **Agent driver** `core/agent-loop/src/agent.ts` | phase (idle, maintenance, running), abort controller, wake latch, turn and step counters | send, cancel, runMaintenance, wakeDriver, kick, turn, preStep, step | turns and steps are consecutive and balanced in the log on every exit; an aborted turn enters no further step and is not reported as a success; a wake is never lost and never replayed without need |
| **Inbox** `core/agent/src/inbox.ts` | next-turn and next-step lists | append, prepend, replace, remove, clear, claim | a message has one home and one end; one prompt per turn, in order |
| **Tool-call scheduler** `core/agent-loop/src/tool-calls.ts` | group, rolling pool, slots, abort sample, first failure | executeToolCalls, runGroup (startCall, fillPool, commitReady), appendSkippedToolCall | results in model order and complete, exclusive calls alone, pool bounded, nothing left running |
| **Session** `core/session/src/index.ts` | event log, append guard, attachment to the store | append, enter, announce, detach, flush | append is atomic and does not re-enter |
| **Session log companion** `core/session/src/invariant.ts` | trace: open turn and step, next numbers, pending calls | validateEvent, applyTransition | refuses every ill-formed log and no log the loop or the repair writes |
| **Crash repair** `core/session/src/repair.ts` | none (a fold over the stored events) | interruptedTurnClosers | the repaired log is well formed, each requested call has one result, "not started" is true |
| **Checkpoint policy** `session/session-checkpoint-policy` | none | flush before a request, a step and a tool body | an effect never precedes the durable record of its cause |
| **Persistence coordinator** `session/session-persistence/src/coordinator.ts` | live sessions, per-id cursor and owner, promise chains, retirements, prepared sessions | create, append, flush, prepare, load, readFrom, retire | the stored log is a prefix of the live one; one owner per id |
| **Write-behind controller** `session/session-persistence/src/write-behind.ts` | queue, timer, active write, barrier, pause | enqueue, flush, cancelAutomaticWait | no event lost, doubled, reordered or stranded; a resolved flush is durable |
| **Persistence backends** `session-persistence-jsonl`, `-sqlite` | files, databases | appendBatch, commitRepair, loadStored | a failed append leaves the store as it was |
| **Agent lifecycle** `core/agent-loop/src/index.ts`, `core/agent/src/index.ts` | registry of agents, preparations, teardown fibers | create, resume, publish, dispose | one agent per session id; teardown leaves nothing running |
| **Tool registry** `core/tools/src/index.ts` | tools, execution pipeline | prepare, dispatch, finalize, executionMode | each call gets one result |
| **Jobs** `jobs/jobs-local` | job store, waiters, notices, per-owner limit | start, wait, kill, settle, dispose | a completion is reported once, to a waiter or by a notice; teardown stops everything |
| **Goals and goal rounds** `goal/*` | goal record, reserved round | goal edits, reserve, claim, verify | at most one automatic round at a time, none for a paused or changed goal |
| **Approvals, questions** `interaction/*` | pending requests | ask, answer, abort | one decision per question, logged as a pair |
| **LLM layer and retry** `llm/*` | retry fold over the log | stream, retry decision | attempts bounded per step and provider |
| **Storage domains** `storage/*` | open names, write queue | open, write, close | single open per name, close drains |
| **Schedule, workflow, subagents** | timers, worker runs, child agents | start, wake, continue, cancel | children end with their parents |
| **Gateway, API proxy, SDK, client, host services** | connections, browser state | transport and views | deliver what the runtime says |
| **Everything else** (fs, shell, sandbox, mcp, web, settings, credentials, ...) | — | I/O behind the tool contract | — |

`PROJECT.json` lists each of them with its files and its status.

### Interaction

```
 users, plugins, gateway          listeners (agent/*, session/event)
        |  send, cancel, edit            ^  synchronous notifications
        v                                |
   Inbox  <--- claim ---  Agent driver ------ append ----> Session log
                             |      ^                         |  session/event
                  calls of a |      | results                 v
                  step       v      |                  Write-behind controller
                        Tool-call scheduler                   | batches
                             |  tools/execute                 v
                             v                          Coordinator (per-id chain)
                        tool bodies  <- checkpoint flush -    |
                                                              v
   resume  <--- repaired log ---  Crash repair  <--------- Backend
```

All of it runs on one JavaScript thread. Code runs to completion between two
awaits, but a synchronous notification (`agent/status`, inbox observers,
`agent/error`, `session/event`) runs listeners *inside* an operation, and these
may call the agent back. That, not parallelism, is where most of the hard
behaviour comes from:

- state read before an await or a notification and used after it (the abort
  signal before pre-step, the wake classification before the inserted observers);
- a message claimed before two awaits, either of which may abort or fail;
- wakes arriving behind an aborted or a maintenance activity;
- tool bodies that settle in any order while results are committed in model
  order, across awaits that may themselves fail;
- a process that dies at any event, also in the middle of a repair;
- a batching deadline racing an active write, a failing write and a barrier;
- two sessions of one id, one of which still drains while the other is read,
  repaired and published;
- a completion of a job that a waiter, a timeout, a kill and a teardown all see;
- a goal that is changed, paused or cancelled between the reservation of its
  next round and the step the round enters.

The hazards of `PROJECT.json` give each of these its line.

## 2. The modules

| module | models | state ↔ code | lines it stands for |
|---|---|---|---|
| `SessionTrace` | the companion's checks | record `trace` ↔ `SessionTrace` of `invariant.ts`, plus `ok`: the companion throws, the model remembers | `core/session/src/invariant.ts` |
| `AgentDriver` | the driver with its inbox | `phase`, `turn`, `step`, `cause`, `wakeRequested`, the two lists, `claimed` (the local batch of `turn`), `turnEnds`; `pc` is the await or notification the driver stands at | `agent.ts`, `inbox.ts` |
| `MessageDelivery` | what an agent promises about a message (abstract) | one `stage` per message | inbox events of `runtime-types.ts` |
| `ToolCalls` | one batch of tool calls | `started`/`committed` cursors, `status` per call ↔ slots, `inFlight` ↔ the race set, `aborted` ↔ the group's sample of `signal` | `tool-calls.ts` |
| `SessionRecovery` | log, store, crash, repair, resume | `log`, `durable`, `closers`; `ran` remembers which bodies had outside effects | `repair.ts`, `coordinator.ts` (prepare, commit, attach), checkpoint policy |
| `WriteBehind` | how events reach the store | the fields of `SessionWriteBehind`, the coordinator's `cursor`, `init` and `seed`, each call of `flush` | `write-behind.ts`, `coordinator.ts` (initFor, onCreated, flush, retire, appendLiveBatch, appendCore) |
| `SessionOwnership` | who holds a session id | `stored` ↔ the artifact, `state` ↔ `SessionState`, `entry` ↔ `PreparationEntry`, `chain` ↔ `serialize`, `live` ↔ the entered session; `pc`, `seen`, `awaited`, `log` and `saved` say where each caller and its session stand | `coordinator.ts` (prepare, load, commit, attach, onCreated, retire), `preparations.ts`, `agent-loop/src/index.ts` (createAgent, resume, setupAndPublish, dispose) |
| `Jobs` | the local job registry | `owner`, `status`, `reported` ↔ `TrackedTask`, `work` ↔ the producer, `wait` and `target` ↔ the calls of `wait`, `phase`, `attached` and `draining` ↔ owner scopes, `ownerCleanups` and both disposals | `jobs-local/src/index.ts` |
| `GoalRounds` | automatic goal rounds | `goal` ↔ `GoalFoldState` and activation, `driver` ↔ `DriverState`, `agent` ↔ the inbox, the claimed batch and the phase as the driver's listeners see them | `goal-round-driver/src/index.ts`, `goal/src/index.ts`, `goal/src/fold.ts`, `agent.ts` |
| `PrefixStore` | what persistence promises (abstract) | `log`, `durable` | — |
| `AgentDriverProofs`, `AgentDriverInboxProofs` | theorems about `AgentDriver`: its log, its aborts and its wake latch; its inbox and the refinement of `MessageDelivery` | — | — |
| `ToolCallsProofs`, `SessionRecoveryProofs`, `JobsProofs`, `WriteBehindProofs`, `SessionOwnershipProofs`, `GoalRoundsProofs` | theorems about the module each is named after | — | — |
| `MCAgentDriver`, `MCToolCalls` | symmetry, stuttering at the end | — | — |

How they compose. `AgentDriver` and `ToolCalls` both extend `SessionTrace` and
extend their log only through `Record`, so their invariant `LogAccepted` says that
the companion accepts what they write. `ToolCalls` is the refinement of the
driver's `tools` window: `AgentDriver` sees a batch as one await that ends
concluded, unconcluded or failed, and `ToolCalls` shows what happens in it, starting
from the trace of an open step. `SessionRecovery` takes the *order* of events
from these two (its live actions read what is open off the log itself) and its
`Persist` action is what `WriteBehind` is shown to implement through `PrefixStore`:
the store is, at any moment, a growing prefix of the live log. `SessionOwnership`
goes back inside what `SessionRecovery` takes as one resume, for one id and several
callers, with a log reduced to how many events it has and whether its turn is
open. `GoalRounds` takes from `AgentDriver` the phases, the latch and the claims, and
leaves out what a step does.

### AgentDriver

An action is the code between two points at which other code can run; `pc` names
the point. Users may send, prepend, remove, replace, cancel (with or without
`keepInbox`, as a user or as a disposer) and start maintenance at every one of them, except
that inside a `session/event` notification whatever would append throws, as in
`Session.append`. `send` is two steps, because the inserted observers run between
the insertion and `wakeDriver`; kick's `finally` is two steps, because status
listeners run between the idle phase and the replay of the latch.

Abstracted: what a request contains and streams (one await, which answers, asks
for tools, or fails); the decisions of pre-step, turn-stopping and retry
listeners (nondeterministic); the surface of the log. `fate`, `outcome`, `owed`,
`prompts`, `asked` and `waking` are history variables that no guard reads, apart
from `fate`, which says which messages are still unsent, and `outcome`, which is
the local `reason` of `turn()` on its way to the finally block.

### ToolCalls

The calls are 1..N in model order. The registry is external: `executionMode` may
answer differently each time it is asked, `prepare` may dispatch, answer at once
or throw, a body settles any time or its dispatch rejects, `finalize` may throw.
The abort signal may rise at any await.

### SessionRecovery

The live part appends only what the driver and the scheduler can append; the
store takes any prefix at any time (a batch, a flush, or what a torn write left).
A crash keeps `durable` and the effects of the bodies that ran. The repair scans
the stored events, computes the closers, writes them (perhaps only some of them
before the next crash), reloads, and resumes when no closer is missing. Call
identifiers recur in every step, as providers may reuse them.

### WriteBehind

One live session, its queue and everybody who flushes it. The session may begin
with a seed of which the store holds a prefix; the first mention of the session
captures its events as the seed and starts the initialization, which may fail
(a collision, an unreadable artifact, a failed append). The event that first
mentions the session is then in the seed *and* in the queue, which is why the
append filters by the cursor. Writes may fail any number of times. The steps left
to a later microtask (`continueAutomatic`, the loop head of `drainBarrier`, its
rejection) are actions of their own, so that new events and new flushes can come
in between; a timer is a macrotask and does not.

### SessionOwnership

One session id; resumes, loads and a fresh creation compete for it, may be
cancelled at any await, and share one cold read (`SessionPreparations`). An action is
what one of them, or the id's promise chain, does between two awaits. Kept is the microtask window
in which `waitForRetirement` has passed, the live session of the id detaches, and
the attempt enters only then: such a resume can fail on the owner check alone.
Reads, repairs and writes may fail, and another process may append to the
stored log. A creation brings no events or one (a fork's seed). The agents' turns are
external: they open and close a turn in the live log.

### Jobs

Jobs belong to successive owners (agents of one id) or to nobody. A producer's
body is external: it settles or fails any time, accepts a cancel or throws in it.
A wait may time out, abort, or be answered in the tick of the settlement; the
owner's scope and the service may be torn down at any time. Two facts of Cordis
keep late starts out and are modelled as guards: the controller that serves an owner is
unloaded in the turn in which the service's disposal begins, and an unloading scope
refuses new effects, so that the cleanup entry deleted first cannot be made again.

### GoalRounds

A handler of the driver runs from one await to the next, with the listeners it
triggers, and is an operator from worlds to worlds; an action applies one and `Becomes` its
result. The id and the revision of a goal are one number. Messages of people
and of other plugins may be prompts, steering or context; a turn's steps matter only for
what they claim. Outside code (sends, cancels, mutations, unloading) runs at every
await, among them the checkpoint flush, the assembly before pre-step, the listeners inside
the driver's, and the model's step. Two constants name what the code around decides:
`OuterListeners`, whether pre-step listeners run around the driver's and may await
between its verdict and the step; `Overlaps`, whether maintenance may coincide
with an armed goal. The passing run has neither: see "Disagreements" for what either brings.

## 3. The runs

| run | bounds | question |
|---|---|---|
| `AgentDriver_safety` | 3 messages, 2 tool steps per turn | safety, action properties, implements `MessageDelivery` |
| `AgentDriver_liveness` | 2 messages, 1 tool step | does a cancelled activity end, is a latched wake replayed |
| `ToolCalls` | 4 calls, pool of 2 | safety and termination of a batch |
| `SessionRecovery` | 2 turns of 1 step, 2 calls, 2 crashes | crash consistency |
| `WriteBehind` | 4 events, 2 callers of flush and the retirement | durability, refinement of `PrefixStore`, liveness |
| `SessionOwnership` | 2 resumes, of which one may be a load, 1 creation, 1 event of the agents, 1 of another process | one continuation of the stored log, complete retirement, repair only of the dead, answers |
| `Jobs` | 2 jobs, 2 successive owners, 1 wait, limit 1 | one report per completion, complete teardowns, bounded work, answers |
| `GoalRounds` | 2 messages, 2 rounds, 3 changes of the goal | scheduling of automatic rounds against people, tools and teardown |
| `AgentDriver_disposal`, `_stopping`, `_emptyturn`; `GoalRounds_gap` | 2 messages; 1 message, 2 changes | one documented promise each, which the code does not keep |

Why the bounds are enough. *Three messages* are one in each home (next-turn
list, next-step list, claimed batch) or a queue of two behind a running turn, which
is what ordering, one-prompt-per-turn and replacement need; they are
interchangeable, hence the symmetry. Two suffice for the liveness run, whose
properties speak of one wake. `MaxToolSteps` only bounds how often a model asks for
tools. A turn still takes further steps through steering and through context the
pre-step listeners add; the number of turns is bounded by the messages, since a
turn needs a waking send. *Four calls over a pool of two* allow a parallel group
that fills the pool and rolls on, an exclusive barrier before or after it, and calls
to be skipped behind an abort. *Two crashes* are one in the live session and one
in the repair, or two sessions in a row. *Four events* allow a seed, an active
batch, a tail behind it and an event that arrives during a barrier. *Two resumes, a load
and a creation* are a holder, one that waits for its retirement, one that shares the
cold read, and one that collides; the separate instance (two resumes, a load and a creation of their own,
1,249,525 states) and two events of the agents (483,422 states) were run by hand as well.
*Two jobs over two owners* are one that outlives its owner and one of the next, or
one running and one stopping at the limit of 1; two waits, and three jobs at a
limit of 2, were run by hand. *Two messages and two rounds* are needed for a round that waits
between two prompts, and for a round after a settled one; *three changes* are creation, a stop
and a resumption, or a change in each of two windows of one round.

What is checked:

- **The log.** `LogAccepted` (driver, scheduler, recovery): no interleaving of
  failures, aborts and observers makes the runtime write, or leave behind in a crash,
  a log the companion refuses.
- **Messages.** `OneHome`: sent and not ended means in exactly one place, once.
  `ImplementsDelivery`: no claimed message returns, a batch settles before the
  next one is claimed, a cancelled message never enters. `PromptsInOrder` has
  the promises of `followup()`: one prompt per turn, in the order of the queue.
- **Wakes.** `WakeIsRemembered`: waking input behind a busy activity keeps the latch
  set as long as it is pending. `LatchIsNeeded`: nothing else sets it, and a
  live driver is never replayed.
- **Cancellation.** `AbortIsFinal`: an aborted turn enters no further step and does not
  end as a success. `CancelSettles`: it ends, and the wake it latched is replayed.
- **Tool calls.** `EveryCallAnswered`: results are complete, in model order, and a
  conclusion is kept. `Barrier`. `StopsOrderly`: nothing is left running when a batch returns or
  throws (nor is the internal "uncommitted settled calls" error reachable), and after an abort or a
  failure nothing more is started. `Settles`.
- **Crashes.** `RepairConverges`: a repair that is itself interrupted arrives at the
  log one uninterrupted repair would have written. `TranscriptTrue`: each
  requested call of a closed step has exactly one result, except in a step that a
  scheduler failure abandoned, and a call reported as not started
  had no effect. `Resumes`.
- **Durability.** `NoEventStranded`: somebody is always responsible for a queued
  event. `FlushKeepsPromise`: a resolved flush made durable all that had been
  appended when it was called, joined barriers included, and retirement forgets a session only when its log is stored.
  `ImplementsPrefixStore`; `EventuallyStored`, which includes that every flush settles.
- **Ownership.** `HolderContinuesLog`: whoever holds the id appends to the log as it is
  stored, whatever was read when. `RetiredIsStored`: a retirement that succeeds leaves nothing unwritten.
  `RepairsOnlyTheDead`: no repair closes a turn that a live or draining session is in.
  `EveryoneAnswered`: each caller gets an agent, a session or an error.
- **Jobs.** `CompletionToldOnce`: a completion is told by one waiter's answer or one
  notice, never both, never twice. `TeardownComplete`, `LiveWorkBounded`; `Settles`: waits and teardowns end.
- **Goal rounds.** `RoundsSound`: one round of the present revision at a time, and none
  that the fold refuses enters. `HumanWorkWins`: no message of people is lost with a rejected round,
  no round passes a waiting prompt, a cancelled round stops its goal. `DurableFirst`: a round is
  reserved only behind a checkpoint of every earlier event of the goal. `NoGoalStranded`: while an idle agent
  has an armed goal, a run of the driver is under way.

Each property has a mutant: a definition marked "Faulty" beside the one it
replaces, a plausible mistake in the code that the property's run detects.

### Fairness

- `AgentDriver!FairSpec` is weak fairness of `Progress`: the driver's own steps, the
  continuation of a send, the replay, the end of maintenance. The code hands the abort
  signal to all it awaits and has no timeout of its own, so this says that
  streams, tools, hooks and maintenance tasks settle. Users owe nothing.
- `ToolCalls!FairSpec`: the scheduler goes on and bodies settle.
- `SessionRecovery!FairSpec`: a restarted process loads and repairs; with a
  bound on crashes. The live session owes nothing.
- `WriteBehind!FairSpec`: timers fire, the backend answers (not: succeeds) and promise
  jobs run. That a flush settles also uses `MaxEvents`: a producer that never stops
  appending can hold a barrier open, since the barrier drains until it sees an
  empty queue.

- `Jobs!Fairness`: continuations run, and a producer that accepted a cancel settles.
  Uncancelled work, deadlines and callers owe nothing.
- `SessionOwnership!Fairness`: promises settle, I/O answers (not: succeeds), the setup of
  an agent ends. Nobody has to start, cancel, log or dispose.
- `GoalRounds` states no liveness; `NoGoalStranded` is the safety half of it.

Deadlock is checked for the driver, and for the scheduler through `MCToolCalls`,
which stutters only at the end of a batch. It is off for `SessionRecovery`,
`WriteBehind`, `SessionOwnership`, `Jobs` and `GoalRounds`: when their bounds are used up and
everybody is answered, nothing is left to do.

### Disagreements with the documentation

The four violation runs state sentences of the code's own comments:

- `DisposalNeverLatches` (`agent.ts:181-182`): the check reads the cause of the first
  abort, so after a user's cancel a disposer's cancel is not seen.
- `StoppingOwesNothing` (`runtime-types.ts:286-287`): the `max-tokens` reason is sticky,
  so a later tool step may end its turn with the results unanswered.
- `LiveDriverClaims` (`agent.ts:181`): an empty first step returns to idle without
  looking at the inbox again.
- `AdmittedRoundCurrent` (`goal-round-driver/src/index.ts:333`): pre-step listeners
  around the driver's (`agent-instructions` and `tool-skill` precede it in
  `bundle/base/cordis.patch.yml` and await after `next()`) delay the step past its second
  check; a goal changed meanwhile admits a round of its old revision, which
  `applyGoalEvent` refuses on every later fold of the log.

`PROJECT.json` quotes them with the behaviour that contradicts them.

Seen with `GoalRounds` by hand, under bounds the listed runs do not have:

- With `Overlaps = TRUE`, a goal that is armed while maintenance runs (compaction, a
  schedule) breaks `OneRoundAtATime`, `HumanFirst`, `CancelledStops` and `NoGoalStranded`: `readyToDrive` takes the public status idle for quiescence,
  so a round is queued behind the maintenance; the next pass of the loop takes the
  attempt for settled and reserves again. Two rounds wait at once, a round
  cancelled there is scheduled again or leaves its armed goal waiting for nobody (the end
  of maintenance is no idle edge), one may enter after the teardown, and a
  prompt cancelled there leaves `competingQueued` set.
- A turn that ends blocked or in error leaves later prompts pending and resets
  `competingQueued`: a round is then reserved behind a human prompt that waits. If the agent is
  idle when the plugin unloads, such a round stays in the inbox and may be admitted, unfenced, later.
  `RoundsSound` therefore speaks of the time the plugin is there.
- `requestDrive` sets `state.run` only when `drive` first returns to it. When that first pass blocks
  the goal at its cap, `goal/changed` starts a run inside, whose promise the outer one
  overwrites and then clears: a trigger during that flush starts a second, concurrent run. The
  model keeps one.

## 4. Proofs

Eight modules hold theorems. Each is proved for every value of the constants,
from one named assumption per model that only says what a constant is: bounds are
numbers (a pool, a registry and a limit of at least one), the retirement is one of the
callers of flush, an attempt is neither "nobody" nor one of the words the ownership model
uses beside attempts, and what people send is not a round (in the code, its source is of another
kind). No theorem assumes fairness; all are about safety. Four theorems of `GoalRoundsProofs` have a hypothesis of their own, `Apart`; it is explained below.

| module | theorems | so, for any number of |
|---|---|---|
| `AgentDriverProofs` | `TypeCorrect`, `LogCorrect` (`LogAccepted`), `LogMirrored`, `BalanceCorrect`, `AbortStopsSteps`, `AbortsAreReported`, `AbortFinal` (`AbortIsFinal`), `LatchCorrect` (`LatchIsNeeded`) | messages, tool steps |
| `AgentDriverInboxProofs` | `OneHomeCorrect` (`OneHome`), `DeliveryCorrect` (`ImplementsDelivery`), `PromptsCorrect` (`PromptsInOrder`), `WakeCorrect` (`WakeIsRemembered`) | messages, tool steps |
| `ToolCallsProofs` | `TypeCorrect`, `LogCorrect` (`LogAccepted`), `EveryCallCorrect` (`EveryCallAnswered`), `BarrierCorrect` (`Barrier`), `StopsCorrect` (`StopsOrderly`) | calls, pool size |
| `SessionRecoveryProofs` | `TypeCorrect`, `LogCorrect` (`LogAccepted`), `RepairCorrect` (`RepairConverges`), `TranscriptCorrect` (`TranscriptTrue`) | turns, steps, calls, crashes |
| `JobsProofs` | `TypeCorrect`, `ToldOnce` (`CompletionToldOnce`), `TeardownCorrect` (`TeardownComplete`), `WorkBounded` (`LiveWorkBounded`) | jobs, owners, waits, limit |
| `WriteBehindProofs` | `TypeCorrect`, `NobodyStranded` (`NoEventStranded`), `PromiseKept` (`FlushKeepsPromise`), `StoreCorrect` (`ImplementsPrefixStore`) | events, callers of flush |
| `SessionOwnershipProofs` | `TypeCorrect`, `HolderCorrect` (`HolderContinuesLog`), `RetiredCorrect` (`RetiredIsStored`), `RepairsCorrect` (`RepairsOnlyTheDead`) | resumes, loads, creations, events |
| `GoalRoundsProofs` | `TypeCorrect`, `Unstranded` (`NoGoalStranded`), `ReservedDurable` (`DurableFirst`), `RoundsCorrect` (`RoundsSound`), `PeopleFirst` (`HumanWorkWins`) | messages, rounds, changes of the goal |

The argument is the same in each: the property is not inductive, so it is
strengthened; TLC checks the strengthened invariant first; then a lemma per
conjunct has one step per action. What each strengthening says, and why it is needed:

- **The driver's log.** That a `turn/end` is accepted depends on the turn that is
  open in the log being the one the driver holds. `LogInv` adds
  `LogMirrorsDriver`: for each value of `pc`, what the log has open and which number it
  expects next. An action that appends does so with exactly these values; one
  that does not leaves both sides alone.
- **The latch.** A wake travels: `send` classifies it before the observers of the insertion
  run and latches it after them, and a retiring driver carries the latch it read over the
  notification of its idle phase. `LatchInv` says what the carried decision is still worth
  when it lands: a send classified as waking after an abort finds the same aborted
  activity, behind maintenance or an abort its message is recorded as late, and
  a pending replay has late input to its name as long as no driver runs.
- **The inbox.** The lists and the claimed batch hold each unsettled message once. The
  refinement maps a message to a stage (`Stage`): in a list, claimed, or settled as
  `fate` says; each action makes only stage changes `MessageDelivery` allows, or none.
  Splices, which observers may aim anywhere, only reach messages that are in a list.
- **The scheduler.** `IInv` gives each call its status from the counters (`Counting`, `Statuses`),
  keeps every running body in the pool (`Pool`) and under the mode of its group (`Kinds`),
  says where an abort or a failure has been noticed (`Samples`), and which calls the log
  still expects a result of (`Logged`), which is what makes the next result acceptable.
- **Crash repair.** Two scans read the same log: the companion's replay and the repair's
  (`interruptedTurnClosers`). `Coherent` says that they agree (`Agree`): the same turn and step
  are open, the pending calls are distinct calls of that step and those marked started are the
  ones the companion has recorded (`PendingFits`); that events come in the order of their steps
  (`InOrder`); and that what is pending has no result, a result that says "never started" has
  no `tool/call`, and every requested call has its result or is pending, unless a scheduler
  failure abandoned its step (`PendingTrue`, `ResultsTrue`, `AllAnswered`). A crash may cut the
  log after any event, so `IInv` asks this of *every prefix* of the log and of the store; a
  repaired store is again such a log. Appending one event keeps it, event type by event type;
  appending the closers one at a time lowers what is left to close by one (`CloseOne`,
  `CloseMany`), which gives convergence. Both scans are recursive functions over a log; that
  each value is determined by the one before is proved by minimality of a counterexample
  (`WFMin`), which needs no operator parameter.
- **Jobs.** A record leaves the store only when it is terminal (`Records`), a wait is released by a
  settlement only (`Asked`), a job that is not terminal is reported only if a kill or a
  teardown answers for it (`Claims`), and an owner with a record has its cleanup attached
  until a teardown took the record (`Entries`). The limit is on live records (`Bounded`); that
  it bounds the *work* follows from `Records`.
- **Write-behind.** The batch and the queue are the end of the log (`Placed`); what is in
  neither is stored, or is in the seed that the initialization will store (`Stored`), and the cursor may
  be ahead of the batch, which is why the filter is needed. `Writers` says who may write
  meanwhile, `Told` what a caller or the retirement may rely on. The refinement of `PrefixStore` follows from
  `Stored`.
- **Ownership.** `HolderContinuesLog` depends on nobody else appending between a read
  and its use. `IInv` says who can: an attempt has one operation on the id's promise chain, of the kind
  its place calls for (`OneOp`, `OpFits`); behind every session that waits to be bound
  comes the published one (`BoundLast`), and none is bound once a source was read (`NoneUnbound`); a
  committed source is the stored log and nobody owns the id (`Sources`); a bound session with
  anything left to write owns it (`Owned`), and what it needs not write is stored (`Saved`).
  The proof reads every action once, as what it changes attempt by attempt and position
  by position (`EnterIs`, ... gathered in `Does`), and works from these.

- **Goal rounds.** A handler is an operator from worlds to worlds, and an action applies one; so
  there is a lemma per handler, of what it does to any world in order. `Sound` says what is in
  order: `Fit` (the attempt is not ahead of the goal, the log folds while the driver is
  there), `Quiet` (an idle agent has nothing claimed, and no queued round that could still
  enter), `QueueFit` and `BatchFit` (the rounds that wait and the one claimed are for different
  revisions; the one for the attempt's or the armed goal's revision is the attempt's; what the second
  check accepted is what the fold expects next). `Serving` says that the armed goal of an idle agent
  has a run at a checkpoint, or looping with a request; `Settled`, that a change during a
  checkpoint has another pass coming; `Durable`, that an armed goal which wants no checkpoint has
  only events that a checkpoint covers or will. A reservation is made only in such a world
  (`Opened`), and no handler leaves one without a checkpoint (`Saved`). `Apart` says that
  `OuterListeners` and `Overlaps` are false, as in the run: with either the code does not keep
  the properties (see "Disagreements"), so the theorems say where exactly it does.
- **People and rounds.** `HumanWorkWins` speaks of messages that no list of the three holds by
  itself. `Accounts` says where each one is: waiting, claimed or ended, not both ended and waiting,
  and at rest in a batch only if it is back in the inbox or ended. `Rows` says that a prompt waits
  once, and that one behind a queued round has made the round stale. A claim takes from the
  front, so `Rows` becomes, for the claimed batch, what `Fenced` says: a round past the first check
  left nobody behind who still waits. `Called` says that a goal whose round was cancelled is driven
  only while the aborted turn has not ended; that is why dropping the attempt of a turn that is
  not aborted gives nothing away. There is a lemma per action of what it makes of
  these (`...Welcomes`), resting on one per handler (`...Takes` for claims, `...Minds` for passes
  of the driver, `...Rules` for the fence, `...Ends` for the end of a turn).

The proofs changed the models in five places. `SessionOwnership!Reserve` left `entry`
unconstrained in a branch (which no state reaches); `RepairsOnlyTheDead` named sessions that
logged nothing, which may lose the id while they retire when two creations follow each
other (TLC shows it with two creators; such a session has no turn); and
the filter of `WriteBehind!Fresh`, which was a `SelectSeq`, is now a selection by position, of which the prover can
reason. `GoalRounds` had `CASE` expressions with overlapping guards, which TLA+ gives no value; they
are conditionals in the code's order now, and `Restore` folds over the batch. `SessionRecovery`
names its assumption on the bounds, and its `Deleted` removes by position.
`GoalRoundsAssumption` says that nobody sends a round, without which `HumanWorkWins` makes no sense.

Only model-checked:

- liveness (`CancelSettles`, `Settles` twice, `EventuallyStored`, `EveryoneAnswered`): fairness
  and ENABLED are out of the prover's reach;
- `SessionRecovery!Resumes`, for the same reason.

## 5. What is not modelled

- Surface rewrites (compaction, replaced tool results), forks and the surface
  fold of a session; `assistant/chunk` events, which the companion treats
  as `assistant/message`.
- Sequence numbers in `SessionTrace`: an append takes the log's length, so they
  are the position.
- The reconstruction of an inbox from persisted splices.
- The observers that run inside `cancel`'s `clear`, between the splice and the
  reset of the latch; a synchronous throw of `withInitiator`.
- A backend whose rollback fails as well.
- Of the ownership of an id: several ids and the LRU bound, `inspect` and
  `readFrom`, the public `create` and `append` of the service, adoption by a reloaded coordinator,
  resumes that differ in their working directory, torn-tail markers. Two consequences of
  the code the model shows but no property judges: a load of an id
  nobody stored yet vetoes its creation, and a failed retirement keeps the owner bound, so that
  the id cannot be resumed before a restart.
- Of jobs: the change observers, `list` and `get`, the session fence of the tools, a reload of
  `tool-jobs`, the choice between waking and injecting a notice, a kill whose cancel throws.
- Of goal rounds: `agent/session-start`, disposal and replacement of the agent, a `followup`
  that throws, a driver loaded over live agents, the overlapping runs above.
- The components listed as not modelled in `PROJECT.json`, each with its reason.

## 6. Plan

In order of importance; each module with its abstract specification, its run and
what is worth proving.

1. *Done*: `SessionTrace`, `AgentDriver` (implements `MessageDelivery`),
   `ToolCalls`, `SessionRecovery`, `WriteBehind` (implements `PrefixStore`);
   theorems on the types, the log, the aborts and the wake latch of the driver.
2. *Done*: `SessionOwnership` (with creation, resume, publication and disposal of one id),
   `Jobs`, `GoalRounds`.
3. *Done*: proofs of the safety of `AgentDriver`, `ToolCalls`, `SessionRecovery`, `Jobs`, `WriteBehind`,
   `SessionOwnership` and `GoalRounds`, with both refinements: every safety property of their runs.
4. `AgentRegistry`: teardown of the registry, owner fibers and child agents, over the
   abstract driver; subagent continuation.
5. `Approvals` and the retry fold, as refinements of the driver's `tools`
   and `model` windows; a finer `Cancel` with its discarded observers.
6. `StorageDomain`: single open per name, drain on close.

## 7. Running

    tlc -config AgentDriver_safety.cfg MCAgentDriver
    tlapm AgentDriverProofs.tla       # and the other modules named *Proofs

`PROJECT.json` maps every definition to the lines it models.
