------------------------------ MODULE GoalRounds ------------------------------
(***************************************************************************)
(* Automatic goal rounds: the driver                                       *)
(* packages/goal/goal-round-driver/src/index.ts between the goals of       *)
(* packages/goal/goal/src (index.ts, fold.ts) and one agent                *)
(* (packages/core/agent-loop/src/agent.ts).                                *)
(*                                                                         *)
(* While the agent is idle and its goal is active and armed, the driver    *)
(* reserves the next round, one prompt in the agent's inbox. A listener of *)
(* agent/pre-step lets the prompt enter only if it still is the next round *)
(* of the goal's present revision. People, the model's tools and other     *)
(* plugins meanwhile send messages, change the goal, cancel and start      *)
(* maintenance.                                                            *)
(*                                                                         *)
(* The world is three records: the goal of the session, the driver's       *)
(* DriverState and the agent as the driver sees it. A handler runs from    *)
(* one await to the next, listeners included, and is an operator from      *)
(* worlds to worlds. A goal's id and revision are one number, `ref`: each  *)
(* mutation makes a new one. Each turn of the agent begins with a claimed  *)
(* batch, and the steps of a turn matter only for what they claim.         *)
(***************************************************************************)
EXTENDS Naturals, Sequences, SequencesExt, FiniteSetsExt

CONSTANTS Humans,        \* messages people and plugins send
          MaxRounds,     \* bound on maxGoalRounds
          MaxChanges,    \* bound on the goal's changes by people and tools
          OuterListeners, \* whether pre-step listeners run around the driver's
          Overlaps       \* whether maintenance may coincide with an armed goal

ASSUME GoalRoundsAssumption ==
  /\ MaxRounds \in Nat \ {0} /\ MaxChanges \in Nat
  /\ OuterListeners \in BOOLEAN /\ Overlaps \in BOOLEAN
  /\ \A h \in Humans : h \notin [id : Nat, ref : Nat, round : Nat]  \* nobody sends a round

VARIABLES
  goal,    \* GoalFoldState and activation; `broken`: the log no longer folds
  driver,  \* DriverState, and where its run and the plugin's life stand
  agent,   \* inbox, claimed batch, place, abort signal, wake latch; `passed`: the
           \* prompts that still waited when the batch was claimed
  changes, \* changes of the goal by people and tools
  sent,    \* messages sent
  ended,   \* messages that entered a step or that others gave up
  unsaved  \* the goal's events: covered by a checkpoint ("no"), by one that is
           \* under way ("inflight"), or by none ("since")

vars == <<goal, driver, agent, changes, sent, ended, unsaved>>

World == [goal |-> goal, driver |-> driver, agent |-> agent]

-----------------------------------------------------------------------------
(* Messages                                                                *)

IsRound(m) == m \notin Humans

NoAttempt == [phase |-> "none", id |-> 0, ref |-> 0, round |-> 0,
              cancelled |-> FALSE, stale |-> FALSE]

\* sameQueued: same goal, revision and round, hence the same text; not the same
\* message.
Matches(m, t) == IsRound(m) /\ t.phase # "none" /\ m.ref = t.ref /\ m.round = t.round

Inbox(a)      == ToSet(a.nextStep) \cup ToSet(a.nextTurn)
HasPending(a) == Inbox(a) # {}
Rounds(a)     == {m \in Inbox(a) \cup ToSet(a.batch) : IsRound(m)}

\* A message id no round in sight bears.
FreshId(w) ==
  LET used == {m.id : m \in Rounds(w.agent)} \cup {w.driver.attempt.id}
  IN  CHOOSE i \in 1..Cardinality(used) + 1 : i \notin used

Idle(w)    == w.agent.pc \in {"idle", "maintenance"}
Driving(g) == g.phase = "active" /\ g.armed
Gone(w)    == w.driver.life = "gone"

Init ==
  /\ goal = [phase |-> "none", ref |-> 0, rounds |-> 0, max |-> 1, armed |-> FALSE,
             broken |-> FALSE]
  /\ driver = [attempt |-> NoAttempt, competing |-> FALSE, needs |-> FALSE,
               requested |-> FALSE, run |-> "none", life |-> "active"]
  /\ agent = [pc |-> "idle", nextStep |-> <<>>, nextTurn |-> <<>>, batch |-> <<>>,
              aborted |-> FALSE, latch |-> FALSE, passed |-> {}]
  /\ changes = 0 /\ sent = {} /\ ended = {} /\ unsaved = "no"

-----------------------------------------------------------------------------
(* The agent                                                               *)

\* claim: everything for the next step, and n prompts of the next turn.
Claim(w, n) ==
  LET a == w.agent
      count == IF n <= Len(a.nextTurn) THEN n ELSE Len(a.nextTurn)
      batch == a.nextStep \o SubSeq(a.nextTurn, 1, count)
      ours  == \E m \in ToSet(batch) : Matches(m, w.driver.attempt)
  IN  [w EXCEPT !.agent.pc = "claimed", !.agent.batch = batch, !.agent.nextStep = <<>>,
                !.agent.nextTurn = SubSeq(@, count + 1, Len(@)),
                !.agent.passed = ToSet(SubSeq(a.nextTurn, count + 1, Len(a.nextTurn))),
                !.driver.attempt.phase = IF ours THEN "claimed" ELSE @]

StartTurn(w) == Claim([w EXCEPT !.agent.aborted = FALSE, !.agent.latch = FALSE], 1)

\* wakeDriver: starts a driver, latches behind maintenance, trusts a live one.
Wake(w) ==
  CASE w.agent.pc = "idle"        -> StartTurn(w)
    [] w.agent.pc = "maintenance" -> [w EXCEPT !.agent.latch = TRUE]
    [] OTHER                      -> w

\* Faulty: a prompt behind a queued round does not make it stale.
CompeteSilently(w) == [w EXCEPT !.driver.competing = TRUE]

\* agent/inbox/inserted for somebody else's prompt.
Compete(w) ==
  [w EXCEPT !.driver.competing = TRUE,
            !.driver.attempt.stale = @ \/ w.driver.attempt.phase = "queued"]

-----------------------------------------------------------------------------
(* The goal service                                                        *)

Disarm(w) == IF Gone(w) THEN w ELSE [w EXCEPT !.goal.armed = FALSE]

\* commit, and goal/changed up to requestDrive.
Mutate(w, g) == [w EXCEPT !.goal = [g EXCEPT !.ref = w.goal.ref + 1], !.driver.needs = TRUE]

\* Faulty: a goal that stops keeps its automatic authority.
StoppedArmed(w, phase) == Mutate(w, [w.goal EXCEPT !.phase = phase])

Stopped(w, phase) == Mutate(w, [w.goal EXCEPT !.phase = phase, !.armed = FALSE])

-----------------------------------------------------------------------------
(* The driver's run: drive from one await to the next                      *)

\* drive has returned; the loop of requestDrive goes on in a microtask.
Returned(w) == [w EXCEPT !.driver.run = "looping"]
Again(w)    == [w EXCEPT !.driver.requested = TRUE]

\* drive awaits its checkpoint.
Flushing(w) == [w EXCEPT !.driver.needs = FALSE, !.driver.run = "flushing"]

ReadyToDrive(w) == w.driver.life = "active" /\ Idle(w) /\ ~w.driver.competing

\* Reserve the next round and queue its prompt.
Reserve(w) ==
  LET m == [id |-> FreshId(w), ref |-> w.goal.ref, round |-> w.goal.rounds + 1]
  IN  Wake([w EXCEPT !.driver.attempt = [phase |-> "queued", id |-> m.id, ref |-> m.ref,
                        round |-> m.round, cancelled |-> FALSE, stale |-> FALSE],
                     !.agent.nextTurn = Append(@, m)])

Drivable(w) == Driving(w.goal) /\ w.driver.attempt.phase = "none"

\* The goal stops at its cap. Its change requests a drive: the run in hand goes
\* on, or the first pass of a run, which has no promise yet, starts one inside.
AtCap(w) ==
  LET v == Stopped(w, "blocked")
  IN  IF v.driver.run = "none" THEN Flushing(v) ELSE Again(Returned(v))

\* drive behind its checkpoint: settle the last attempt, stop at the cap, or
\* reserve. (currentGoal throws in a broken log; the loop only disarms then.)
Advance(w) ==
  IF w.driver.attempt.phase # "none"
    THEN Again(Returned([w EXCEPT !.driver.attempt = NoAttempt, !.driver.needs = TRUE]))
  ELSE IF w.goal.broken \/ ~Drivable(w) THEN Returned(w)
  ELSE IF w.goal.rounds >= w.goal.max THEN AtCap(w)
  ELSE Returned(Reserve(w))

Drive(w) ==
  IF ~ReadyToDrive(w) THEN Returned(w)
  ELSE IF w.driver.needs THEN Flushing(w) ELSE Advance(w)

\* Faulty: a request during a run is taken for served by it.
RequestDriveOnce(w) ==
  IF w.driver.life # "active" \/ w.driver.run # "none" THEN w ELSE Drive(w)

\* requestDrive: coalesced onto a run that is under way.
RequestDrive(w) ==
  IF w.driver.life # "active" THEN w
  ELSE IF w.driver.run # "none" THEN Again(w) ELSE Drive(w)

Change(w, g) == RequestDrive(Mutate(w, g))

-----------------------------------------------------------------------------
(* The end of a turn                                                       *)

\* agent/status idle: what an attempt left behind is taken for cancelled.
Unfinished(t) == t.phase \in {"queued", "claimed"} \/ t.cancelled

AtIdle(w) ==
  LET u == [w EXCEPT !.driver.competing = FALSE]
      v == RequestDrive([Stopped(u, "paused") EXCEPT !.driver.attempt = NoAttempt])
  IN  IF Gone(w) \/ w.goal.broken THEN u
      ELSE IF Driving(u.goal) /\ Unfinished(u.driver.attempt) THEN RequestDrive(v)
      ELSE RequestDrive(u)

\* Idle, its listeners, then the replay of a latched wake.
Retire(w) ==
  LET v == AtIdle([w EXCEPT !.agent.pc = "idle", !.agent.batch = <<>>, !.agent.aborted = FALSE,
                            !.agent.latch = FALSE])
  IN  IF w.agent.latch /\ HasPending(v.agent) THEN Wake(v) ELSE v

\* turn/end and agent/error as the driver hears them.
Heard(w, reason) ==
  CASE reason \in {"max-tokens", "error"} -> Disarm(w)
    [] reason = "aborted" ->
         IF w.driver.attempt.phase \in {"claimed", "admitted"}
           THEN [w EXCEPT !.driver.attempt.cancelled = TRUE] ELSE Disarm(w)
    [] OTHER -> w

\* A turn that ended well takes the next prompt; every other end retires.
EndTurn(w, reason) ==
  LET v == Heard(w, reason)
  IN  IF reason \in {"completed", "max-tokens"} /\ HasPending(v.agent)
        THEN StartTurn([v EXCEPT !.agent.batch = <<>>]) ELSE Retire(v)

-----------------------------------------------------------------------------
(* The pre-step fence                                                      *)

Submitted(w) == CHOOSE m \in ToSet(w.agent.batch) : IsRound(m)

ValidReservation(w) ==
  LET m == Submitted(w) t == w.driver.attempt IN
  /\ w.driver.life = "active" /\ ~w.goal.broken
  /\ t.phase = "claimed" /\ ~t.stale /\ Matches(m, t)
  /\ Driving(w.goal) /\ m.ref = w.goal.ref /\ m.round = w.goal.rounds + 1

\* restoreOtherClaimed: what was claimed along with the round goes back.
WithOther(seq, a, m) == IF IsRound(m) \/ m \in Inbox(a) THEN seq ELSE Append(seq, m)
Restore(w) ==
  LET a == w.agent
      others[i \in 0..Len(a.batch)] ==
        IF i = 0 THEN <<>> ELSE WithOther(others[i - 1], a, a.batch[i])
  IN  [w EXCEPT !.agent.nextStep = others[Len(a.batch)] \o @]

Rejected(w) == [w EXCEPT !.agent.pc = "rejected"]
Dropped(w)  == [w EXCEPT !.driver.attempt = NoAttempt]

\* The driver's first check.
Fence(w) ==
  LET mine == Matches(Submitted(w), w.driver.attempt)
  IN  IF ValidReservation(w) THEN [w EXCEPT !.agent.pc = "inner"]
      ELSE Rejected(RequestDrive(Restore(IF mine THEN Dropped(w) ELSE w)))

\* Faulty: what the first check found still holds after the listeners inside.
RecheckTrusting(w) ==
  IF w.agent.aborted THEN [Restore(w) EXCEPT !.agent.pc = "decided"]
  ELSE [w EXCEPT !.agent.pc = "decided"]

\* The listeners inside let the batch enter: the second check.
Recheck(w) ==
  IF w.agent.aborted THEN [Restore(w) EXCEPT !.agent.pc = "decided"]
  ELSE IF ValidReservation(w) THEN [w EXCEPT !.agent.pc = "decided"]
  ELSE Rejected(RequestDrive(Restore(Dropped(w))))

\* They reject it: the goal is blocked if it still is the one reserved for.
Veto(w) ==
  LET same == Driving(w.goal) /\ w.goal.ref = Submitted(w).ref
  IN  IF w.agent.aborted THEN Rejected(w)
      ELSE IF same THEN Rejected(RequestDrive(Stopped(Dropped(w), "blocked")))
      ELSE Rejected(Dropped(w))

\* They throw.
Thrown(w) ==
  IF w.agent.aborted THEN EndTurn(w, "aborted") ELSE EndTurn(RequestDrive(Dropped(w)), "error")

-----------------------------------------------------------------------------
(* Steps                                                                   *)

\* user/message events of a step: the fold accepts the next round of the active
\* goal and nothing else.
Accepts(g, m) ==
  g.phase = "active" /\ m.ref = g.ref /\ m.round = g.rounds + 1 /\ m.round <= g.max

Entered(w) ==
  LET rounds == {m \in ToSet(w.agent.batch) : IsRound(m)}
      fits   == \A m \in rounds : Accepts(w.goal, m)
      ours   == \E m \in rounds : m.id = w.driver.attempt.id
  IN  [w EXCEPT !.agent.pc = "stepping", !.agent.batch = <<>>,
                !.goal.rounds = IF rounds # {} /\ fits THEN @ + 1 ELSE @,
                !.goal.broken = @ \/ ~fits,
                !.driver.attempt.phase = IF ours THEN "admitted" ELSE @]

-----------------------------------------------------------------------------
(* Actions                                                                 *)

\* The world after a handler: what a checkpoint covers follows from it, and a
\* driver that is gone remembers nothing.
Becomes(w) ==
  LET event  == w.goal # goal /\ w.goal # [goal EXCEPT !.armed = w.goal.armed]
      begins == w.driver.run = "flushing" /\ driver.run # "flushing"
      left   == IF driver.run = "flushing" /\ w.driver.run # "flushing" /\ unsaved = "inflight"
                  THEN "no" ELSE unsaved
  IN  /\ goal' = w.goal /\ agent' = w.agent
      /\ driver' = IF Gone(w) THEN [driver EXCEPT !.attempt = NoAttempt, !.competing = FALSE,
                        !.needs = FALSE, !.requested = FALSE, !.run = "none", !.life = "gone"]
                   ELSE w.driver
      /\ unsaved' = CASE begins -> "inflight" [] ~begins /\ event -> "since" [] OTHER -> left

\* Outside code runs at every await; between the driver's verdict and the step
\* there is one only if other listeners run around the driver's.
Outside == OuterListeners \/ agent.pc \notin {"decided", "rejected"}

\* send by people and plugins. Waking input behind an aborted activity becomes
\* the next turn.
Send(h, target, wakeup) ==
  LET afterAbort == wakeup /\ agent.pc # "idle" /\ agent.aborted
      w == IF target = "next-turn" \/ afterAbort
             THEN Compete([World EXCEPT !.agent.nextTurn = Append(@, h)])
             ELSE [World EXCEPT !.agent.nextStep = Append(@, h)]
  IN  /\ Outside /\ h \notin sent /\ sent' = sent \cup {h}
      /\ Becomes(CASE ~wakeup    -> w
                   [] afterAbort -> [w EXCEPT !.agent.latch = TRUE]
                   [] OTHER      -> Wake(w))
      /\ UNCHANGED <<changes, ended>>

\* cancel: the inbox is cleared, a discarded round is taken for cancelled, and
\* the activity is aborted.
Cancelled(w) ==
  LET ours == \E m \in Inbox(w.agent) : Matches(m, w.driver.attempt)
  IN  [w EXCEPT !.agent.nextStep = <<>>, !.agent.nextTurn = <<>>, !.agent.latch = FALSE,
                !.agent.aborted = w.agent.pc # "idle",
                !.driver.attempt.cancelled = @ \/ ours]

Cancel ==
  /\ Outside
  /\ HasPending(agent) \/ agent.latch \/ (agent.pc # "idle" /\ ~agent.aborted)
  /\ Becomes(Cancelled(World))
  /\ ended' = ended \cup (Inbox(agent) \cap Humans)
  /\ UNCHANGED <<changes, sent>>

Maintain ==
  /\ agent.pc = "idle" /\ (Overlaps \/ ~Driving(goal))
  /\ Becomes([World EXCEPT !.agent.pc = "maintenance", !.agent.aborted = FALSE,
                           !.agent.latch = FALSE])
  /\ UNCHANGED <<changes, sent, ended>>

\* Maintenance counts as idle, so its end is no status edge.
MaintenanceEnds ==
  LET w == [World EXCEPT !.agent.pc = "idle", !.agent.aborted = FALSE, !.agent.latch = FALSE]
  IN  /\ agent.pc = "maintenance"
      /\ Becomes(IF agent.latch /\ HasPending(agent) THEN Wake(w) ELSE w)
      /\ UNCHANGED <<changes, sent, ended>>

\* What create, edit, pause, block, complete, resume and clear make of a goal.
Mutations(g) ==
  LET live == {"active", "paused", "blocked"}
      stop(phase) == [g EXCEPT !.phase = phase, !.armed = FALSE]
      created(n)  == [g EXCEPT !.phase = "active", !.rounds = 0, !.max = n, !.armed = TRUE]
  IN  UNION {
        IF g.phase \in {"none", "complete"} THEN {created(n) : n \in 1..MaxRounds} ELSE {},
        IF g.phase # "none" THEN {[g EXCEPT !.max = n] : n \in 1..MaxRounds} ELSE {},
        IF g.phase = "active" THEN {stop("paused"), stop("blocked")} ELSE {},
        IF g.phase \in live THEN {stop("complete")} ELSE {},
        IF g.phase \in live /\ ~Driving(g) /\ g.rounds < g.max
          THEN {[g EXCEPT !.phase = "active", !.armed = TRUE]} ELSE {},
        IF g.phase # "none" THEN {[stop("none") EXCEPT !.rounds = 0]} ELSE {}}

Mutation ==
  /\ Outside /\ ~goal.broken
  /\ changes < MaxChanges /\ changes' = changes + 1
  /\ \E g \in Mutations(goal) :
       /\ Overlaps \/ agent.pc # "maintenance" \/ ~Driving(g)
       /\ Becomes(Change(World, g))
  /\ UNCHANGED <<sent, ended>>

\* Faulty: a change during the checkpoint is taken for covered by it.
FlushedUnchecked ==
  /\ driver.run = "flushing"
  /\ Becomes(IF ReadyToDrive(World) THEN Advance(World) ELSE Returned(World))
  /\ UNCHANGED <<changes, sent, ended>>

\* The checkpoint's answer.
Flushed ==
  /\ driver.run = "flushing"
  /\ Becomes(IF ReadyToDrive(World) /\ ~driver.needs THEN Advance(World) ELSE Returned(World))
  /\ UNCHANGED <<changes, sent, ended>>

FlushFails ==
  /\ driver.run = "flushing"
  /\ goal' = Disarm(World).goal /\ driver' = Returned(World).driver
  /\ unsaved' = IF unsaved = "inflight" THEN "since" ELSE unsaved
  /\ UNCHANGED <<agent, changes, sent, ended>>

\* The loop goes on while a drive is requested, else the run retires.
Loop ==
  /\ driver.run = "looping"
  /\ Becomes(IF driver.requested /\ driver.life = "active"
               THEN Drive([World EXCEPT !.driver.requested = FALSE])
               ELSE [World EXCEPT !.driver.run = "none"])
  /\ UNCHANGED <<changes, sent, ended>>

\* Others end what was claimed and is not back in the inbox.
GivesUp == ended' = ended \cup ((ToSet(agent.batch) \cap Humans) \ Inbox(agent))

Kept == UNCHANGED <<changes, sent>>

Aborts ==
  /\ agent.pc \in {"claimed", "decided", "rejected", "stepping"} /\ agent.aborted
  /\ Becomes(EndTurn(World, "aborted")) /\ GivesUp /\ Kept

HasRound == \E m \in ToSet(agent.batch) : IsRound(m)

PreStep ==
  /\ agent.pc = "claimed" /\ (agent.aborted => OuterListeners)
  /\ Becomes(IF HasRound /\ ~Gone(World) THEN Fence(World)
             ELSE [World EXCEPT !.agent.pc = "passing"])
  /\ Kept /\ UNCHANGED ended

\* The listeners inside the driver's: enter, reject, throw.
Accepted ==
  /\ agent.pc \in {"inner", "passing"}
  /\ Becomes(IF agent.pc = "inner" THEN Recheck(World) ELSE [World EXCEPT !.agent.pc = "decided"])
  /\ Kept /\ UNCHANGED ended

Refused ==
  /\ agent.pc \in {"inner", "passing"}
  /\ Becomes(IF agent.pc = "inner" THEN Veto(World) ELSE Rejected(World))
  /\ GivesUp /\ Kept

Throws ==
  /\ agent.pc \in {"inner", "passing"}
  /\ Becomes(IF agent.pc = "inner" THEN Thrown(World)
             ELSE EndTurn(World, IF agent.aborted THEN "aborted" ELSE "error"))
  /\ GivesUp /\ Kept

Blocked ==
  /\ agent.pc = "rejected" /\ ~agent.aborted
  /\ Becomes(EndTurn(World, "blocked")) /\ Kept /\ UNCHANGED ended

Enter ==
  /\ agent.pc = "decided" /\ ~agent.aborted
  /\ Becomes(Entered(World)) /\ GivesUp /\ Kept

\* A step ends: the next one takes what was steered, or the turn ends.
StepEnds(reason) ==
  /\ agent.pc = "stepping" /\ ~agent.aborted
  /\ Becomes(IF reason # "error" /\ agent.nextStep # <<>> THEN Claim(World, 0)
             ELSE EndTurn(World, reason))
  /\ Kept /\ UNCHANGED ended

\* Plugin teardown: no further drive, no authority; a running agent with an
\* attempt is cancelled and awaited.
Unload ==
  LET busy == driver.attempt.phase # "none" /\ ~Idle(World)
      w == Disarm([World EXCEPT !.driver.life = IF busy THEN "draining" ELSE "stopping",
                                !.driver.attempt.stale = driver.attempt.phase # "none"])
  IN  /\ Outside /\ driver.life = "active"
      /\ Becomes(IF busy THEN Cancelled(w) ELSE w)
      /\ ended' = IF busy THEN ended \cup (Inbox(agent) \cap Humans) ELSE ended
      /\ Kept

\* The run and what is awaited are over: the listeners go.
Unloaded ==
  /\ driver.run = "none"
  /\ driver.life = "stopping" \/ (driver.life = "draining" /\ agent.pc = "idle")
  /\ Becomes([World EXCEPT !.driver.life = "gone"])
  /\ Kept /\ UNCHANGED ended

Next ==
  \/ \E h \in Humans : Send(h, "next-turn", TRUE) \/ Send(h, "next-step", TRUE)
                        \/ Send(h, "next-step", FALSE)
  \/ Cancel \/ Maintain \/ MaintenanceEnds \/ Mutation \/ Unload \/ Unloaded
  \/ Flushed \/ FlushFails \/ Loop
  \/ PreStep \/ Accepted \/ Refused \/ Throws \/ Blocked \/ Enter \/ Aborts
  \/ \E reason \in {"completed", "max-tokens", "error"} : StepEnds(reason)

Spec == Init /\ [][Next]_vars

-----------------------------------------------------------------------------
(* Properties                                                              *)

Attempts == [phase : {"none", "queued", "claimed", "admitted"}, id : Nat, ref : Nat,
             round : 0..MaxRounds, cancelled : BOOLEAN, stale : BOOLEAN]

IsMessage(m) == m \in Humans \/ m \in [id : Nat, ref : Nat, round : 1..MaxRounds]

\* The records keep their shapes; only an active goal is armed, as goal/src
\* promises of every transition, and a reservation that is gone leaves nothing.
TypeOK ==
  /\ goal.phase \in {"none", "active", "paused", "blocked", "complete"}
  /\ goal.ref \in Nat /\ goal.rounds \in 0..MaxRounds /\ goal.max \in 1..MaxRounds
  /\ goal.broken \in BOOLEAN /\ goal.armed \in BOOLEAN
  /\ goal.armed => goal.phase = "active"
  /\ driver \in [attempt : Attempts, competing : BOOLEAN, needs : BOOLEAN,
                 requested : BOOLEAN, run : {"none", "flushing", "looping"},
                 life : {"active", "draining", "stopping", "gone"}]
  /\ driver.attempt.phase = "none" => driver.attempt = NoAttempt
  /\ agent.pc \in {"idle", "maintenance", "claimed", "inner", "passing", "decided",
                   "rejected", "stepping"}
  /\ \A m \in Inbox(agent) \cup ToSet(agent.batch) : IsMessage(m)
  /\ {agent.aborted, agent.latch} \subseteq BOOLEAN
  /\ changes \in 0..MaxChanges /\ sent \cup ended \subseteq Humans
  /\ unsaved \in {"no", "inflight", "since"}

Admits == agent.pc = "decided" /\ agent'.pc = "stepping" /\ HasRound

OneRoundAtATime ==
  Gone(World) \/ Cardinality({m \in Rounds(agent) : m.ref = goal.ref}) <= 1

AdmittedRoundCurrent == [][goal'.broken /\ ~goal.broken => Gone(World)]_vars

\* At most one round of the goal's present revision waits or enters at a time
\* (drive, index.ts:137-205), and while the driver is there a round that enters a
\* step is the next one of the active goal, so that the log still folds.
RoundsSound == []OneRoundAtATime /\ AdmittedRoundCurrent

HumanInputKept ==
  /\ \A h \in sent : h \in Inbox(agent) \cup ToSet(agent.batch) \cup ended
  /\ ended \cap Inbox(agent) = {}

HumanFirst ==
  [][Admits /\ ~Gone(World) => agent.passed \cap Humans \cap Inbox(agent) = {}]_vars

CancelledStops ==
  [][driver.attempt.cancelled /\ driver.attempt.ref = goal.ref
       /\ driver'.attempt.phase = "none" => ~Driving(goal') \/ Gone(World)']_vars

\* People come first: what they sent is in the inbox, claimed, entered or given
\* up, also when the driver rejects the batch it was claimed with
\* (restoreOtherClaimed); no round enters past a prompt that waited beside it; and
\* the goal a round of which was cancelled has no authority to go on.
HumanWorkWins == []HumanInputKept /\ HumanFirst /\ CancelledStops

\* A round is reserved only when every earlier event of the goal is durable
\* (index.ts:142-154): a restart never meets a round of a goal it does not know.
DurableFirst ==
  [][driver.attempt.phase = "none" /\ driver'.attempt.phase # "none" => unsaved' = "no"]_vars

\* No request of a drive is lost among checkpoints, turns and changes: while an
\* idle agent's goal is active and armed, a run of the driver is under way to go
\* on with it or stop it (requestDrive, index.ts:207-241). Only a prompt that came
\* during maintenance may withhold it (`competing`), and an open teardown.
NoGoalStranded ==
  Driving(goal) /\ agent.pc = "idle" /\ driver.life = "active" /\ driver.run = "none" =>
    driver.competing
=============================================================================
