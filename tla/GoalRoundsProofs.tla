-------------------------- MODULE GoalRoundsProofs --------------------------
(***************************************************************************)
(* Proofs about GoalRounds: the driver never strands a goal, reserves a    *)
(* round only behind a checkpoint of everything before it, admits only the *)
(* round of the goal's present revision, and lets people come first. A     *)
(* handler is an operator from worlds to worlds, so there is a lemma for   *)
(* each: what it needs of a world, and what holds of the world it makes.   *)
(* The order of the rounds comes first; the second half is about people's  *)
(* messages and cancelled rounds, and rests on it.                         *)
(***************************************************************************)
EXTENDS GoalRounds, SequenceTheorems, FiniteSetTheorems, WellFoundedInduction, TLAPS

-----------------------------------------------------------------------------
(* The shape of a world                                                    *)

Messages == Humans \cup [id : Nat \ {0}, ref : Nat, round : 1..MaxRounds]

Goals == [phase : {"none", "active", "paused", "blocked", "complete"}, ref : Nat,
          rounds : 0..MaxRounds, max : 1..MaxRounds, armed : BOOLEAN, broken : BOOLEAN]
Drivers == [attempt : Attempts, competing : BOOLEAN, needs : BOOLEAN, requested : BOOLEAN,
            run : {"none", "flushing", "looping"},
            life : {"active", "draining", "stopping", "gone"}]
Agents == [pc : {"idle", "maintenance", "claimed", "inner", "passing", "decided",
                 "rejected", "stepping"},
           nextStep : Seq(Humans), nextTurn : Seq(Messages), batch : Seq(Messages),
           aborted : BOOLEAN, latch : BOOLEAN, passed : SUBSET Messages]

Worlds == [goal : Goals, driver : Drivers, agent : Agents]

\* No attempt leaves nothing behind.
AttemptTyped(t) ==
  /\ t \in Attempts
  /\ t.phase = "none" => t.id = 0 /\ t.ref = 0 /\ t.round = 0 /\ ~t.cancelled /\ ~t.stale

GoalTyped(g)   == g \in Goals /\ (g.armed => g.phase = "active")
DriverTyped(d) == d \in Drivers /\ AttemptTyped(d.attempt)
Typed(w) == w \in Worlds /\ GoalTyped(w.goal) /\ DriverTyped(w.driver)

\* The parts of a typed world.
LEMMA Parts ==
  ASSUME NEW w, Typed(w)
  PROVE  /\ w \in Worlds
         /\ w.goal \in Goals /\ GoalTyped(w.goal)
         /\ w.driver \in Drivers /\ DriverTyped(w.driver)
         /\ AttemptTyped(w.driver.attempt) /\ w.driver.attempt \in Attempts
         /\ w.agent \in Agents
  BY DEF Typed, Worlds, DriverTyped, Drivers

\* A world in which one part is replaced.
LEMMA PutGoal ==
  ASSUME NEW w, Typed(w), NEW g, GoalTyped(g)
  PROVE  /\ Typed([w EXCEPT !.goal = g]) /\ [w EXCEPT !.goal = g].goal = g
         /\ [w EXCEPT !.goal = g].driver = w.driver /\ [w EXCEPT !.goal = g].agent = w.agent
  BY Parts DEF Typed, Worlds, GoalTyped

\* Another driver.
LEMMA PutDriver ==
  ASSUME NEW w, Typed(w), NEW d, DriverTyped(d)
  PROVE  /\ Typed([w EXCEPT !.driver = d]) /\ [w EXCEPT !.driver = d].driver = d
         /\ [w EXCEPT !.driver = d].goal = w.goal /\ [w EXCEPT !.driver = d].agent = w.agent
  BY Parts DEF Typed, Worlds, DriverTyped

\* Another agent.
LEMMA PutAgent ==
  ASSUME NEW w, Typed(w), NEW a \in Agents
  PROVE  /\ Typed([w EXCEPT !.agent = a]) /\ [w EXCEPT !.agent = a].agent = a
         /\ [w EXCEPT !.agent = a].goal = w.goal /\ [w EXCEPT !.agent = a].driver = w.driver
  BY Parts DEF Typed, Worlds

-----------------------------------------------------------------------------
(* Worlds that are in order                                                *)

RoundsIn(s) == {m \in ToSet(s) : IsRound(m)}
Bears(t, m) == t.ref = m.ref /\ t.round = m.round /\ t.id = m.id

\* The attempt is not for a later revision than the goal's, nor for a round past
\* the cap; the log folds while the driver is there, and maintenance and an armed
\* goal exclude each other.
Fit(w) ==
  /\ w.driver.attempt.ref <= w.goal.ref
  /\ w.driver.attempt.ref = w.goal.ref => w.driver.attempt.round <= w.goal.max
  /\ w.goal.broken => Gone(w)
  /\ w.agent.pc = "maintenance" => ~Driving(w.goal)

\* A quiet agent has nothing claimed, and no round that could still enter.
Quiet(w) ==
  Idle(w) =>
    /\ w.agent.batch = <<>>
    /\ Driving(w.goal) /\ ~Gone(w) /\ w.driver.attempt.ref = w.goal.ref =>
         w.driver.attempt.phase # "queued"

\* The rounds that wait are for different revisions, and the one for the attempt's
\* or for the armed goal's revision is the attempt's.
QueueFit(w) ==
  LET next == w.agent.nextTurn
      t == w.driver.attempt
  IN  /\ \A i, j \in DOMAIN next :
           IsRound(next[i]) /\ IsRound(next[j]) /\ next[i].ref = next[j].ref => i = j
      /\ \A m \in RoundsIn(next) :
           /\ m.ref <= w.goal.ref
           /\ t.phase # "none" /\ m.ref = t.ref => t.phase = "queued" /\ Bears(t, m)
           /\ m.ref = w.goal.ref /\ Driving(w.goal) /\ ~Gone(w) =>
                t.phase # "none" /\ m.ref = t.ref

\* So is the round in the batch, of which there is one, until the verdict; an
\* accepted one is what the goal expects.
BatchFit(w) ==
  LET a == w.agent
      t == w.driver.attempt
      fenced == a.pc \in {"claimed", "inner", "decided"}
  IN  /\ \A m, n \in RoundsIn(a.batch) : m = n
      /\ \A m \in RoundsIn(a.batch) :
           /\ m.ref <= w.goal.ref
           /\ \A n \in RoundsIn(a.nextTurn) : m.ref # n.ref
           /\ fenced /\ t.phase # "none" /\ m.ref = t.ref => t.phase = "claimed" /\ Bears(t, m)
           /\ fenced /\ m.ref = w.goal.ref /\ Driving(w.goal) /\ ~Gone(w) =>
                t.phase # "none" /\ m.ref = t.ref
           /\ a.pc = "passing" => Gone(w)
           /\ a.pc = "decided" /\ ~a.aborted /\ ~Gone(w) =>
                Accepts(w.goal, m) /\ t.phase # "none" /\ m.ref = t.ref
      /\ a.pc = "inner" /\ ~Gone(w) => t.phase = "claimed" /\ RoundsIn(a.batch) # {}

Sound(w) == Fit(w) /\ Quiet(w) /\ QueueFit(w) /\ BatchFit(w)

\* What none of this can tell apart.
Alike(v, w) ==
  /\ v.goal.phase = w.goal.phase /\ v.goal.ref = w.goal.ref /\ v.goal.rounds = w.goal.rounds
  /\ v.goal.max = w.goal.max /\ v.goal.broken = w.goal.broken /\ (v.goal.armed => w.goal.armed)
  /\ v.driver.attempt.phase = w.driver.attempt.phase /\ v.driver.attempt.id = w.driver.attempt.id
  /\ v.driver.attempt.ref = w.driver.attempt.ref
  /\ v.driver.attempt.round = w.driver.attempt.round /\ (Gone(v) <=> Gone(w))
  /\ v.agent.pc = w.agent.pc /\ v.agent.batch = w.agent.batch
  /\ v.agent.nextTurn = w.agent.nextTurn /\ (w.agent.aborted => v.agent.aborted)

\* So worlds that are alike are in the same order.
LEMMA AlikeSound ==
  ASSUME NEW v, NEW w, Alike(v, w)
  PROVE  /\ Fit(w) => Fit(v)
         /\ Quiet(w) => Quiet(v)
         /\ QueueFit(w) => QueueFit(v)
         /\ BatchFit(w) => BatchFit(v)
         /\ Sound(w) => Sound(v)
<1> USE DEF Alike, Driving
<1>1. Fit(w) => Fit(v)
  BY DEF Fit
<1>2. Quiet(w) => Quiet(v)
  BY DEF Quiet, Idle
<1>3. QueueFit(w) => QueueFit(v)
  BY DEF QueueFit, Bears
<1>4. BatchFit(w) => BatchFit(v)
  BY DEF BatchFit, Bears, Accepts
<1> QED
  BY <1>1, <1>2, <1>3, <1>4 DEF Sound

\* A goal that got a new revision expects none of the rounds there are.
LEMMA RevisedFit ==
  ASSUME NEW v, NEW w, Typed(v), Typed(w), Fit(w), QueueFit(w),
         v.goal.ref = w.goal.ref + 1, v.goal.broken = w.goal.broken,
         v.driver.attempt = w.driver.attempt, v.driver.life = w.driver.life,
         v.agent = w.agent, v.agent.pc = "maintenance" => ~Driving(v.goal)
  PROVE  /\ Fit(v) /\ QueueFit(v)
         /\ Quiet(w) => Quiet(v)
         /\ BatchFit(w) /\ w.agent.pc # "decided" => BatchFit(v)
<1>1. /\ v.goal.ref \in Nat /\ w.goal.ref \in Nat /\ w.driver.attempt.ref \in Nat
      /\ w.driver.attempt.ref < v.goal.ref
  BY Parts DEF Goals, Attempts, Fit
<1>2. /\ \A m \in RoundsIn(w.agent.nextTurn) : m.ref \in Nat
      /\ \A m \in RoundsIn(w.agent.batch) : m.ref \in Nat
  <2>1. w.agent.nextTurn \in Seq(Messages) /\ w.agent.batch \in Seq(Messages)
    BY Parts DEF Agents
  <2> QED
    BY <2>1 DEF RoundsIn, IsRound, ToSet, Messages
<1>3. Fit(v)
  BY <1>1 DEF Fit, Gone
<1>4. QueueFit(v)
  BY <1>1, <1>2 DEF QueueFit, Gone
<1>5. Quiet(w) => Quiet(v)
  BY <1>1 DEF Quiet, Idle
<1>6. BatchFit(w) /\ w.agent.pc # "decided" => BatchFit(v)
  BY <1>1, <1>2 DEF BatchFit, Gone
<1> QED
  BY <1>3, <1>4, <1>5, <1>6

\* With nothing claimed there is nothing to be in order.
LEMMA EmptyBatch ==
  ASSUME NEW w, w.agent.batch = <<>>, w.agent.pc # "inner"
  PROVE  BatchFit(w)
BY DEF BatchFit, RoundsIn, ToSet

-----------------------------------------------------------------------------
(* The small steps of the handlers                                         *)

\* requestDrive during a run asks for another pass.
LEMMA AgainIs ==
  ASSUME NEW w, Typed(w)
  PROVE  /\ Typed(Again(w)) /\ Again(w).goal = w.goal /\ Again(w).agent = w.agent
         /\ Again(w).driver.requested /\ Again(w).driver.attempt = w.driver.attempt
         /\ Again(w).driver.competing = w.driver.competing
         /\ Again(w).driver.needs = w.driver.needs /\ Again(w).driver.run = w.driver.run
         /\ Again(w).driver.life = w.driver.life
<1> DEFINE d == [w.driver EXCEPT !.requested = TRUE]
<1>1. DriverTyped(d)
  BY Parts DEF DriverTyped, Drivers
<1>2. Again(w) = [w EXCEPT !.driver = d]
  BY DEF Again
<1> HIDE DEF d
<1>3. Typed(Again(w)) /\ Again(w).goal = w.goal /\ Again(w).agent = w.agent /\ Again(w).driver = d
  BY <1>1, <1>2, PutDriver
<1>4. w.driver \in Drivers
  BY Parts
<1> QED
  BY <1>3, <1>4 DEF d, Drivers

\* drive has returned.
LEMMA ReturnedIs ==
  ASSUME NEW w, Typed(w)
  PROVE  /\ Typed(Returned(w)) /\ Returned(w).goal = w.goal /\ Returned(w).agent = w.agent
         /\ Returned(w).driver.run = "looping" /\ Returned(w).driver.attempt = w.driver.attempt
         /\ Returned(w).driver.competing = w.driver.competing
         /\ Returned(w).driver.needs = w.driver.needs
         /\ Returned(w).driver.requested = w.driver.requested
         /\ Returned(w).driver.life = w.driver.life
<1>1. DriverTyped([w.driver EXCEPT !.run = "looping"])
  BY Parts DEF DriverTyped, Drivers
<1>2. Returned(w) = [w EXCEPT !.driver = [w.driver EXCEPT !.run = "looping"]]
  BY DEF Returned
<1>3. /\ Typed(Returned(w)) /\ Returned(w).goal = w.goal /\ Returned(w).agent = w.agent
      /\ Returned(w).driver = [w.driver EXCEPT !.run = "looping"] /\ w.driver \in Drivers
  BY <1>1, <1>2, PutDriver, Parts
<1> QED
  BY <1>3 DEF Drivers

\* drive waits for its checkpoint.
LEMMA FlushingIs ==
  ASSUME NEW w, Typed(w)
  PROVE  /\ Typed(Flushing(w)) /\ Flushing(w).goal = w.goal /\ Flushing(w).agent = w.agent
         /\ Flushing(w).driver.run = "flushing" /\ ~Flushing(w).driver.needs
         /\ Flushing(w).driver.attempt = w.driver.attempt
         /\ Flushing(w).driver.competing = w.driver.competing
         /\ Flushing(w).driver.requested = w.driver.requested
         /\ Flushing(w).driver.life = w.driver.life
<1>1. DriverTyped([w.driver EXCEPT !.needs = FALSE, !.run = "flushing"])
  BY Parts DEF DriverTyped, Drivers
<1>2. Flushing(w) = [w EXCEPT !.driver = [w.driver EXCEPT !.needs = FALSE, !.run = "flushing"]]
  BY Parts DEF Flushing, Worlds
<1>3. /\ Typed(Flushing(w)) /\ Flushing(w).goal = w.goal /\ Flushing(w).agent = w.agent
      /\ Flushing(w).driver = [w.driver EXCEPT !.needs = FALSE, !.run = "flushing"]
      /\ w.driver \in Drivers
  BY <1>1, <1>2, PutDriver, Parts
<1> QED
  BY <1>3 DEF Drivers

\* The goal loses its authority, unless the driver is gone.
LEMMA DisarmIs ==
  ASSUME NEW w, Typed(w)
  PROVE  /\ Typed(Disarm(w)) /\ Disarm(w).driver = w.driver /\ Disarm(w).agent = w.agent
         /\ Gone(w) => Disarm(w) = w
         /\ ~Gone(w) => ~Disarm(w).goal.armed
         /\ Disarm(w).goal.phase = w.goal.phase /\ Disarm(w).goal.ref = w.goal.ref
         /\ Disarm(w).goal.rounds = w.goal.rounds /\ Disarm(w).goal.max = w.goal.max
         /\ Disarm(w).goal.broken = w.goal.broken
<1> DEFINE g == [w.goal EXCEPT !.armed = FALSE]
<1>1. GoalTyped(g)
  BY Parts DEF GoalTyped, Goals
<1>2. Disarm(w) = IF Gone(w) THEN w ELSE [w EXCEPT !.goal = g]
  BY DEF Disarm
<1> HIDE DEF g
<1>3. /\ Typed(Disarm(w)) /\ Disarm(w).driver = w.driver /\ Disarm(w).agent = w.agent
      /\ Disarm(w).goal = IF Gone(w) THEN w.goal ELSE g
  BY <1>1, <1>2, PutGoal
<1>4. w.goal \in Goals
  BY Parts
<1> QED
  BY <1>2, <1>3, <1>4 DEF g, Goals

\* A change of the goal.
LEMMA MutateIs ==
  ASSUME NEW w, Typed(w), NEW g, GoalTyped(g)
  PROVE  /\ Typed(Mutate(w, g)) /\ Mutate(w, g).agent = w.agent
         /\ Mutate(w, g).goal.ref = w.goal.ref + 1 /\ Mutate(w, g).goal.phase = g.phase
         /\ Mutate(w, g).goal.broken = g.broken /\ Mutate(w, g).goal.armed = g.armed
         /\ Mutate(w, g).driver.needs /\ Mutate(w, g).driver.attempt = w.driver.attempt
         /\ Mutate(w, g).driver.competing = w.driver.competing
         /\ Mutate(w, g).driver.requested = w.driver.requested
         /\ Mutate(w, g).driver.run = w.driver.run /\ Mutate(w, g).driver.life = w.driver.life
<1> DEFINE h == [g EXCEPT !.ref = w.goal.ref + 1]
           d == [w.driver EXCEPT !.needs = TRUE]
<1>1. GoalTyped(h)
  BY Parts DEF GoalTyped, Goals
<1>2. DriverTyped(d)
  BY Parts DEF DriverTyped, Drivers
<1> DEFINE v == [w EXCEPT !.goal = h]
<1>3. Mutate(w, g) = [v EXCEPT !.driver = d]
  BY Parts DEF Mutate, Worlds
<1> HIDE DEF h, d
<1>4. Typed(v) /\ v.goal = h /\ v.agent = w.agent
  BY <1>1, PutGoal
<1> HIDE DEF v
<1>5. /\ Typed(Mutate(w, g)) /\ Mutate(w, g).agent = w.agent
      /\ Mutate(w, g).goal = h /\ Mutate(w, g).driver = d
  BY <1>2, <1>3, <1>4, PutDriver
<1>6. w.driver \in Drivers /\ g \in Goals
  BY Parts DEF GoalTyped
<1> QED
  BY <1>5, <1>6 DEF h, d, Drivers, Goals

\* The goal stops.
LEMMA StoppedIs ==
  ASSUME NEW w, Typed(w), NEW phase \in {"none", "active", "paused", "blocked", "complete"}
  PROVE  LET v == Stopped(w, phase) IN
         /\ Typed(v) /\ v.agent = w.agent /\ v.goal.ref = w.goal.ref + 1
         /\ v.goal.broken = w.goal.broken /\ ~v.goal.armed
         /\ v.driver.needs /\ v.driver.attempt = w.driver.attempt
         /\ v.driver.competing = w.driver.competing /\ v.driver.requested = w.driver.requested
         /\ v.driver.run = w.driver.run /\ v.driver.life = w.driver.life
<1> DEFINE g == [w.goal EXCEPT !.phase = phase, !.armed = FALSE]
<1>1. w.goal \in Goals
  BY Parts
<1>2. GoalTyped(g) /\ ~g.armed /\ g.broken = w.goal.broken
  BY <1>1 DEF GoalTyped, Goals
<1>3. Stopped(w, phase) = Mutate(w, g)
  BY DEF Stopped
<1> HIDE DEF g
<1> QED
  BY <1>2, <1>3, MutateIs

\* An attempt that is forgotten.
LEMMA DroppedIs ==
  ASSUME NEW w, Typed(w)
  PROVE  /\ Typed(Dropped(w)) /\ Dropped(w).goal = w.goal /\ Dropped(w).agent = w.agent
         /\ Dropped(w).driver.attempt = NoAttempt
         /\ Dropped(w).driver.competing = w.driver.competing
         /\ Dropped(w).driver.needs = w.driver.needs
         /\ Dropped(w).driver.requested = w.driver.requested
         /\ Dropped(w).driver.run = w.driver.run /\ Dropped(w).driver.life = w.driver.life
<1>1. NoAttempt \in Attempts
  BY GoalRoundsAssumption DEF NoAttempt, Attempts
<1>2. DriverTyped([w.driver EXCEPT !.attempt = NoAttempt])
  BY <1>1, Parts DEF DriverTyped, Drivers, AttemptTyped, NoAttempt
<1>3. Dropped(w) = [w EXCEPT !.driver = [w.driver EXCEPT !.attempt = NoAttempt]]
  BY DEF Dropped
<1>4. /\ Typed(Dropped(w)) /\ Dropped(w).goal = w.goal /\ Dropped(w).agent = w.agent
      /\ Dropped(w).driver = [w.driver EXCEPT !.attempt = NoAttempt] /\ w.driver \in Drivers
  BY <1>2, <1>3, PutDriver, Parts
<1> QED
  BY <1>4 DEF Drivers

\* Another prompt competes with the round in the queue.
LEMMA CompeteIs ==
  ASSUME NEW w, Typed(w)
  PROVE  /\ Typed(Compete(w)) /\ Compete(w).goal = w.goal /\ Compete(w).agent = w.agent
         /\ Compete(w).driver.competing /\ Compete(w).driver.needs = w.driver.needs
         /\ Compete(w).driver.requested = w.driver.requested
         /\ Compete(w).driver.run = w.driver.run /\ Compete(w).driver.life = w.driver.life
         /\ Compete(w).driver.attempt.phase = w.driver.attempt.phase
         /\ Compete(w).driver.attempt.id = w.driver.attempt.id
         /\ Compete(w).driver.attempt.ref = w.driver.attempt.ref
         /\ Compete(w).driver.attempt.round = w.driver.attempt.round
         /\ Compete(w).driver.attempt.cancelled = w.driver.attempt.cancelled
         /\ Compete(w).driver.attempt.stale =
              (w.driver.attempt.stale \/ w.driver.attempt.phase = "queued")
<1> DEFINE t == [w.driver.attempt EXCEPT !.stale = w.driver.attempt.stale \/ w.driver.attempt.phase = "queued"]
           d == [w.driver EXCEPT !.competing = TRUE, !.attempt = t]
<1>1. AttemptTyped(t)
  <2>1. PICK b \in BOOLEAN : b = (w.driver.attempt.stale \/ w.driver.attempt.phase = "queued")
    BY Parts DEF Attempts
  <2>2. t = [w.driver.attempt EXCEPT !.stale = b]
    BY <2>1
  <2>3. w.driver.attempt.phase = "none" => ~b
    BY <2>1, Parts DEF AttemptTyped
  <2> HIDE DEF t
  <2> QED
    BY <2>2, <2>3, Parts DEF AttemptTyped, Attempts
<1>2. Compete(w) = [w EXCEPT !.driver = d]
  BY Parts DEF Compete, Worlds, Drivers
<1> HIDE DEF t
<1>3. DriverTyped(d)
  BY <1>1, Parts DEF DriverTyped, Drivers, AttemptTyped
<1>4. w.driver \in Drivers /\ w.driver.attempt \in Attempts
  BY Parts
<1>5. /\ d.attempt = t /\ d.competing /\ d.needs = w.driver.needs
      /\ d.requested = w.driver.requested /\ d.run = w.driver.run /\ d.life = w.driver.life
  BY <1>4 DEF Drivers
<1>6. /\ t.phase = w.driver.attempt.phase /\ t.id = w.driver.attempt.id
      /\ t.ref = w.driver.attempt.ref /\ t.round = w.driver.attempt.round
      /\ t.cancelled = w.driver.attempt.cancelled
      /\ t.stale = (w.driver.attempt.stale \/ w.driver.attempt.phase = "queued")
  BY <1>4 DEF Attempts, t
<1> HIDE DEF d
<1>7. Typed(Compete(w)) /\ Compete(w).goal = w.goal /\ Compete(w).agent = w.agent /\ Compete(w).driver = d
  BY <1>2, <1>3, PutDriver
<1> QED
  BY <1>5, <1>6, <1>7

-----------------------------------------------------------------------------
(* The inbox                                                               *)

\* A set of natural numbers has a least one.
LEMMA Least ==
  ASSUME NEW T \in SUBSET Nat, T # {}
  PROVE  \E x \in T : \A y \in T : ~(y < x)
<1>1. PICK x \in T : \A y \in T : <<y, x>> \notin OpToRel(<, Nat)
  BY NatLessThanWellFounded, WFMin, Zenon
<1> QED
  BY <1>1, Zenon DEF OpToRel

\* Induction, over the set of the numbers of which the fact holds.
LEMMA Induction ==
  ASSUME NEW S, 0 \in S, \A n \in Nat : n \in S => n + 1 \in S
  PROVE  Nat \subseteq S
<1> DEFINE T == Nat \ S
<1> SUFFICES ASSUME T # {} PROVE FALSE
  OBVIOUS
<1>1. PICK x \in T : \A y \in T : ~(y < x)
  <2>1. T \in SUBSET Nat
    OBVIOUS
  <2> HIDE DEF T
  <2> QED
    BY <2>1, Least
<1>2. x - 1 \in Nat /\ x - 1 \in S
  BY <1>1
<1> QED
  BY <1>1, <1>2

\* f holds what restoreOtherClaimed takes of each of the first n messages.
Others(f, a, n) == f = [i \in 0..n |-> IF i = 0 THEN <<>> ELSE WithOther(f[i - 1], a, a.batch[i])]

\* There is such a function, by induction on n.
LEMMA OthersExist ==
  ASSUME NEW a
  PROVE  \A n \in Nat : \E f : Others(f, a, n)
<1> DEFINE S == {n \in Nat : \E f : Others(f, a, n)}
<1>1. 0 \in S
  <2>1. Others([i \in 0..0 |-> <<>>], a, 0)
    BY DEF Others
  <2> QED
    BY <2>1
<1>2. ASSUME NEW n \in Nat, n \in S
      PROVE  n + 1 \in S
  <2>1. PICK f : Others(f, a, n)
    BY <1>2
  <2> DEFINE g == [i \in 0..n + 1 |-> IF i = n + 1 THEN WithOther(f[n], a, a.batch[n + 1]) ELSE f[i]]
  <2>2. ASSUME NEW i \in 0..n + 1
        PROVE  g[i] = IF i = 0 THEN <<>> ELSE WithOther(g[i - 1], a, a.batch[i])
    <3>1. CASE i = n + 1
      BY <3>1
    <3>2. CASE i \in 0..n
      BY <2>1, <3>2 DEF Others
    <3> QED
      BY <3>1, <3>2
  <2>3. g = [i \in 0..n + 1 |-> IF i = 0 THEN <<>> ELSE WithOther(g[i - 1], a, a.batch[i])]
    BY <2>2
  <2> HIDE DEF g
  <2> QED
    BY <2>3 DEF Others
<1> HIDE DEF S
<1>3. Nat \subseteq S
  BY <1>1, <1>2, Induction
<1> QED
  BY <1>3 DEF S

\* What a longer queue holds.
LEMMA Appended ==
  ASSUME NEW S, NEW s \in Seq(S), NEW m \in S
  PROVE  \A k : k \in ToSet(Append(s, m)) <=> k \in ToSet(s) \/ k = m
<1> DEFINE r == Append(s, m)
<1>1. /\ DOMAIN r = 1..Len(s) + 1 /\ DOMAIN s = 1..Len(s) /\ Len(s) \in Nat
      /\ r[Len(s) + 1] = m /\ \A i \in 1..Len(s) : r[i] = s[i]
  OBVIOUS
<1> HIDE DEF r
<1>2. ASSUME NEW k, k \in ToSet(r) PROVE k \in ToSet(s) \/ k = m
  BY <1>1, <1>2 DEF ToSet
<1>3. ASSUME NEW k, k \in ToSet(s) \/ k = m PROVE k \in ToSet(r)
  BY <1>1, <1>3 DEF ToSet
<1> QED
  BY <1>2, <1>3 DEF r

\* What a queue before another holds.
LEMMA Joined ==
  ASSUME NEW S, NEW s \in Seq(S), NEW t \in Seq(S)
  PROVE  \A k : k \in ToSet(s \o t) <=> k \in ToSet(s) \/ k \in ToSet(t)
<1> DEFINE r == s \o t
           p == Len(s)
           q == Len(t)
<1>1. /\ DOMAIN r = 1..p + q /\ DOMAIN s = 1..p /\ DOMAIN t = 1..q /\ p \in Nat /\ q \in Nat
      /\ \A i \in 1..p : r[i] = s[i]
      /\ \A i \in 1..p + q : i > p => r[i] = t[i - p]
  OBVIOUS
<1>2. \A i \in 1..q : i + p \in 1..p + q /\ i + p > p /\ (i + p) - p = i
  BY <1>1
<1> HIDE DEF r, p, q
<1>3. ASSUME NEW k, k \in ToSet(r) PROVE k \in ToSet(s) \/ k \in ToSet(t)
  BY <1>1, <1>3 DEF ToSet
<1>4. ASSUME NEW k, k \in ToSet(s) PROVE k \in ToSet(r)
  BY <1>1, <1>4 DEF ToSet
<1>5. ASSUME NEW k, k \in ToSet(t) PROVE k \in ToSet(r)
  <2>1. PICK i \in 1..q : k = t[i]
    BY <1>1, <1>5 DEF ToSet
  <2>2. r[i + p] = k
    BY <1>1, <1>2, <2>1
  <2> QED
    BY <1>1, <1>2, <2>2 DEF ToSet
<1> QED
  BY <1>3, <1>4, <1>5 DEF r

\* Restore puts messages of people before what waits for the next step: those
\* claimed along with the round that are not back yet.
LEMMA RestoreIs ==
  ASSUME NEW w, Typed(w)
  PROVE  /\ Typed(Restore(w)) /\ Restore(w).goal = w.goal /\ Restore(w).driver = w.driver
         /\ Restore(w).agent = [w.agent EXCEPT !.nextStep = Restore(w).agent.nextStep]
         /\ \A m : m \in ToSet(Restore(w).agent.nextStep) <=>
                   \/ m \in ToSet(w.agent.nextStep)
                   \/ m \in ToSet(w.agent.batch) /\ ~IsRound(m) /\ m \notin Inbox(w.agent)
<1> DEFINE a == w.agent
           N == Len(a.batch)
           f == CHOOSE g : Others(g, a, N)
           next == f[N] \o a.nextStep
<1>1. a \in Agents /\ a.batch \in Seq(Messages) /\ a.nextStep \in Seq(Humans) /\ N \in Nat
  BY Parts DEF Agents
<1>2. Restore(w) = [w EXCEPT !.agent = [w.agent EXCEPT !.nextStep = next]]
  BY DEF Restore, Others
<1>3. Others(f, a, N)
  <2>1. \E g : Others(g, a, N)
    BY <1>1, OthersExist
  <2> QED
    BY <2>1
<1> HIDE DEF f
<1> DEFINE Back(m) == ~IsRound(m) /\ m \notin Inbox(a)
<1>4. /\ f[N] \in Seq(Humans)
      /\ \A m : m \in ToSet(f[N]) <=> \E k \in 1..N : m = a.batch[k] /\ Back(m)
  <2> DEFINE S == {i \in Nat : i <= N =>
                     /\ f[i] \in Seq(Humans)
                     /\ \A m : m \in ToSet(f[i]) <=> \E k \in 1..i : m = a.batch[k] /\ Back(m)}
  <2> HIDE DEF N, Back
  <2>1. 0 \in S
    <3>1. f[0] = <<>>
      BY <1>1, <1>3 DEF Others
    <3>2. f[0] \in Seq(Humans) /\ ToSet(f[0]) = {} /\ 1..0 = {}
      BY <3>1, EmptySeq DEF ToSet
    <3> QED
      BY <3>2
  <2>2. ASSUME NEW i \in Nat, i \in S
        PROVE  i + 1 \in S
    <3> SUFFICES ASSUME i + 1 <= N
                 PROVE  /\ f[i + 1] \in Seq(Humans)
                        /\ \A m : m \in ToSet(f[i + 1]) <=>
                                  \E k \in 1..i + 1 : m = a.batch[k] /\ Back(m)
      OBVIOUS
    <3> DEFINE b == a.batch[i + 1]
               s == f[i]
    <3>1. f[i + 1] = WithOther(f[(i + 1) - 1], a, b)
      BY <1>1, <1>3 DEF Others
    <3>2. /\ (i + 1) - 1 = i /\ s \in Seq(Humans)
          /\ \A m : m \in ToSet(s) <=> \E k \in 1..i : m = a.batch[k] /\ Back(m)
      BY <1>1, <2>2
    <3>3. f[i + 1] = IF Back(b) THEN Append(s, b) ELSE s
      BY <3>1, <3>2 DEF WithOther, Back
    <3>4. \A k \in 1..i + 1 : k \in 1..i \/ k = i + 1
      OBVIOUS
    <3>5. i + 1 \in 1..i + 1 /\ 1..i \subseteq 1..i + 1
      OBVIOUS
    <3> HIDE DEF s
    <3>6. CASE Back(b)
      <4>1. b \in Humans
        BY <3>6 DEF Back, IsRound
      <4>2. \A k : k \in ToSet(Append(s, b)) <=> k \in ToSet(s) \/ k = b
        BY <3>2, <4>1, Appended
      <4>3. f[i + 1] = Append(s, b) /\ Append(s, b) \in Seq(Humans)
        BY <3>2, <3>3, <3>6, <4>1
      <4> QED
        BY <3>2, <3>4, <3>5, <3>6, <4>2, <4>3
    <3>7. CASE ~Back(b)
      <4>1. f[i + 1] = s
        BY <3>3, <3>7
      <4> QED
        BY <3>2, <3>4, <3>5, <3>7, <4>1
    <3> QED
      BY <3>6, <3>7
  <2> HIDE DEF S
  <2>3. Nat \subseteq S
    BY <2>1, <2>2, Induction
  <2>4. N \in S /\ N <= N
    BY <1>1, <2>3
  <2> QED
    BY <2>4, Zenon DEF S
<1>5. /\ next \in Seq(Humans)
      /\ \A m : m \in ToSet(next) <=>
                \/ m \in ToSet(a.nextStep)
                \/ m \in ToSet(a.batch) /\ Back(m)
  <2> HIDE DEF Back
  <2>1. next \in Seq(Humans) /\ \A m : m \in ToSet(next) <=> m \in ToSet(f[N]) \/ m \in ToSet(a.nextStep)
    BY <1>1, <1>4, Joined
  <2>2. DOMAIN a.batch = 1..N
    BY <1>1
  <2>3. \A m : m \in ToSet(a.batch) <=> \E k \in 1..N : m = a.batch[k]
    BY <2>2 DEF ToSet
  <2> QED
    BY <1>4, <2>1, <2>3
<1> HIDE DEF next
<1>6. [w.agent EXCEPT !.nextStep = next] \in Agents
  BY <1>1, <1>5 DEF Agents
<1>7. /\ Typed(Restore(w)) /\ Restore(w).goal = w.goal /\ Restore(w).driver = w.driver
      /\ Restore(w).agent = [w.agent EXCEPT !.nextStep = next]
  BY <1>2, <1>6, PutAgent
<1>8. Restore(w).agent.nextStep = next
  BY <1>1, <1>7 DEF Agents
<1> QED
  BY <1>5, <1>7, <1>8

-----------------------------------------------------------------------------
(* Claims and wakes                                                        *)

\* What the agent's own steps leave alone: the goal, the run, and which round
\* the attempt is for.
Steady(v, w) ==
  /\ v.goal = w.goal
  /\ v.driver.competing = w.driver.competing /\ v.driver.needs = w.driver.needs
  /\ v.driver.requested = w.driver.requested /\ v.driver.run = w.driver.run
  /\ v.driver.life = w.driver.life
  /\ v.driver.attempt.id = w.driver.attempt.id /\ v.driver.attempt.ref = w.driver.attempt.ref
  /\ v.driver.attempt.round = w.driver.attempt.round
  /\ v.driver.attempt.cancelled = w.driver.attempt.cancelled
  /\ v.driver.attempt.stale = w.driver.attempt.stale
  /\ v.driver.attempt.phase = "none" <=> w.driver.attempt.phase = "none"

\* What a claim does to the inbox and the attempt: c prompts and all that waits
\* for the next step, which is from people, make the batch.
ClaimOf(v, w, c) ==
  LET next == w.agent.nextTurn IN
  /\ v.agent.nextTurn \in Seq(Messages) /\ Len(v.agent.nextTurn) = Len(next) - c
  /\ \A i \in DOMAIN v.agent.nextTurn : v.agent.nextTurn[i] = next[i + c]
  /\ \A m \in RoundsIn(v.agent.batch) : c = 1 /\ m = next[1]
  /\ \A m : m \in ToSet(v.agent.batch) <=> m \in ToSet(w.agent.nextStep) \/ (c = 1 /\ m = next[1])
  /\ v.agent.nextStep = <<>> /\ v.agent.passed = ToSet(v.agent.nextTurn)
  /\ v.driver.attempt.phase =
       IF \E m \in ToSet(v.agent.batch) : Matches(m, w.driver.attempt)
         THEN "claimed" ELSE w.driver.attempt.phase

\* The agent's inbox and batch are what changes, and the attempt's phase.
LEMMA ClaimIs ==
  ASSUME NEW w, Typed(w), NEW n \in {0, 1}
  PROVE  /\ Typed(Claim(w, n)) /\ Steady(Claim(w, n), w) /\ Claim(w, n).agent.pc = "claimed"
         /\ \E c \in {0, 1} : /\ c <= n /\ c <= Len(w.agent.nextTurn)
                              /\ ClaimOf(Claim(w, n), w, c)
<1> DEFINE a == w.agent
           count == IF n <= Len(a.nextTurn) THEN n ELSE Len(a.nextTurn)
           batch == a.nextStep \o SubSeq(a.nextTurn, 1, count)
           rest == SubSeq(a.nextTurn, count + 1, Len(a.nextTurn))
           behind == ToSet(rest)
           ours == \E m \in ToSet(batch) : Matches(m, w.driver.attempt)
           t == [w.driver.attempt EXCEPT !.phase = IF ours THEN "claimed" ELSE @]
           b == [a EXCEPT !.pc = "claimed", !.batch = batch, !.nextStep = <<>>,
                          !.nextTurn = rest, !.passed = behind]
           d == [w.driver EXCEPT !.attempt = t]
           v == [w EXCEPT !.agent = b]
<1>1. a \in Agents /\ a.nextTurn \in Seq(Messages) /\ a.nextStep \in Seq(Humans)
  BY Parts DEF Agents
<1>2. count \in {0, 1} /\ count <= Len(a.nextTurn) /\ count <= n
  BY <1>1
<1> HIDE DEF count
<1>3. /\ batch \in Seq(Messages) /\ rest \in Seq(Messages)
      /\ Len(rest) = Len(a.nextTurn) - count
      /\ \A i \in DOMAIN rest : rest[i] = a.nextTurn[i + count]
      /\ \A i \in DOMAIN batch : batch[i] \in Humans \/ (count = 1 /\ batch[i] = a.nextTurn[1])
      /\ \A m : m \in ToSet(batch) <=> m \in ToSet(a.nextStep) \/ (count = 1 /\ m = a.nextTurn[1])
  <2>1. a.nextStep \in Seq(Messages)
    BY <1>1 DEF Messages
  <2>2. /\ SubSeq(a.nextTurn, 1, count) \in Seq(Messages) /\ Len(SubSeq(a.nextTurn, 1, count)) = count
        /\ count = 1 => SubSeq(a.nextTurn, 1, count)[1] = a.nextTurn[1]
    BY <1>1, <1>2
  <2>3. /\ rest \in Seq(Messages) /\ Len(rest) = Len(a.nextTurn) - count
        /\ \A i \in DOMAIN rest : rest[i] = a.nextTurn[i + count]
    <3>1. count = 0 => rest = a.nextTurn
      BY <1>1
    <3>2. count = 1 => rest \in Seq(Messages) /\ Len(rest) = Len(a.nextTurn) - 1
            /\ \A i \in DOMAIN rest : rest[i] = a.nextTurn[i + 1]
      BY <1>1, <1>2
    <3> QED
      BY <1>1, <1>2, <3>1, <3>2
  <2>4. batch \in Seq(Messages) /\ Len(batch) = Len(a.nextStep) + count
        /\ \A i \in 1..Len(a.nextStep) : batch[i] = a.nextStep[i]
    BY <2>1, <2>2
  <2>5. \A i \in DOMAIN batch : i \in 1..Len(a.nextStep) \/ (count = 1 /\ i = Len(a.nextStep) + 1)
    <3>1. DOMAIN batch = 1..Len(a.nextStep) + count /\ Len(a.nextStep) \in Nat
      BY <1>1, <2>4
    <3> HIDE DEF batch, a
    <3> QED
      BY <1>2, <3>1
  <2>6. count = 1 => batch[Len(a.nextStep) + 1] = a.nextTurn[1]
    <3>1. Len(a.nextStep) \in Nat
      BY <1>1
    <3> QED
      BY <2>1, <2>2, <3>1
  <2>7. \A i \in 1..Len(a.nextStep) : a.nextStep[i] \in Humans
    BY <1>1
  <2>8. DOMAIN a.nextStep = 1..Len(a.nextStep) /\ DOMAIN batch = 1..Len(a.nextStep) + count
        /\ Len(a.nextStep) \in Nat
    BY <1>1, <2>4
  <2> HIDE DEF batch, rest, a
  <2>9. \A m : m \in ToSet(batch) <=> m \in ToSet(a.nextStep) \/ (count = 1 /\ m = a.nextTurn[1])
    <3>1. ASSUME NEW m, m \in ToSet(batch)
          PROVE  m \in ToSet(a.nextStep) \/ (count = 1 /\ m = a.nextTurn[1])
      BY <2>4, <2>5, <2>6, <2>8, <3>1 DEF ToSet
    <3>2. ASSUME NEW m, m \in ToSet(a.nextStep)
          PROVE  m \in ToSet(batch)
      <4>1. PICK i \in DOMAIN a.nextStep : m = a.nextStep[i]
        BY <3>2 DEF ToSet
      <4>2. i \in DOMAIN batch /\ batch[i] = m
        BY <1>2, <2>4, <2>8, <4>1
      <4> QED
        BY <4>2 DEF ToSet
    <3>3. ASSUME NEW m, count = 1, m = a.nextTurn[1]
          PROVE  m \in ToSet(batch)
      <4>1. Len(a.nextStep) + 1 \in DOMAIN batch
        BY <2>8, <3>3
      <4> QED
        BY <2>6, <3>3, <4>1 DEF ToSet
    <3> QED
      BY <3>1, <3>2, <3>3
  <2> QED
    BY <2>3, <2>4, <2>5, <2>6, <2>7, <2>9
<1> HIDE DEF batch, rest
<1>4. behind \in SUBSET Messages
  BY <1>3 DEF ToSet
<1>5. /\ AttemptTyped(t) /\ t.ref = w.driver.attempt.ref /\ t.round = w.driver.attempt.round
      /\ t.id = w.driver.attempt.id /\ t.cancelled = w.driver.attempt.cancelled
      /\ t.stale = w.driver.attempt.stale /\ (t.phase = "none" <=> w.driver.attempt.phase = "none")
      /\ t.phase = IF ours THEN "claimed" ELSE w.driver.attempt.phase
  <2>1. ours => w.driver.attempt.phase # "none"
    BY DEF Matches
  <2> HIDE DEF ours
  <2> QED
    BY <2>1, Parts DEF AttemptTyped, Attempts
<1>6. Claim(w, n) = [v EXCEPT !.driver = d]
  BY Parts DEF Claim, Worlds, Drivers, Agents, count, batch, rest
<1> HIDE DEF ours, behind, t
<1>7. /\ b \in Agents /\ b.pc = "claimed" /\ b.batch = batch /\ b.nextTurn = rest
      /\ b.nextStep = <<>> /\ b.passed = ToSet(rest)
  BY <1>1, <1>3, <1>4, EmptySeq DEF Agents, behind
<1>8. DriverTyped(d) /\ d.attempt = t
  BY <1>5, Parts DEF DriverTyped, Drivers, AttemptTyped
<1>9. /\ d.competing = w.driver.competing /\ d.needs = w.driver.needs
      /\ d.requested = w.driver.requested /\ d.run = w.driver.run /\ d.life = w.driver.life
  BY Parts DEF Drivers
<1> HIDE DEF b, d
<1>10. Typed(v) /\ v.goal = w.goal /\ v.agent = b
  BY <1>7, PutAgent
<1> HIDE DEF v
<1>11. /\ Typed(Claim(w, n)) /\ Claim(w, n).goal = w.goal /\ Claim(w, n).agent = b
       /\ Claim(w, n).driver = d
  BY <1>6, <1>8, <1>10, PutDriver
<1>12. \A m \in RoundsIn(batch) : count = 1 /\ m = a.nextTurn[1]
  BY <1>3 DEF RoundsIn, ToSet, IsRound
<1>13. ClaimOf(Claim(w, n), w, count)
  BY <1>3, <1>5, <1>7, <1>8, <1>11, <1>12 DEF ClaimOf, ours
<1>14. Typed(Claim(w, n)) /\ Steady(Claim(w, n), w) /\ Claim(w, n).agent.pc = "claimed"
  BY <1>5, <1>7, <1>8, <1>9, <1>11 DEF Steady
<1>15. \E c \in {0, 1} : /\ c <= n /\ c <= Len(w.agent.nextTurn)
                         /\ ClaimOf(Claim(w, n), w, c)
  BY <1>2, <1>13
<1> QED
  BY <1>14, <1>15

\* A claim leaves a world in order, whatever was claimed before.
LEMMA ClaimSound ==
  ASSUME NEW w, Typed(w), NEW n \in {0, 1}, Fit(w), QueueFit(w)
  PROVE  /\ Sound(Claim(w, n))
         /\ w.driver.attempt.phase = "admitted" => Claim(w, n).driver.attempt.phase = "admitted"
<1> DEFINE v == Claim(w, n)
           next == w.agent.nextTurn
           rest == v.agent.nextTurn
           t == w.driver.attempt
           s == v.driver.attempt
<1>1. /\ Typed(v) /\ Steady(v, w) /\ v.agent.pc = "claimed"
      /\ next \in Seq(Messages) /\ v.agent.batch \in Seq(Messages)
  BY ClaimIs, Parts DEF Agents
<1>2. PICK c \in {0, 1} : c <= Len(next) /\ ClaimOf(v, w, c)
  BY ClaimIs
<1> HIDE DEF v
<1>3. /\ rest \in Seq(Messages) /\ \A i \in DOMAIN rest : i + c \in DOMAIN next /\ rest[i] = next[i + c]
      /\ \A m \in RoundsIn(v.agent.batch) : c = 1 /\ 1 \in DOMAIN next /\ m = next[1]
  BY <1>1, <1>2 DEF ClaimOf
<1>4. /\ \A m \in RoundsIn(rest) : m \in RoundsIn(next)
      /\ \A m \in RoundsIn(v.agent.batch) : m \in RoundsIn(next) /\ m \in ToSet(v.agent.batch)
  BY <1>3 DEF RoundsIn, ToSet
<1>5. ASSUME NEW m \in RoundsIn(v.agent.batch), NEW k \in RoundsIn(rest)
      PROVE  m.ref # k.ref
  <2>1. PICK i \in DOMAIN rest : k = rest[i] /\ IsRound(k)
    BY DEF RoundsIn, ToSet
  <2>2. i + c \in DOMAIN next /\ k = next[i + c] /\ c = 1 /\ m = next[1] /\ i \in Nat \ {0}
    BY <1>3, <2>1
  <2>3. IsRound(m) /\ 1 \in DOMAIN next /\ i + c # 1
    BY <1>3, <2>2 DEF RoundsIn
  <2> QED
    BY <2>1, <2>2, <2>3 DEF QueueFit
<1>6. \A m \in RoundsIn(next) : t.phase # "none" /\ m.ref = t.ref => t.phase = "queued" /\ Bears(t, m)
  BY DEF QueueFit
<1>7. ASSUME NEW m \in RoundsIn(v.agent.batch), t.phase # "none", m.ref = t.ref
      PROVE  s.phase = "claimed" /\ Bears(s, m)
  <2>1. Bears(t, m) /\ IsRound(m)
    BY <1>4, <1>6, <1>7 DEF RoundsIn
  <2>2. Matches(m, t)
    BY <1>7, <2>1 DEF Matches, Bears
  <2> QED
    BY <1>1, <1>2, <1>4, <2>1, <2>2 DEF ClaimOf, Steady, Bears
<1>8. \A m \in ToSet(v.agent.batch) : Matches(m, t) => m \in RoundsIn(v.agent.batch) /\ m.ref = t.ref
  BY DEF RoundsIn, Matches
<1>9. ASSUME NEW m \in RoundsIn(rest), s.phase # "none", m.ref = s.ref
      PROVE  s.phase = "queued" /\ Bears(s, m)
  <2>1. t.phase = "queued" /\ Bears(t, m) /\ m.ref = t.ref
    BY <1>1, <1>4, <1>6, <1>9 DEF Steady
  <2>2. s.phase = t.phase
    BY <1>2, <1>5, <1>8, <2>1 DEF ClaimOf
  <2> QED
    BY <1>1, <2>1, <2>2 DEF Steady, Bears
<1>10. QueueFit(v)
  <2>1. ASSUME NEW i \in DOMAIN rest, NEW j \in DOMAIN rest, IsRound(rest[i]), IsRound(rest[j]),
               rest[i].ref = rest[j].ref
        PROVE  i = j
    <3>1. i + c = j + c
      BY <1>3, <2>1 DEF QueueFit
    <3> QED
      BY <1>3, <3>1
  <2>2. ASSUME NEW m \in RoundsIn(rest)
        PROVE  m.ref <= v.goal.ref
    BY <1>1, <1>4, <2>2 DEF QueueFit, Steady
  <2>3. ASSUME NEW m \in RoundsIn(rest), m.ref = v.goal.ref, Driving(v.goal), ~Gone(v)
        PROVE  s.phase # "none" /\ m.ref = s.ref
    BY <1>1, <1>4, <2>3 DEF QueueFit, Steady, Gone
  <2> QED
    BY <1>9, <2>1, <2>2, <2>3 DEF QueueFit
<1>11. BatchFit(v)
  <2>1. \A m, k \in RoundsIn(v.agent.batch) : m = k
    BY <1>3
  <2>2. ASSUME NEW m \in RoundsIn(v.agent.batch)
        PROVE  /\ m.ref <= v.goal.ref
               /\ m.ref = v.goal.ref /\ Driving(v.goal) /\ ~Gone(v) => s.phase # "none" /\ m.ref = s.ref
               /\ s.phase # "none" /\ m.ref = s.ref => s.phase = "claimed" /\ Bears(s, m)
    BY <1>1, <1>4, <1>7, <2>2 DEF QueueFit, Steady, Gone
  <2> QED
    BY <1>1, <1>5, <2>1, <2>2 DEF BatchFit
<1>12. Fit(v) /\ Quiet(v)
  BY <1>1 DEF Fit, Quiet, Steady, Idle, Gone
<1>13. t.phase = "admitted" => s.phase = "admitted"
  BY <1>2, <1>4, <1>6, <1>8 DEF ClaimOf
<1> QED
  BY <1>10, <1>11, <1>12, <1>13 DEF Sound, v

\* A turn starts with a claim.
LEMMA StartTurnIs ==
  ASSUME NEW w, Typed(w)
  PROVE  /\ Typed(StartTurn(w)) /\ Steady(StartTurn(w), w) /\ StartTurn(w).agent.pc = "claimed"
         /\ Fit(w) /\ QueueFit(w) =>
              /\ Sound(StartTurn(w))
              /\ w.driver.attempt.phase = "admitted" => StartTurn(w).driver.attempt.phase = "admitted"
<1> DEFINE b == [w.agent EXCEPT !.aborted = FALSE, !.latch = FALSE]
           v == [w EXCEPT !.agent = b]
<1>1. b \in Agents /\ b.pc = w.agent.pc /\ b.nextTurn = w.agent.nextTurn
  BY Parts DEF Agents
<1>2. StartTurn(w) = Claim(v, 1)
  BY Parts DEF StartTurn, Worlds
<1> HIDE DEF b
<1>3. Typed(v) /\ v.goal = w.goal /\ v.driver = w.driver /\ v.agent = b
  BY <1>1, PutAgent
<1> HIDE DEF v
<1>4. Fit(w) /\ QueueFit(w) => Fit(v) /\ QueueFit(v)
  BY <1>1, <1>3 DEF Fit, QueueFit, Gone
<1>5. Typed(Claim(v, 1)) /\ Steady(Claim(v, 1), v) /\ Claim(v, 1).agent.pc = "claimed"
  BY <1>3, ClaimIs
<1>6. Fit(v) /\ QueueFit(v) =>
        /\ Sound(Claim(v, 1))
        /\ v.driver.attempt.phase = "admitted" => Claim(v, 1).driver.attempt.phase = "admitted"
  BY <1>3, ClaimSound
<1> QED
  BY <1>2, <1>3, <1>4, <1>5, <1>6 DEF Steady

\* A wake starts a turn of an idle agent.
LEMMA WakeIs ==
  ASSUME NEW w, Typed(w)
  PROVE  /\ Typed(Wake(w)) /\ Steady(Wake(w), w)
         /\ Wake(w).agent.pc = IF w.agent.pc = "idle" THEN "claimed" ELSE w.agent.pc
         /\ w.agent.pc = "idle" /\ Fit(w) /\ QueueFit(w) =>
              /\ Sound(Wake(w))
              /\ w.driver.attempt.phase = "admitted" => Wake(w).driver.attempt.phase = "admitted"
         /\ w.agent.pc # "idle" =>
              /\ Alike(Wake(w), w) /\ Wake(w).driver = w.driver
              /\ Wake(w).agent.nextStep = w.agent.nextStep
              /\ Wake(w).agent.passed = w.agent.passed
              /\ Wake(w).agent.aborted = w.agent.aborted
<1>1. CASE w.agent.pc = "idle"
  BY <1>1, StartTurnIs DEF Wake
<1>2. CASE w.agent.pc = "maintenance"
  <2> DEFINE b == [w.agent EXCEPT !.latch = TRUE]
  <2>1. /\ b \in Agents /\ b.pc = w.agent.pc /\ b.batch = w.agent.batch
        /\ b.nextTurn = w.agent.nextTurn /\ b.aborted = w.agent.aborted
        /\ b.nextStep = w.agent.nextStep /\ b.passed = w.agent.passed
    BY Parts DEF Agents
  <2>2. Wake(w) = [w EXCEPT !.agent = b]
    BY <1>2 DEF Wake
  <2> HIDE DEF b
  <2>3. Typed(Wake(w)) /\ Wake(w).agent = b /\ Wake(w).goal = w.goal /\ Wake(w).driver = w.driver
    BY <2>1, <2>2, PutAgent
  <2> QED
    BY <1>2, <2>1, <2>3 DEF Steady, Alike, Gone
<1>3. CASE w.agent.pc \notin {"idle", "maintenance"}
  BY <1>3 DEF Wake, Steady, Alike
<1> QED
  BY <1>1, <1>2, <1>3

-----------------------------------------------------------------------------
(* The driver's run, typed                                                 *)

\* The elements of a sequence are finitely many.
LEMMA FiniteElements ==
  ASSUME NEW S, NEW s \in Seq(S)
  PROVE  IsFiniteSet(ToSet(s))
<1>1. IsFiniteSet(1..Len(s)) /\ s \in [1..Len(s) -> S] /\ DOMAIN s = 1..Len(s)
  BY FS_Interval
<1>2. s \in Surjection(1..Len(s), ToSet(s))
  BY <1>1 DEF Surjection, ToSet
<1> QED
  BY <1>1, <1>2, FS_Surjection

\* Messages are a finite set, so there is a fresh id, and 0 is none.
LEMMA FreshIdIs ==
  ASSUME NEW w, Typed(w)
  PROVE  FreshId(w) \in Nat \ {0}
<1> DEFINE rounds == Rounds(w.agent)
           ids == {m.id : m \in rounds}
           used == ids \cup {w.driver.attempt.id}
           k == Cardinality(used)
<1>1. /\ w.agent.nextStep \in Seq(Humans) /\ w.agent.nextTurn \in Seq(Messages)
      /\ w.agent.batch \in Seq(Messages)
  BY Parts DEF Agents
<1>2. IsFiniteSet(rounds)
  <2>1. /\ IsFiniteSet(ToSet(w.agent.nextStep)) /\ IsFiniteSet(ToSet(w.agent.nextTurn))
        /\ IsFiniteSet(ToSet(w.agent.batch))
    BY <1>1, FiniteElements
  <2>2. IsFiniteSet(Inbox(w.agent) \cup ToSet(w.agent.batch))
    BY <2>1, FS_Union DEF Inbox
  <2>3. rounds \subseteq Inbox(w.agent) \cup ToSet(w.agent.batch)
    BY DEF Rounds
  <2> QED
    BY <2>2, <2>3, FS_Subset
<1> HIDE DEF rounds
<1>3. IsFiniteSet(ids)
  <2>1. [m \in rounds |-> m.id] \in Surjection(rounds, ids)
    BY DEF Surjection
  <2> QED
    BY <1>2, <2>1, FS_Surjection
<1> HIDE DEF ids
<1>4. IsFiniteSet(used) /\ k \in Nat
  BY <1>3, FS_AddElement, FS_CardinalityType
<1> HIDE DEF used
<1>5. \E i \in 1..k + 1 : i \notin used
  <2> SUFFICES ASSUME 1..k + 1 \subseteq used PROVE FALSE
    OBVIOUS
  <2> HIDE DEF k
  <2>1. Cardinality(1..k + 1) = k + 1
    BY <1>4, FS_Interval
  <2>2. Cardinality(1..k + 1) <= k
    BY <1>4, FS_Subset DEF k
  <2> QED
    BY <1>4, <2>1, <2>2
<1>6. FreshId(w) = CHOOSE i \in 1..k + 1 : i \notin used
  BY DEF FreshId, used, ids, rounds
<1> HIDE DEF k
<1> QED
  BY <1>4, <1>5, <1>6

\* A reservation: an attempt at the next round, and its prompt.
LEMMA ReserveIs ==
  ASSUME NEW w, Typed(w), w.goal.rounds < w.goal.max
  PROVE  /\ Typed(Reserve(w)) /\ Reserve(w).goal = w.goal
         /\ Reserve(w).driver.competing = w.driver.competing
         /\ Reserve(w).driver.needs = w.driver.needs
         /\ Reserve(w).driver.requested = w.driver.requested
         /\ Reserve(w).driver.run = w.driver.run /\ Reserve(w).driver.life = w.driver.life
         /\ Reserve(w).driver.attempt.phase # "none"
         /\ Reserve(w).agent.pc = IF w.agent.pc = "idle" THEN "claimed" ELSE w.agent.pc
         /\ /\ w.agent.pc = "idle" /\ Sound(w) /\ ~Gone(w)
            /\ Driving(w.goal) /\ w.driver.attempt.phase = "none"
            => Sound(Reserve(w))
<1> DEFINE id == FreshId(w)
           round == w.goal.rounds + 1
           m == [id |-> id, ref |-> w.goal.ref, round |-> round]
           t == [phase |-> "queued", id |-> id, ref |-> w.goal.ref,
                 round |-> round, cancelled |-> FALSE, stale |-> FALSE]
           d == [w.driver EXCEPT !.attempt = t]
           next == w.agent.nextTurn
           longer == Append(next, m)
           a == [w.agent EXCEPT !.nextTurn = longer]
           u == [w EXCEPT !.driver = d]
           v == [u EXCEPT !.agent = a]
<1>1. /\ id \in Nat \ {0} /\ w.goal.ref \in Nat /\ round \in 1..MaxRounds
      /\ w.goal.rounds \in Nat /\ w.goal.max \in Nat /\ round <= w.goal.max
  BY FreshIdIs, Parts, GoalRoundsAssumption DEF Goals
<1>2. next \in Seq(Messages)
  BY Parts DEF Agents
<1>3. Reserve(w) = Wake(v)
  BY Parts DEF Reserve, Worlds
<1> HIDE DEF id, round
<1>4. m \in Messages /\ m.id = id /\ m.ref = w.goal.ref /\ m.round = round
  BY <1>1 DEF Messages
<1> HIDE DEF m
<1>5. /\ longer \in Seq(Messages) /\ Len(longer) = Len(next) + 1 /\ Len(next) \in Nat
      /\ longer[Len(next) + 1] = m /\ \A i \in 1..Len(next) : longer[i] = next[i]
  BY <1>2, <1>4
<1>6. AttemptTyped(t) /\ t.phase = "queued" /\ t.ref = w.goal.ref /\ t.round = round /\ t.id = id
  BY <1>1, GoalRoundsAssumption DEF AttemptTyped, Attempts
<1> HIDE DEF t, longer
<1>7. a \in Agents /\ a.pc = w.agent.pc /\ a.nextTurn = longer
  BY <1>5, Parts DEF Agents
<1>8. DriverTyped(d) /\ d.attempt = t
  BY <1>6, Parts DEF DriverTyped, Drivers, AttemptTyped
<1>9. /\ d.competing = w.driver.competing /\ d.needs = w.driver.needs
      /\ d.requested = w.driver.requested /\ d.run = w.driver.run /\ d.life = w.driver.life
  BY Parts DEF Drivers
<1> HIDE DEF a, d
<1>10. Typed(u) /\ u.driver = d /\ u.goal = w.goal
  BY <1>8, PutDriver
<1> HIDE DEF u
<1>11. Typed(v) /\ v.agent = a /\ v.driver = d /\ v.goal = w.goal
  BY <1>7, <1>10, PutAgent
<1> HIDE DEF v
<1>12. ASSUME w.agent.pc = "idle", Sound(w), ~Gone(w), Driving(w.goal),
              w.driver.attempt.phase = "none"
       PROVE  Fit(v) /\ QueueFit(v)
  <2>1. Fit(v)
    BY <1>1, <1>6, <1>7, <1>8, <1>9, <1>11, <1>12 DEF Sound, Fit, Gone
  <2>2. \A i \in DOMAIN next : IsRound(next[i]) => next[i] \in RoundsIn(next)
    BY DEF RoundsIn, ToSet
  <2>3. ASSUME NEW k \in RoundsIn(next)
        PROVE  k.ref <= w.goal.ref /\ k.ref # w.goal.ref
    BY <1>12, <2>3 DEF Sound, QueueFit
  <2>4. \A i \in DOMAIN longer : (i \in DOMAIN next /\ longer[i] = next[i]) \/ (i = Len(next) + 1 /\ longer[i] = m)
    BY <1>2, <1>5
  <2>5. ASSUME NEW i \in DOMAIN longer, NEW j \in DOMAIN longer, IsRound(longer[i]),
               IsRound(longer[j]), longer[i].ref = longer[j].ref
        PROVE  i = j
    BY <1>4, <1>12, <2>2, <2>3, <2>4, <2>5 DEF Sound, QueueFit
  <2>6. \A k \in RoundsIn(longer) : k \in RoundsIn(next) \/ k = m
    BY <2>4 DEF RoundsIn, ToSet
  <2>7. ASSUME NEW k \in RoundsIn(longer)
        PROVE  /\ k.ref <= v.goal.ref
               /\ k.ref = t.ref => Bears(t, k)
    BY <1>1, <1>4, <1>6, <1>11, <2>3, <2>6 DEF Bears
  <2> QED
    BY <1>6, <1>7, <1>8, <1>11, <2>1, <2>5, <2>7 DEF QueueFit
<1>13. v.agent.pc = "idle" /\ Fit(v) /\ QueueFit(v) => Sound(Wake(v))
  BY <1>11, WakeIs
<1>14. Typed(Wake(v)) /\ Steady(Wake(v), v)
       /\ Wake(v).agent.pc = IF v.agent.pc = "idle" THEN "claimed" ELSE v.agent.pc
  BY <1>11, WakeIs
<1> QED
  BY <1>3, <1>6, <1>7, <1>8, <1>9, <1>11, <1>12, <1>13, <1>14 DEF Steady

-----------------------------------------------------------------------------
(* The driver's run                                                        *)

\* A change during the checkpoint has another pass coming.
Settled(w) ==
  w.driver.life = "active" /\ w.driver.run = "flushing" /\ w.driver.needs => w.driver.requested

\* The driver is at work on the armed goal of an idle agent.
Serving(w) ==
  w.driver.life = "active" /\ Driving(w.goal) /\ w.agent.pc = "idle" =>
    \/ w.driver.competing \/ w.driver.run = "flushing"
    \/ w.driver.run = "looping" /\ w.driver.requested

\* If v wants no checkpoint for its armed goal, it is at one, or w wanted none.
Saved(v, w) ==
  /\ v.driver.life = "active" /\ Driving(v.goal)
  /\ ~v.driver.needs /\ v.driver.attempt.phase # "admitted"
  => \/ v.driver.run = "flushing" /\ w.driver.run # "flushing"
     \/ /\ v.goal = w.goal /\ ~w.driver.needs /\ w.driver.attempt.phase # "admitted"
        /\ v.driver.run = "flushing" => w.driver.run = "flushing"

\* A new attempt is for an armed goal that wants no checkpoint.
Opened(v, w) ==
  w.driver.attempt.phase = "none" /\ v.driver.attempt.phase # "none" =>
    /\ w.driver.life = "active" /\ Driving(w.goal) /\ ~w.driver.needs
    /\ v.goal = w.goal /\ v.driver.run # "flushing"

\* What a pass of the driver makes of w.
Drove(v, w) ==
  /\ Typed(v) /\ v.driver.life = w.driver.life /\ v.driver.competing = w.driver.competing
  /\ ~Idle(w) => /\ v.goal = w.goal /\ v.agent = w.agent /\ v.driver.attempt = w.driver.attempt
                 /\ v.driver.needs = w.driver.needs
  /\ Driving(v.goal) => v.goal = w.goal
  /\ Settled(v) /\ Saved(v, w) /\ Opened(v, w)
  /\ Sound(w) => Sound(v) /\ Serving(v)

\* A pass that returns at once, from a world that needs none.
LEMMA ReturnedDrove ==
  ASSUME NEW w, Typed(w),
         Sound(w) /\ w.driver.life = "active" /\ Driving(w.goal) /\ w.agent.pc = "idle" =>
           w.driver.competing
  PROVE  Drove(Returned(w), w)
<1> DEFINE v == Returned(w)
<1>1. /\ Typed(v) /\ v.goal = w.goal /\ v.agent = w.agent /\ v.driver.attempt = w.driver.attempt
      /\ v.driver.life = w.driver.life /\ v.driver.competing = w.driver.competing
      /\ v.driver.needs = w.driver.needs /\ v.driver.run = "looping"
  BY ReturnedIs
<1> HIDE DEF v
<1>2. Alike(v, w)
  BY <1>1 DEF Alike, Gone
<1>3. Sound(w) => Sound(v)
  BY <1>2, AlikeSound
<1>4. Saved(v, w) /\ Opened(v, w) /\ Settled(v)
  BY <1>1 DEF Saved, Opened, Settled
<1>5. Sound(w) => Serving(v)
  BY <1>1 DEF Serving
<1> QED
  BY <1>1, <1>3, <1>4, <1>5 DEF Drove, v

\* A pass that waits for a checkpoint.
LEMMA FlushingDrove ==
  ASSUME NEW w, Typed(w), Idle(w), w.driver.run # "flushing"
  PROVE  Drove(Flushing(w), w)
<1> DEFINE v == Flushing(w)
<1>1. /\ Typed(v) /\ v.goal = w.goal /\ v.agent = w.agent /\ v.driver.attempt = w.driver.attempt
      /\ v.driver.life = w.driver.life /\ v.driver.competing = w.driver.competing
      /\ ~v.driver.needs /\ v.driver.run = "flushing"
  BY FlushingIs
<1> HIDE DEF v
<1>2. Alike(v, w)
  BY <1>1 DEF Alike, Gone
<1>3. Sound(w) => Sound(v)
  BY <1>2, AlikeSound
<1> QED
  BY <1>1, <1>3 DEF Drove, Saved, Opened, Settled, Serving, v

\* A goal that stops expects no round any more.
LEMMA StoppedSound ==
  ASSUME NEW w, Typed(w), NEW phase \in {"none", "active", "paused", "blocked", "complete"}
  PROVE  LET v == Stopped(w, phase) IN
         /\ Typed(v) /\ v.agent = w.agent /\ ~Driving(v.goal) /\ v.goal.broken = w.goal.broken
         /\ v.driver.attempt = w.driver.attempt /\ v.driver.life = w.driver.life
         /\ v.driver.competing = w.driver.competing /\ v.driver.run = w.driver.run
         /\ v.driver.requested = w.driver.requested /\ v.driver.needs
         /\ Fit(w) /\ QueueFit(w) => /\ Fit(v) /\ QueueFit(v)
                                     /\ Quiet(w) => Quiet(v)
                                     /\ BatchFit(w) /\ w.agent.pc # "decided" => BatchFit(v)
<1> DEFINE v == Stopped(w, phase)
<1>1. /\ Typed(v) /\ v.agent = w.agent /\ v.goal.ref = w.goal.ref + 1
      /\ v.goal.broken = w.goal.broken /\ ~v.goal.armed
      /\ v.driver.attempt = w.driver.attempt /\ v.driver.life = w.driver.life
      /\ v.driver.competing = w.driver.competing /\ v.driver.run = w.driver.run
      /\ v.driver.requested = w.driver.requested /\ v.driver.needs
  BY StoppedIs
<1> HIDE DEF v
<1>2. ~Driving(v.goal)
  BY <1>1 DEF Driving
<1>3. Fit(w) /\ QueueFit(w) => /\ Fit(v) /\ QueueFit(v)
                               /\ Quiet(w) => Quiet(v)
                               /\ BatchFit(w) /\ w.agent.pc # "decided" => BatchFit(v)
  BY <1>1, <1>2, RevisedFit
<1> QED
  BY <1>1, <1>2, <1>3 DEF v

\* The goal stops at its cap.
LEMMA AtCapDrove ==
  ASSUME NEW w, Typed(w), Idle(w)
  PROVE  Drove(AtCap(w), w)
<1> DEFINE v == Stopped(w, "blocked")
           x == AtCap(w)
<1>1. /\ Typed(v) /\ v.agent = w.agent /\ ~Driving(v.goal)
      /\ v.driver.attempt = w.driver.attempt /\ v.driver.life = w.driver.life
      /\ v.driver.competing = w.driver.competing /\ v.driver.run = w.driver.run
  BY StoppedSound
<1>2. Sound(w) => Sound(v)
  <2>1. w.agent.pc # "decided"
    BY DEF Idle
  <2> QED
    BY <2>1, StoppedSound DEF Sound
<1>3. x = IF v.driver.run = "none" THEN Flushing(v) ELSE Again(Returned(v))
  BY DEF AtCap
<1> HIDE DEF v
<1>4. CASE v.driver.run = "none"
  <2>1. /\ Typed(x) /\ x.goal = v.goal /\ x.agent = v.agent /\ x.driver.attempt = v.driver.attempt
        /\ x.driver.life = v.driver.life /\ x.driver.competing = v.driver.competing
        /\ ~x.driver.needs /\ x.driver.run = "flushing"
    BY <1>1, <1>3, <1>4, FlushingIs
  <2> HIDE DEF x
  <2>2. Alike(x, v)
    BY <2>1 DEF Alike, Gone
  <2>3. Sound(w) => Sound(x)
    BY <1>2, <2>2, AlikeSound
  <2> QED
    BY <1>1, <2>1, <2>3 DEF Drove, Saved, Opened, Settled, Serving, x
<1>5. CASE v.driver.run # "none"
  <2> DEFINE r == Returned(v)
  <2>1. /\ Typed(r) /\ r.goal = v.goal /\ r.agent = v.agent /\ r.driver.run = "looping"
        /\ r.driver.attempt = v.driver.attempt /\ r.driver.life = v.driver.life
        /\ r.driver.competing = v.driver.competing
    BY <1>1, ReturnedIs
  <2>2. x = Again(r)
    BY <1>3, <1>5
  <2> HIDE DEF r, x
  <2>3. /\ Typed(x) /\ x.goal = v.goal /\ x.agent = v.agent /\ x.driver.attempt = v.driver.attempt
        /\ x.driver.life = v.driver.life /\ x.driver.competing = v.driver.competing
        /\ x.driver.run = "looping"
    BY <2>1, <2>2, AgainIs
  <2>4. Alike(x, v)
    BY <2>3 DEF Alike, Gone
  <2>5. Sound(w) => Sound(x)
    BY <1>2, <2>4, AlikeSound
  <2> QED
    BY <1>1, <2>3, <2>5 DEF Drove, Saved, Opened, Settled, Serving, x
<1> QED
  BY <1>4, <1>5

\* An attempt that is forgotten leaves the queue in order, unless its round waits there.
LEMMA DroppedSound ==
  ASSUME NEW w, Typed(w)
  PROVE  LET v == Dropped(w) IN
         /\ Typed(v) /\ v.goal = w.goal /\ v.agent = w.agent /\ v.driver.attempt = NoAttempt
         /\ v.driver.life = w.driver.life /\ v.driver.competing = w.driver.competing
         /\ v.driver.run = w.driver.run /\ v.driver.requested = w.driver.requested
         /\ v.driver.needs = w.driver.needs
         /\ Fit(w) => Fit(v)
         /\ Quiet(w) => Quiet(v)
         /\ /\ QueueFit(w)
            /\ \/ w.driver.attempt.phase # "queued" \/ w.driver.attempt.ref # w.goal.ref
               \/ ~Driving(w.goal) \/ Gone(w)
            => QueueFit(v)
<1> DEFINE v == Dropped(w)
<1>1. /\ Typed(v) /\ v.goal = w.goal /\ v.agent = w.agent /\ v.driver.attempt = NoAttempt
      /\ v.driver.life = w.driver.life /\ v.driver.competing = w.driver.competing
      /\ v.driver.run = w.driver.run /\ v.driver.requested = w.driver.requested
      /\ v.driver.needs = w.driver.needs
  BY DroppedIs
<1> HIDE DEF v
<1>2. /\ v.driver.attempt.phase = "none" /\ v.driver.attempt.ref = 0 /\ v.driver.attempt.round = 0
      /\ w.goal.ref \in Nat /\ w.goal.max \in Nat
  BY <1>1, Parts, GoalRoundsAssumption DEF NoAttempt, Goals
<1>3. Fit(w) => Fit(v)
  BY <1>1, <1>2 DEF Fit, Gone
<1>4. Quiet(w) => Quiet(v)
  BY <1>1, <1>2 DEF Quiet, Idle, Gone
<1>5. ASSUME QueueFit(w), \/ w.driver.attempt.phase # "queued" \/ w.driver.attempt.ref # w.goal.ref
                          \/ ~Driving(w.goal) \/ Gone(w)
      PROVE  QueueFit(v)
  BY <1>1, <1>2, <1>5 DEF QueueFit, Gone
<1> QED
  BY <1>1, <1>3, <1>4, <1>5 DEF v

\* drive behind its checkpoint.
LEMMA AdvanceDrove ==
  ASSUME NEW w, Typed(w), ReadyToDrive(w), ~w.driver.needs
  PROVE  Drove(Advance(w), w)
<1>1. w.driver.life = "active" /\ Idle(w) /\ ~w.driver.competing
  BY DEF ReadyToDrive
<1>2. CASE w.driver.attempt.phase # "none"
  <2> DEFINE u == Dropped(w)
             d == [u.driver EXCEPT !.needs = TRUE]
             x == [u EXCEPT !.driver = d]
             r == Returned(x)
             v == Advance(w)
  <2>1. v = Again(r)
    BY <1>2, Parts DEF Advance, Dropped, Worlds
  <2>2. /\ Typed(u) /\ u.goal = w.goal /\ u.agent = w.agent /\ u.driver.attempt = NoAttempt
        /\ u.driver.life = w.driver.life /\ u.driver.competing = w.driver.competing
    BY DroppedSound
  <2>3. Sound(w) => Sound(u)
    <3> SUFFICES ASSUME Sound(w) PROVE Sound(u)
      OBVIOUS
    <3>1. Fit(u) /\ Quiet(u)
      BY DroppedSound DEF Sound
    <3>2. \/ w.driver.attempt.phase # "queued" \/ w.driver.attempt.ref # w.goal.ref
          \/ ~Driving(w.goal) \/ Gone(w)
      BY <1>1 DEF Sound, Quiet
    <3>3. QueueFit(u)
      BY <3>2, DroppedSound DEF Sound
    <3>4. BatchFit(u)
      BY <1>1, <2>2, EmptyBatch DEF Sound, Quiet, Idle
    <3> QED
      BY <3>1, <3>3, <3>4 DEF Sound
  <2> HIDE DEF u
  <2>4. /\ DriverTyped(d) /\ d.attempt = u.driver.attempt /\ d.life = u.driver.life
        /\ d.competing = u.driver.competing /\ d.needs
    BY <2>2, Parts DEF DriverTyped, Drivers
  <2> HIDE DEF d
  <2>5. Typed(x) /\ x.goal = u.goal /\ x.agent = u.agent /\ x.driver = d
    BY <2>2, <2>4, PutDriver
  <2> HIDE DEF x
  <2>6. /\ Typed(r) /\ r.goal = x.goal /\ r.agent = x.agent
        /\ r.driver.run = "looping" /\ r.driver.attempt = x.driver.attempt
        /\ r.driver.life = x.driver.life /\ r.driver.competing = x.driver.competing
        /\ r.driver.needs = x.driver.needs
    BY <2>5, ReturnedIs
  <2> HIDE DEF r, v
  <2>7. Typed(v) /\ v.goal = r.goal /\ v.agent = r.agent
    BY <2>1, <2>6, AgainIs
  <2>8. /\ v.driver.run = "looping" /\ v.driver.requested /\ v.driver.needs
        /\ v.driver.attempt = u.driver.attempt /\ v.driver.life = u.driver.life
        /\ v.driver.competing = u.driver.competing
    BY <2>1, <2>4, <2>5, <2>6, AgainIs
  <2>9. Alike(v, u)
    BY <2>5, <2>6, <2>7, <2>8 DEF Alike, Gone
  <2>10. Sound(w) => Sound(v)
    BY <2>3, <2>9, AlikeSound
  <2> QED
    BY <1>1, <1>2, <2>2, <2>5, <2>6, <2>7, <2>8, <2>10 DEF Drove, Saved, Opened, Settled, Serving, v
<1>3. CASE w.driver.attempt.phase = "none" /\ (w.goal.broken \/ ~Drivable(w))
  <2>1. Sound(w) => ~Driving(w.goal)
    BY <1>1, <1>3 DEF Sound, Fit, Gone, Drivable
  <2>2. Advance(w) = Returned(w)
    BY <1>3 DEF Advance
  <2> QED
    BY <2>1, <2>2, ReturnedDrove
<1>4. CASE w.driver.attempt.phase = "none" /\ ~w.goal.broken /\ Drivable(w) /\ w.goal.rounds >= w.goal.max
  <2>1. Advance(w) = AtCap(w)
    BY <1>4 DEF Advance
  <2> QED
    BY <1>1, <2>1, AtCapDrove
<1>5. CASE w.driver.attempt.phase = "none" /\ ~w.goal.broken /\ Drivable(w) /\ ~(w.goal.rounds >= w.goal.max)
  <2> DEFINE u == Reserve(w)
             v == Returned(u)
  <2>1. Advance(w) = v
    BY <1>5 DEF Advance
  <2>2. w.goal.rounds < w.goal.max
    BY <1>5, Parts, GoalRoundsAssumption DEF Goals
  <2>3. /\ Typed(u) /\ u.goal = w.goal /\ u.driver.competing = w.driver.competing
        /\ u.driver.life = w.driver.life /\ u.driver.attempt.phase # "none"
        /\ u.agent.pc = IF w.agent.pc = "idle" THEN "claimed" ELSE w.agent.pc
        /\ Sound(w) /\ w.agent.pc = "idle" /\ ~Gone(w) /\ Driving(w.goal) => Sound(u)
    BY <1>5, <2>2, ReserveIs, Zenon
  <2>4. Driving(w.goal) /\ ~Gone(w)
    BY <1>1, <1>5 DEF Drivable, Gone
  <2>5. Sound(w) => Sound(u)
    BY <1>1, <2>3, <2>4 DEF Sound, Fit, Idle
  <2> HIDE DEF u
  <2>6. u.agent.pc # "idle"
    BY <2>3
  <2>7. Drove(v, u)
    BY <2>3, <2>6, ReturnedDrove
  <2>8. v.goal = u.goal /\ v.driver.run = "looping"
    BY <2>3, ReturnedIs
  <2> HIDE DEF v
  <2>9. Saved(v, w)
    BY <1>5, <2>3, <2>7, <2>8 DEF Saved
  <2>10. Opened(v, w)
    BY <1>1, <2>3, <2>4, <2>7, <2>8 DEF Opened, Drove
  <2> QED
    BY <1>1, <2>1, <2>3, <2>5, <2>7, <2>9, <2>10 DEF Drove
<1> QED
  BY <1>2, <1>3, <1>4, <1>5

\* drive.
LEMMA DriveDrove ==
  ASSUME NEW w, Typed(w), w.driver.run # "flushing"
  PROVE  Drove(Drive(w), w)
<1>1. CASE ~ReadyToDrive(w)
  <2>1. w.driver.life = "active" /\ w.agent.pc = "idle" => w.driver.competing
    BY <1>1 DEF ReadyToDrive, Idle
  <2>2. Drive(w) = Returned(w)
    BY <1>1 DEF Drive
  <2> QED
    BY <2>1, <2>2, ReturnedDrove
<1>2. CASE ReadyToDrive(w) /\ w.driver.needs
  BY <1>2, FlushingDrove DEF Drive, ReadyToDrive
<1>3. CASE ReadyToDrive(w) /\ ~w.driver.needs
  BY <1>3, AdvanceDrove DEF Drive
<1> QED
  BY <1>1, <1>2, <1>3

\* requestDrive.
LEMMA RequestDriveDrove ==
  ASSUME NEW w, Typed(w)
  PROVE  Drove(RequestDrive(w), w)
<1> DEFINE v == RequestDrive(w)
<1>1. CASE w.driver.life # "active"
  <2>1. v = w
    BY <1>1 DEF RequestDrive
  <2> HIDE DEF v
  <2> QED
    BY <1>1, <2>1 DEF Drove, Saved, Opened, Settled, Serving, v
<1>2. CASE w.driver.life = "active" /\ w.driver.run # "none"
  <2>1. v = Again(w)
    BY <1>2 DEF RequestDrive
  <2>2. /\ Typed(v) /\ v.goal = w.goal /\ v.agent = w.agent /\ v.driver.attempt = w.driver.attempt
        /\ v.driver.life = w.driver.life /\ v.driver.competing = w.driver.competing
        /\ v.driver.needs = w.driver.needs /\ v.driver.run = w.driver.run /\ v.driver.requested
    BY <2>1, AgainIs
  <2> HIDE DEF v
  <2>3. Alike(v, w)
    BY <2>2 DEF Alike, Gone
  <2>4. Sound(w) => Sound(v)
    BY <2>3, AlikeSound
  <2>5. w.driver.run \in {"none", "flushing", "looping"}
    BY Parts DEF Drivers
  <2> QED
    BY <1>2, <2>2, <2>4, <2>5 DEF Drove, Saved, Opened, Settled, Serving, v
<1>3. CASE w.driver.life = "active" /\ w.driver.run = "none"
  BY <1>3, DriveDrove DEF RequestDrive
<1> QED
  BY <1>1, <1>2, <1>3

\* It lets a checkpoint run on.
LEMMA RequestDriveFlushes ==
  ASSUME NEW w, Typed(w), w.driver.run = "flushing"
  PROVE  RequestDrive(w).driver.run = "flushing"
BY AgainIs DEF RequestDrive

-----------------------------------------------------------------------------
(* The end of a turn                                                       *)

\* What a handler makes of w when what was claimed before no longer matters.
Follows(v, w) ==
  /\ Typed(v) /\ v.driver.life = w.driver.life
  /\ Settled(w) => Settled(v)
  /\ w.driver.run = "flushing" => v.driver.run = "flushing"
  /\ Opened(v, w)
  /\ Fit(w) /\ QueueFit(w) => Sound(v) /\ Serving(v) /\ Saved(v, w)

\* The next turn follows.
LEMMA StartFollows ==
  ASSUME NEW w, Typed(w)
  PROVE  Follows(StartTurn(w), w)
<1> DEFINE v == StartTurn(w)
<1>1. /\ Typed(v) /\ Steady(v, w) /\ v.agent.pc = "claimed"
      /\ Fit(w) /\ QueueFit(w) =>
           /\ Sound(v)
           /\ w.driver.attempt.phase = "admitted" => v.driver.attempt.phase = "admitted"
  BY StartTurnIs
<1> HIDE DEF v
<1> QED
  BY <1>1 DEF Follows, Steady, Settled, Opened, Serving, Saved, v

\* A wake behind v, which follows w.
LEMMA WakeFollows ==
  ASSUME NEW v, NEW w, Follows(v, w)
  PROVE  Follows(Wake(v), w)
<1> DEFINE x == Wake(v)
<1>1. Typed(v)
  BY DEF Follows
<1>2. /\ Typed(x) /\ Steady(x, v)
      /\ x.agent.pc = IF v.agent.pc = "idle" THEN "claimed" ELSE v.agent.pc
      /\ v.agent.pc = "idle" /\ Fit(v) /\ QueueFit(v) =>
           /\ Sound(x)
           /\ v.driver.attempt.phase = "admitted" => x.driver.attempt.phase = "admitted"
      /\ v.agent.pc # "idle" => Alike(x, v) /\ x.driver = v.driver
  BY <1>1, WakeIs
<1> HIDE DEF x
<1>3. /\ x.goal = v.goal /\ x.driver.life = v.driver.life /\ x.driver.run = v.driver.run
      /\ x.driver.needs = v.driver.needs /\ x.driver.requested = v.driver.requested
      /\ x.driver.attempt.phase = "none" <=> v.driver.attempt.phase = "none"
      /\ x.agent.pc # "idle"
  BY <1>2 DEF Steady
<1>4. Sound(v) => Sound(x)
  BY <1>2, AlikeSound DEF Sound
<1>5. Sound(v) /\ v.driver.attempt.phase = "admitted" => x.driver.attempt.phase = "admitted"
  BY <1>2 DEF Sound
<1>6. Opened(x, w) /\ (Settled(w) => Settled(x))
  BY <1>3 DEF Follows, Opened, Settled
<1>7. Sound(v) /\ Saved(v, w) => Saved(x, w)
  BY <1>3, <1>5 DEF Saved
<1> QED
  BY <1>2, <1>3, <1>4, <1>6, <1>7 DEF Follows, Serving, x

\* agent/status idle.
LEMMA AtIdleFollows ==
  ASSUME NEW w, Typed(w), w.agent.pc = "idle", w.agent.batch = <<>>
  PROVE  Follows(AtIdle(w), w)
<1> DEFINE d == [w.driver EXCEPT !.competing = FALSE]
           u == [w EXCEPT !.driver = d]
           x == [Stopped(u, "paused") EXCEPT !.driver.attempt = NoAttempt]
           y == RequestDrive(x)
<1>1. w.driver \in Drivers /\ DriverTyped(w.driver)
  BY Parts
<1>2. /\ DriverTyped(d) /\ d.attempt = w.driver.attempt /\ d.life = w.driver.life
      /\ d.needs = w.driver.needs /\ d.requested = w.driver.requested /\ d.run = w.driver.run
  BY <1>1 DEF DriverTyped, Drivers
<1>3. AtIdle(w) = IF Gone(w) \/ w.goal.broken THEN u
                  ELSE IF Driving(u.goal) /\ Unfinished(u.driver.attempt) THEN RequestDrive(y)
                  ELSE RequestDrive(u)
  BY DEF AtIdle
<1> HIDE DEF d
<1>4. Typed(u) /\ u.goal = w.goal /\ u.agent = w.agent /\ u.driver = d
  BY <1>2, PutDriver
<1> HIDE DEF u
<1>5. /\ Alike(u, w) /\ (Settled(w) => Settled(u))
      /\ u.driver.life = w.driver.life /\ u.driver.attempt = w.driver.attempt
      /\ u.driver.needs = w.driver.needs /\ u.driver.run = w.driver.run
  BY <1>2, <1>4 DEF Alike, Gone, Settled
<1>6. Fit(w) /\ QueueFit(w) => Fit(u) /\ QueueFit(u)
  BY <1>5, AlikeSound
<1>7. BatchFit(u)
  BY <1>4, EmptyBatch
<1>8. CASE Gone(w) \/ w.goal.broken
  <2>1. AtIdle(w) = u
    BY <1>3, <1>8
  <2>2. Fit(w) => Gone(w) /\ Quiet(u)
    BY <1>4, <1>5, <1>8 DEF Fit, Quiet, Gone
  <2>3. Fit(w) => Serving(u) /\ Saved(u, w)
    BY <1>5, <2>2 DEF Gone, Serving, Saved
  <2> QED
    BY <1>4, <1>5, <1>6, <1>7, <2>1, <2>2, <2>3 DEF Follows, Opened, Sound
<1>9. CASE ~(Gone(w) \/ w.goal.broken) /\ Driving(u.goal) /\ Unfinished(u.driver.attempt)
  <2> DEFINE s == Stopped(u, "paused")
             v == RequestDrive(y)
  <2>1. AtIdle(w) = v
    BY <1>3, <1>9
  <2>2. /\ Typed(s) /\ s.agent = u.agent /\ ~Driving(s.goal) /\ s.driver.life = u.driver.life
        /\ s.driver.run = u.driver.run
        /\ Fit(u) /\ QueueFit(u) => Fit(s) /\ QueueFit(s)
    BY <1>4, StoppedSound
  <2>3. x = Dropped(s)
    BY DEF Dropped
  <2> HIDE DEF s, x
  <2>4. /\ Typed(x) /\ x.agent = s.agent /\ x.goal = s.goal /\ x.driver.life = s.driver.life
        /\ x.driver.attempt = NoAttempt /\ x.driver.run = s.driver.run
        /\ Fit(s) /\ QueueFit(s) => Fit(x) /\ QueueFit(x)
    BY <2>2, <2>3, DroppedSound
  <2>5. BatchFit(x) /\ Quiet(x)
    BY <1>4, <2>2, <2>4, EmptyBatch DEF Quiet
  <2>6. Drove(y, x) /\ (x.driver.run = "flushing" => y.driver.run = "flushing")
    BY <2>4, RequestDriveDrove, RequestDriveFlushes
  <2> HIDE DEF y
  <2>7. Drove(v, y) /\ (y.driver.run = "flushing" => v.driver.run = "flushing")
    BY <2>6, RequestDriveDrove, RequestDriveFlushes DEF Drove
  <2> HIDE DEF v
  <2>8. Fit(w) /\ QueueFit(w) => Sound(v) /\ Serving(v)
    BY <1>6, <2>2, <2>4, <2>5, <2>6, <2>7 DEF Drove, Sound
  <2>9. ~Driving(y.goal) /\ ~Driving(v.goal)
    BY <2>2, <2>4, <2>6, <2>7 DEF Drove
  <2>10. Opened(v, w)
    <3>1. x.driver.attempt.phase = "none"
      BY <2>4 DEF NoAttempt
    <3>2. y.driver.attempt.phase = "none"
      BY <2>2, <2>4, <2>6, <3>1 DEF Drove, Opened
    <3>3. v.driver.attempt.phase = "none"
      BY <2>7, <2>9, <3>2 DEF Drove, Opened
    <3> QED
      BY <3>3 DEF Opened
  <2> QED
    BY <1>5, <2>1, <2>2, <2>4, <2>6, <2>7, <2>8, <2>9, <2>10 DEF Follows, Drove, Saved
<1>10. CASE ~(Gone(w) \/ w.goal.broken) /\ ~(Driving(u.goal) /\ Unfinished(u.driver.attempt))
  <2> DEFINE v == RequestDrive(u)
  <2>1. AtIdle(w) = v
    BY <1>3, <1>10
  <2>2. Quiet(u)
    BY <1>4, <1>10 DEF Quiet, Unfinished
  <2>3. Drove(v, u) /\ (u.driver.run = "flushing" => v.driver.run = "flushing")
    BY <1>4, RequestDriveDrove, RequestDriveFlushes
  <2> HIDE DEF v
  <2>4. Saved(v, w) /\ Opened(v, w)
    BY <1>4, <1>5, <2>3 DEF Drove, Saved, Opened
  <2> QED
    BY <1>5, <1>6, <1>7, <2>1, <2>2, <2>3, <2>4 DEF Follows, Drove, Sound
<1> QED
  BY <1>8, <1>9, <1>10

\* A turn is over and the agent idle.
LEMMA RetireFollows ==
  ASSUME NEW w, Typed(w)
  PROVE  Follows(Retire(w), w)
<1> DEFINE b == [w.agent EXCEPT !.pc = "idle", !.batch = <<>>, !.aborted = FALSE, !.latch = FALSE]
           u == [w EXCEPT !.agent = b]
           v == AtIdle(u)
<1>1. w.agent \in Agents
  BY Parts
<1>2. b \in Agents /\ b.pc = "idle" /\ b.batch = <<>> /\ b.nextTurn = w.agent.nextTurn
  BY <1>1, EmptySeq DEF Agents
<1>3. Retire(w) = IF w.agent.latch /\ HasPending(v.agent) THEN Wake(v) ELSE v
  <2>1. u = [w EXCEPT !.agent.pc = "idle", !.agent.batch = <<>>, !.agent.aborted = FALSE,
                      !.agent.latch = FALSE]
    BY Parts DEF Worlds
  <2> HIDE DEF u
  <2> QED
    BY <2>1 DEF Retire
<1> HIDE DEF b
<1>4. Typed(u) /\ u.goal = w.goal /\ u.driver = w.driver /\ u.agent = b
  BY <1>2, PutAgent
<1> HIDE DEF u
<1>5. Fit(w) /\ QueueFit(w) => Fit(u) /\ QueueFit(u)
  BY <1>2, <1>4 DEF Fit, QueueFit, Gone
<1>6. Follows(v, u)
  BY <1>2, <1>4, AtIdleFollows
<1> HIDE DEF v
<1>7. Follows(v, w)
  BY <1>4, <1>5, <1>6 DEF Follows, Opened, Saved, Settled
<1> QED
  BY <1>3, <1>7, WakeFollows

\* turn/end and agent/error.
LEMMA HeardIs ==
  ASSUME NEW w, Typed(w), NEW reason
  PROVE  LET v == Heard(w, reason) IN
         /\ Typed(v) /\ Alike(v, w) /\ v.agent = w.agent
         /\ Driving(v.goal) => v.goal = w.goal
         /\ v.driver.needs = w.driver.needs /\ v.driver.run = w.driver.run
         /\ v.driver.requested = w.driver.requested /\ v.driver.life = w.driver.life
         /\ v.driver.attempt.phase = w.driver.attempt.phase
         /\ v.driver.attempt.stale = w.driver.attempt.stale
         /\ w.driver.attempt.cancelled => v.driver.attempt.cancelled
         /\ reason \in {"completed", "max-tokens"} => v.driver = w.driver
<1> DEFINE v == Heard(w, reason)
<1>1. CASE v = w
  BY <1>1 DEF Alike
<1>2. CASE v = Disarm(w)
  <2>1. /\ Typed(v) /\ v.agent = w.agent /\ v.driver = w.driver
        /\ v.goal.phase = w.goal.phase /\ v.goal.ref = w.goal.ref
        /\ v.goal.rounds = w.goal.rounds /\ v.goal.max = w.goal.max
        /\ v.goal.broken = w.goal.broken
        /\ v = w \/ ~v.goal.armed
    BY <1>2, DisarmIs
  <2> HIDE DEF v
  <2> QED
    BY <2>1 DEF Alike, Gone, Driving, v
<1>3. CASE /\ w.driver.attempt.phase \in {"claimed", "admitted"} /\ reason = "aborted"
           /\ v = [w EXCEPT !.driver.attempt.cancelled = TRUE]
  <2> DEFINE t == [w.driver.attempt EXCEPT !.cancelled = TRUE]
             d == [w.driver EXCEPT !.attempt = t]
  <2>1. w.driver \in Drivers /\ w.driver.attempt \in Attempts /\ w \in Worlds
    BY Parts
  <2>2. /\ AttemptTyped(t) /\ t.phase = w.driver.attempt.phase /\ t.id = w.driver.attempt.id
        /\ t.ref = w.driver.attempt.ref /\ t.round = w.driver.attempt.round
        /\ t.stale = w.driver.attempt.stale /\ t.cancelled
    BY <1>3, <2>1 DEF AttemptTyped, Attempts
  <2>3. v = [w EXCEPT !.driver = d]
    BY <1>3, <2>1 DEF Worlds, Drivers
  <2> HIDE DEF t, v
  <2>4. /\ DriverTyped(d) /\ d.attempt = t /\ d.needs = w.driver.needs /\ d.run = w.driver.run
        /\ d.requested = w.driver.requested /\ d.life = w.driver.life
    BY <2>1, <2>2 DEF DriverTyped, Drivers, AttemptTyped
  <2> HIDE DEF d
  <2>5. Typed(v) /\ v.goal = w.goal /\ v.agent = w.agent /\ v.driver = d
    BY <2>3, <2>4, PutDriver
  <2> QED
    BY <1>3, <2>2, <2>4, <2>5 DEF Alike, Gone, v
<1> QED
  BY <1>1, <1>2, <1>3, Zenon DEF Heard

\* The end of a turn: the next turn, or an idle agent.
LEMMA EndTurnFollows ==
  ASSUME NEW w, Typed(w), NEW reason
  PROVE  Follows(EndTurn(w, reason), w)
<1> DEFINE v == Heard(w, reason)
           b == [v.agent EXCEPT !.batch = <<>>]
           u == [v EXCEPT !.agent = b]
           x == EndTurn(w, reason)
<1>1. /\ Typed(v) /\ Alike(v, w)
      /\ Driving(v.goal) => v.goal = w.goal
      /\ v.driver.needs = w.driver.needs /\ v.driver.run = w.driver.run
      /\ v.driver.requested = w.driver.requested /\ v.driver.life = w.driver.life
      /\ v.driver.attempt.phase = w.driver.attempt.phase
  BY HeardIs
<1>2. x = IF reason \in {"completed", "max-tokens"} /\ HasPending(v.agent)
            THEN StartTurn(u) ELSE Retire(v)
  BY DEF EndTurn
<1> HIDE DEF v, x
<1>3. v.agent \in Agents
  BY <1>1, Parts
<1>4. b \in Agents /\ b.pc = v.agent.pc /\ b.nextTurn = v.agent.nextTurn
  BY <1>3, EmptySeq DEF Agents
<1> HIDE DEF b
<1>5. Typed(u) /\ u.goal = v.goal /\ u.driver = v.driver /\ u.agent = b
  BY <1>1, <1>4, PutAgent
<1> HIDE DEF u
<1>6. Fit(v) /\ QueueFit(v) => Fit(u) /\ QueueFit(u)
  BY <1>4, <1>5 DEF Fit, QueueFit, Gone
<1>7. Follows(x, u) \/ Follows(x, v)
  BY <1>1, <1>2, <1>5, StartFollows, RetireFollows
<1>8. Follows(x, v)
  BY <1>5, <1>6, <1>7 DEF Follows, Opened, Saved, Settled
<1>9. Fit(w) /\ QueueFit(w) => Fit(v) /\ QueueFit(v)
  BY <1>1, AlikeSound
<1>10. Opened(x, w) /\ (Saved(x, v) => Saved(x, w)) /\ (Settled(w) => Settled(v))
  BY <1>1, <1>8 DEF Follows, Opened, Saved, Settled, Alike
<1> QED
  BY <1>1, <1>8, <1>9, <1>10 DEF Follows, x

-----------------------------------------------------------------------------
(* The pre-step fence and the step                                         *)

\* A world in order, in which nothing is stranded and a driver that is gone
\* remembers no attempt.
Good(w) == Sound(w) /\ Serving(w) /\ (Gone(w) => w.driver.attempt.phase = "none")

\* What a handler makes of w.
Steps(v, w) ==
  /\ Typed(v) /\ v.driver.life = w.driver.life
  /\ Settled(w) => Settled(v)
  /\ Opened(v, w)
  /\ Good(w) => Sound(v) /\ Serving(v) /\ Saved(v, w)

\* What ends a turn is such a handler.
LEMMA FollowsSteps ==
  ASSUME NEW v, NEW w, Follows(v, w)
  PROVE  Steps(v, w)
BY DEF Follows, Steps, Good, Sound

\* The agent goes to another place.
LEMMA PlaceIs ==
  ASSUME NEW w, Typed(w),
         NEW pc \in {"idle", "maintenance", "claimed", "inner", "passing", "decided",
                     "rejected", "stepping"}
  PROVE  LET v == [w EXCEPT !.agent.pc = pc] IN
         /\ Typed(v) /\ v.goal = w.goal /\ v.driver = w.driver /\ v.agent.pc = pc
         /\ v.agent.batch = w.agent.batch /\ v.agent.nextTurn = w.agent.nextTurn
         /\ v.agent.aborted = w.agent.aborted /\ v.agent.nextStep = w.agent.nextStep
         /\ v.agent.passed = w.agent.passed
<1> DEFINE b == [w.agent EXCEPT !.pc = pc]
           v == [w EXCEPT !.agent = b]
<1>1. w.agent \in Agents
  BY Parts
<1>2. /\ b \in Agents /\ b.pc = pc /\ b.batch = w.agent.batch
      /\ b.nextTurn = w.agent.nextTurn /\ b.aborted = w.agent.aborted
      /\ b.nextStep = w.agent.nextStep /\ b.passed = w.agent.passed
  BY <1>1 DEF Agents
<1>3. [w EXCEPT !.agent.pc = pc] = v
  BY Parts DEF Worlds
<1> HIDE DEF b
<1>4. Typed(v) /\ v.goal = w.goal /\ v.driver = w.driver /\ v.agent = b
  BY <1>2, PutAgent
<1> HIDE DEF v
<1> QED
  BY <1>2, <1>3, <1>4

\* What was claimed along with a round goes back to wait for the next step.
LEMMA RestoreAlike ==
  ASSUME NEW w, Typed(w)
  PROVE  /\ Typed(Restore(w)) /\ Alike(Restore(w), w)
         /\ Restore(w).goal = w.goal /\ Restore(w).driver = w.driver
<1> DEFINE v == Restore(w)
<1>1. /\ Typed(v) /\ v.goal = w.goal /\ v.driver = w.driver
      /\ v.agent = [w.agent EXCEPT !.nextStep = v.agent.nextStep] /\ w.agent \in Agents
  BY RestoreIs, Parts
<1> HIDE DEF v
<1>2. /\ v.agent.pc = w.agent.pc /\ v.agent.batch = w.agent.batch
      /\ v.agent.nextTurn = w.agent.nextTurn /\ v.agent.aborted = w.agent.aborted
  BY <1>1 DEF Agents
<1>3. Alike(v, w)
  BY <1>1, <1>2 DEF Alike, Gone
<1> QED
  BY <1>1, <1>3 DEF v

\* The driver rejects the batch of w; x is w with the goal and the attempt after.
LEMMA RejectSteps ==
  ASSUME NEW w, Typed(w), ~Idle(w), NEW x, Typed(x), NEW v,
         \/ v = Rejected(x) /\ (Settled(w) => Settled(x))
         \/ v = Rejected(RequestDrive(x)),
         x.agent.pc = w.agent.pc, x.agent.batch = w.agent.batch,
         x.agent.nextTurn = w.agent.nextTurn, x.driver.run = w.driver.run,
         x.driver.life = w.driver.life,
         w.driver.attempt.phase = "none" => x.driver.attempt.phase = "none",
         Sound(w) => /\ Fit(x) /\ QueueFit(x) /\ w.goal.ref <= x.goal.ref
                     /\ \/ ~Driving(x.goal)
                        \/ /\ x.goal = w.goal /\ x.driver.needs = w.driver.needs
                           /\ \/ w.driver.attempt.phase # "admitted"
                              \/ x.driver.attempt.phase = "admitted"
                              \/ x.driver.life # "active"
  PROVE  Steps(v, w)
<1>1. PICK y : /\ v = Rejected(y) /\ Typed(y)
               /\ y.goal = x.goal /\ y.agent = x.agent /\ y.driver.attempt = x.driver.attempt
               /\ y.driver.life = x.driver.life /\ y.driver.needs = x.driver.needs
               /\ Settled(w) => Settled(y)
               /\ Saved(y, x)
  <2>1. CASE v = Rejected(x) /\ (Settled(w) => Settled(x))
    <3>1. Saved(x, x)
      BY DEF Saved
    <3> QED
      BY <2>1, <3>1
  <2>2. CASE v = Rejected(RequestDrive(x))
    <3>1. Drove(RequestDrive(x), x) /\ ~Idle(x)
      BY RequestDriveDrove DEF Idle
    <3> QED
      BY <2>2, <3>1 DEF Drove
  <2> QED
    BY <2>1, <2>2
<1>2. /\ Typed(v) /\ v.goal = y.goal /\ v.driver = y.driver /\ v.agent.pc = "rejected"
      /\ v.agent.batch = y.agent.batch /\ v.agent.nextTurn = y.agent.nextTurn
  BY <1>1, PlaceIs DEF Rejected
<1>3. (Settled(w) => Settled(v)) /\ Opened(v, w)
  BY <1>1, <1>2 DEF Settled, Opened
<1>4. ASSUME Sound(w)
      PROVE  Sound(v) /\ Serving(v)
  <2>1. Fit(v) /\ QueueFit(v)
    BY <1>1, <1>2, <1>4 DEF Fit, QueueFit, Gone
  <2>2. Quiet(v) /\ Serving(v)
    BY <1>2 DEF Quiet, Serving, Idle
  <2>3. BatchFit(v)
    <3>1. w.agent.batch \in Seq(Messages) /\ w.goal.ref \in Nat /\ x.goal.ref \in Nat
      BY Parts DEF Agents, Goals
    <3>2. ASSUME NEW m \in RoundsIn(w.agent.batch)
          PROVE  m.ref \in Nat /\ m.ref <= x.goal.ref
      <4>1. m.ref \in Nat
        BY <3>1 DEF RoundsIn, IsRound, ToSet, Messages
      <4>2. m.ref <= w.goal.ref /\ w.goal.ref <= x.goal.ref
        BY <1>4 DEF Sound, BatchFit
      <4> QED
        BY <3>1, <4>1, <4>2
    <3> QED
      BY <1>1, <1>2, <1>4, <3>2 DEF Sound, BatchFit
  <2> QED
    BY <2>1, <2>2, <2>3 DEF Sound
<1>5. Sound(w) => Saved(v, w)
  BY <1>1, <1>2 DEF Saved
<1> QED
  BY <1>1, <1>2, <1>3, <1>4, <1>5 DEF Steps, Good

\* The round of a batch.
LEMMA SubmittedIs ==
  ASSUME NEW w, RoundsIn(w.agent.batch) # {}
  PROVE  Submitted(w) \in RoundsIn(w.agent.batch)
BY DEF Submitted, RoundsIn

\* The driver's first check.
LEMMA FenceSteps ==
  ASSUME NEW w, Typed(w), w.agent.pc = "claimed", ~Gone(w), RoundsIn(w.agent.batch) # {}
  PROVE  Steps(Fence(w), w)
<1> DEFINE m == Submitted(w)
           t == w.driver.attempt
           v == Fence(w)
<1>1. m \in RoundsIn(w.agent.batch)
  BY SubmittedIs
<1>2. CASE ValidReservation(w)
  <2>1. v = [w EXCEPT !.agent.pc = "inner"]
    BY <1>2 DEF Fence
  <2> HIDE DEF v
  <2>2. /\ Typed(v) /\ v.goal = w.goal /\ v.driver = w.driver /\ v.agent.pc = "inner"
        /\ v.agent.batch = w.agent.batch /\ v.agent.nextTurn = w.agent.nextTurn
    BY <2>1, PlaceIs
  <2>3. t.phase = "claimed"
    BY <1>2 DEF ValidReservation
  <2>4. Sound(w) => Fit(v) /\ Quiet(v) /\ QueueFit(v)
    BY <2>2 DEF Sound, Fit, Quiet, QueueFit, Idle, Gone
  <2>5. Sound(w) => BatchFit(v)
    BY <1>1, <2>2, <2>3 DEF Sound, BatchFit, Gone
  <2> QED
    BY <2>2, <2>4, <2>5 DEF Steps, Sound, Good, Settled, Opened, Saved, Serving, v
<1>3. CASE ~ValidReservation(w)
  <2> DEFINE r == IF Matches(m, t) THEN Dropped(w) ELSE w
             x == Restore(r)
  <2>1. v = Rejected(RequestDrive(x))
    BY <1>3 DEF Fence
  <2> HIDE DEF v
  <2>2. /\ Typed(r) /\ r.goal = w.goal /\ r.agent = w.agent /\ r.driver.life = w.driver.life
        /\ r.driver.run = w.driver.run /\ r.driver.needs = w.driver.needs
        /\ r.driver.requested = w.driver.requested
        /\ t.phase = "none" => r.driver.attempt.phase = "none"
    BY DroppedSound DEF NoAttempt
  <2>3. Matches(m, t) /\ Sound(w) => t.phase = "claimed"
    BY <1>1 DEF Matches, Sound, BatchFit
  <2>4. Sound(w) => /\ Fit(r) /\ QueueFit(r)
                    /\ t.phase # "admitted" \/ r.driver.attempt.phase = "admitted"
    BY <2>3, DroppedSound DEF Sound
  <2> HIDE DEF r
  <2>5. Typed(x) /\ Alike(x, r) /\ x.goal = r.goal /\ x.driver = r.driver
    BY <2>2, RestoreAlike
  <2> HIDE DEF x
  <2>6. Fit(r) /\ QueueFit(r) => Fit(x) /\ QueueFit(x)
    BY <2>5, AlikeSound
  <2>7. w.goal.ref <= w.goal.ref /\ ~Idle(w)
    BY Parts DEF Goals, Idle
  <2> QED
    BY <2>1, <2>2, <2>4, <2>5, <2>6, <2>7, RejectSteps DEF Alike, v
<1> QED
  BY <1>2, <1>3

\* The second check: what it accepts is what the goal expects.
LEMMA RecheckSteps ==
  ASSUME NEW w, Typed(w), w.agent.pc = "inner"
  PROVE  Steps(Recheck(w), w)
<1> DEFINE m == Submitted(w)
           t == w.driver.attempt
           v == Recheck(w)
<1>1. CASE w.agent.aborted
  <2> DEFINE x == Restore(w)
  <2>1. v = [x EXCEPT !.agent.pc = "decided"]
    BY <1>1 DEF Recheck
  <2> HIDE DEF v
  <2>2. Typed(x) /\ Alike(x, w) /\ x.goal = w.goal /\ x.driver = w.driver
    BY RestoreAlike
  <2> HIDE DEF x
  <2>3. /\ Typed(v) /\ v.goal = x.goal /\ v.driver = x.driver /\ v.agent.pc = "decided"
        /\ v.agent.batch = x.agent.batch /\ v.agent.nextTurn = x.agent.nextTurn
        /\ v.agent.aborted = x.agent.aborted
    BY <2>1, <2>2, PlaceIs
  <2>4. Sound(w) => Sound(x)
    BY <2>2, AlikeSound
  <2>5. Sound(x) => Fit(v) /\ Quiet(v) /\ QueueFit(v)
    BY <2>3 DEF Sound, Fit, Quiet, QueueFit, Idle, Gone
  <2>6. Sound(x) => BatchFit(v)
    BY <1>1, <2>2, <2>3 DEF Sound, BatchFit, Gone, Alike
  <2> QED
    BY <2>2, <2>3, <2>4, <2>5, <2>6 DEF Steps, Sound, Good, Settled, Opened, Saved, Serving, v
<1>2. CASE ~w.agent.aborted /\ ValidReservation(w)
  <2>1. v = [w EXCEPT !.agent.pc = "decided"]
    BY <1>2 DEF Recheck
  <2> HIDE DEF v
  <2>2. /\ Typed(v) /\ v.goal = w.goal /\ v.driver = w.driver /\ v.agent.pc = "decided"
        /\ v.agent.batch = w.agent.batch /\ v.agent.nextTurn = w.agent.nextTurn
    BY <2>1, PlaceIs
  <2>3. Sound(w) => Fit(v) /\ Quiet(v) /\ QueueFit(v)
    BY <2>2 DEF Sound, Fit, Quiet, QueueFit, Idle, Gone
  <2>4. ASSUME Sound(w), NEW k \in RoundsIn(w.agent.batch)
        PROVE  Accepts(w.goal, k) /\ t.phase # "none" /\ k.ref = t.ref
    <3>1. RoundsIn(w.agent.batch) # {}
      BY <2>4
    <3>2. k = m
      BY <2>4, <3>1, SubmittedIs DEF Sound, BatchFit
    <3>3. /\ Driving(w.goal) /\ m.ref = w.goal.ref /\ m.round = w.goal.rounds + 1
          /\ Matches(m, t)
      BY <1>2 DEF ValidReservation
    <3>4. t.ref = w.goal.ref /\ m.round = t.round /\ t.phase # "none" /\ m.ref = t.ref
      BY <3>3 DEF Matches
    <3>5. t.round <= w.goal.max
      BY <2>4, <3>4 DEF Sound, Fit
    <3> QED
      BY <3>2, <3>3, <3>4, <3>5 DEF Accepts, Driving
  <2>5. Sound(w) => BatchFit(v)
    BY <2>2, <2>4 DEF Sound, BatchFit, Gone
  <2> QED
    BY <2>2, <2>3, <2>5 DEF Steps, Sound, Good, Settled, Opened, Saved, Serving, v
<1>3. CASE ~w.agent.aborted /\ ~ValidReservation(w)
  <2> DEFINE r == Dropped(w)
             x == Restore(r)
  <2>1. v = Rejected(RequestDrive(x))
    BY <1>3 DEF Recheck
  <2> HIDE DEF v
  <2>2. /\ Typed(r) /\ r.goal = w.goal /\ r.agent = w.agent /\ r.driver.life = w.driver.life
        /\ r.driver.run = w.driver.run /\ r.driver.needs = w.driver.needs
        /\ r.driver.requested = w.driver.requested /\ r.driver.attempt.phase = "none"
    BY DroppedSound DEF NoAttempt
  <2>3. Sound(w) => t.phase = "claimed" \/ Gone(w)
    BY DEF Sound, BatchFit
  <2>4. Sound(w) => /\ Fit(r) /\ QueueFit(r)
                    /\ t.phase # "admitted" \/ r.driver.life # "active"
    BY <2>2, <2>3, DroppedSound DEF Sound, Gone
  <2> HIDE DEF r
  <2>5. Typed(x) /\ Alike(x, r) /\ x.goal = r.goal /\ x.driver = r.driver
    BY <2>2, RestoreAlike
  <2> HIDE DEF x
  <2>6. Fit(r) /\ QueueFit(r) => Fit(x) /\ QueueFit(x)
    BY <2>5, AlikeSound
  <2>7. w.goal.ref <= w.goal.ref /\ ~Idle(w)
    BY Parts DEF Goals, Idle
  <2> QED
    BY <2>1, <2>2, <2>4, <2>5, <2>6, <2>7, RejectSteps DEF Alike, v
<1> QED
  BY <1>1, <1>2, <1>3

\* The listeners inside the driver's reject.
LEMMA VetoSteps ==
  ASSUME NEW w, Typed(w), w.agent.pc = "inner"
  PROVE  Steps(Veto(w), w)
<1> DEFINE t == w.driver.attempt
           r == Dropped(w)
           s == Stopped(r, "blocked")
           v == Veto(w)
<1>1. v = Rejected(w) \/ v = Rejected(r) \/ v = Rejected(RequestDrive(s))
  BY DEF Veto
<1> HIDE DEF v
<1>2. /\ Typed(r) /\ r.goal = w.goal /\ r.agent = w.agent /\ r.driver.life = w.driver.life
      /\ r.driver.run = w.driver.run /\ r.driver.needs = w.driver.needs
      /\ r.driver.requested = w.driver.requested /\ r.driver.attempt.phase = "none"
  BY DroppedSound DEF NoAttempt
<1>3. Sound(w) => t.phase = "claimed" \/ Gone(w)
  BY DEF Sound, BatchFit
<1>4. Sound(w) => /\ Fit(r) /\ QueueFit(r)
                  /\ t.phase # "admitted" \/ r.driver.life # "active"
  BY <1>2, <1>3, DroppedSound DEF Sound, Gone
<1> HIDE DEF r
<1>5. w.goal.ref <= w.goal.ref /\ ~Idle(w) /\ w.goal.ref <= w.goal.ref + 1
  BY Parts DEF Goals, Idle
<1>6. CASE v = Rejected(w)
  <2>1. Sound(w) => Fit(w) /\ QueueFit(w)
    BY DEF Sound
  <2> QED
    BY <1>5, <1>6, <2>1, RejectSteps DEF v
<1>7. CASE v = Rejected(r)
  <2>1. Settled(w) => Settled(r)
    BY <1>2 DEF Settled
  <2> QED
    BY <1>2, <1>4, <1>5, <1>7, <2>1, RejectSteps DEF v
<1>8. CASE v = Rejected(RequestDrive(s))
  <2>1. /\ Typed(s) /\ s.agent = r.agent /\ ~Driving(s.goal) /\ s.driver.attempt = r.driver.attempt
        /\ s.driver.life = r.driver.life /\ s.driver.run = r.driver.run /\ s.driver.needs
        /\ s.driver.requested = r.driver.requested /\ s.goal.ref = r.goal.ref + 1
        /\ Fit(r) /\ QueueFit(r) => Fit(s) /\ QueueFit(s)
    BY <1>2, StoppedSound, StoppedIs
  <2> HIDE DEF s
  <2> QED
    BY <1>2, <1>4, <1>5, <1>8, <2>1, RejectSteps DEF v
<1> QED
  BY <1>1, <1>6, <1>7, <1>8

\* They throw: the turn ends.
LEMMA ThrownSteps ==
  ASSUME NEW w, Typed(w), w.agent.pc = "inner"
  PROVE  Steps(Thrown(w), w)
<1> DEFINE x == Dropped(w)
           y == RequestDrive(x)
           v == EndTurn(y, "error")
<1>1. CASE w.agent.aborted
  BY <1>1, EndTurnFollows, FollowsSteps DEF Thrown
<1>2. CASE ~w.agent.aborted
  <2>1. Thrown(w) = v
    BY <1>2 DEF Thrown
  <2>2. /\ Typed(x) /\ x.goal = w.goal /\ x.agent = w.agent /\ x.driver.life = w.driver.life
        /\ x.driver.run = w.driver.run /\ x.driver.needs = w.driver.needs
        /\ x.driver.attempt.phase = "none"
    BY DroppedSound DEF NoAttempt
  <2>3. Sound(w) => w.driver.attempt.phase = "claimed" \/ Gone(w)
    BY DEF Sound, BatchFit
  <2>4. Sound(w) => /\ Fit(x) /\ QueueFit(x)
                    /\ w.driver.attempt.phase # "admitted" \/ x.driver.life # "active"
    BY <2>2, <2>3, DroppedSound DEF Sound, Gone
  <2> HIDE DEF x
  <2>5. Drove(y, x) /\ (x.driver.run = "flushing" => y.driver.run = "flushing") /\ ~Idle(x)
    BY <2>2, RequestDriveDrove, RequestDriveFlushes DEF Idle
  <2> HIDE DEF y
  <2>6. /\ Typed(y) /\ y.goal = x.goal /\ y.agent = x.agent /\ y.driver.attempt = x.driver.attempt
        /\ y.driver.life = x.driver.life /\ Settled(y) /\ Saved(y, x)
    BY <2>5 DEF Drove
  <2>7. Alike(y, x)
    BY <2>6 DEF Alike, Gone
  <2>8. Fit(x) /\ QueueFit(x) => Fit(y) /\ QueueFit(y)
    BY <2>7, AlikeSound
  <2>9. Follows(v, y)
    BY <2>6, EndTurnFollows
  <2> HIDE DEF v
  <2>10. Opened(v, w)
    <3>1. y.driver.attempt.phase = "none"
      BY <2>2, <2>6
    <3>2. v.driver.attempt.phase # "none" => /\ y.driver.life = "active" /\ Driving(y.goal)
                                             /\ ~y.driver.needs /\ v.goal = y.goal
                                             /\ v.driver.run # "flushing"
      BY <2>9, <3>1 DEF Follows, Opened
    <3>3. ~y.driver.needs => ~w.driver.needs
      BY <2>2, <2>5 DEF Drove
    <3> QED
      BY <2>2, <2>6, <3>2, <3>3 DEF Opened
  <2>11. Sound(w) => Saved(v, w)
    BY <2>2, <2>4, <2>5, <2>6, <2>8, <2>9 DEF Follows, Saved
  <2> QED
    BY <2>1, <2>2, <2>4, <2>6, <2>8, <2>9, <2>10, <2>11 DEF Follows, Steps, Good
<1> QED
  BY <1>1, <1>2

\* The batch enters a step.
LEMMA EnteredSteps ==
  ASSUME NEW w, Typed(w), w.agent.pc = "decided", ~w.agent.aborted
  PROVE  LET v == Entered(w) IN
         /\ Steps(v, w)
         /\ v.goal.ref = w.goal.ref /\ (Driving(v.goal) <=> Driving(w.goal))
         /\ v.driver.life = w.driver.life
         /\ v.driver.attempt.ref = w.driver.attempt.ref
         /\ v.driver.attempt.round = w.driver.attempt.round
         /\ v.driver.attempt.cancelled = w.driver.attempt.cancelled
         /\ v.driver.attempt.stale = w.driver.attempt.stale
         /\ v.driver.attempt.phase = "none" <=> w.driver.attempt.phase = "none"
         /\ v.agent.pc = "stepping" /\ v.agent.batch = <<>>
         /\ v.agent.nextStep = w.agent.nextStep /\ v.agent.nextTurn = w.agent.nextTurn
         /\ v.agent.passed = w.agent.passed
<1> DEFINE t == w.driver.attempt
           rounds == RoundsIn(w.agent.batch)
           fits == \A m \in rounds : Accepts(w.goal, m)
           ours == \E m \in rounds : m.id = t.id
           g == [w.goal EXCEPT !.rounds = IF rounds # {} /\ fits THEN @ + 1 ELSE @,
                               !.broken = @ \/ ~fits]
           s == [t EXCEPT !.phase = IF ours THEN "admitted" ELSE @]
           d == [w.driver EXCEPT !.attempt = s]
           b == [w.agent EXCEPT !.pc = "stepping", !.batch = <<>>]
           u == [w EXCEPT !.goal = g]
           x == [u EXCEPT !.driver = d]
           v == Entered(w)
<1>1. /\ w \in Worlds /\ w.goal \in Goals /\ GoalTyped(w.goal) /\ w.driver \in Drivers
      /\ AttemptTyped(t) /\ t \in Attempts /\ w.agent \in Agents
      /\ w.agent.batch \in Seq(Messages)
  BY Parts DEF Agents
<1>2. v = [x EXCEPT !.agent = b]
  BY <1>1 DEF Entered, Worlds, Agents, Drivers, Goals, RoundsIn
<1>3. \A m \in rounds : m.id \in Nat \ {0} /\ m.round \in Nat
  BY <1>1, GoalRoundsAssumption DEF RoundsIn, IsRound, ToSet, Messages
<1>4. rounds # {} /\ fits => w.goal.rounds + 1 <= w.goal.max
  <2> HIDE DEF rounds
  <2> QED
    BY <1>1, <1>3 DEF Accepts, Goals
<1>5. ours => t.phase # "none"
  BY <1>1, <1>3 DEF AttemptTyped
<1> HIDE DEF fits, rounds, ours, v
<1>6. /\ GoalTyped(g) /\ g.phase = w.goal.phase /\ g.ref = w.goal.ref /\ g.max = w.goal.max
      /\ g.armed = w.goal.armed /\ g.broken = (w.goal.broken \/ ~fits)
      /\ rounds = {} \/ ~fits => g.rounds = w.goal.rounds
  <2>1. PICK n \in 0..MaxRounds : n = IF rounds # {} /\ fits THEN w.goal.rounds + 1
                                                           ELSE w.goal.rounds
    <3>1. w.goal.rounds \in 0..MaxRounds /\ w.goal.max \in 1..MaxRounds /\ MaxRounds \in Nat
      BY <1>1, GoalRoundsAssumption DEF Goals
    <3>2. rounds # {} /\ fits => w.goal.rounds + 1 \in 0..MaxRounds
      BY <1>4, <3>1
    <3> QED
      BY <3>1, <3>2
  <2>2. PICK c \in BOOLEAN : c = (w.goal.broken \/ ~fits)
    OBVIOUS
  <2>3. g = [w.goal EXCEPT !.rounds = n, !.broken = c]
    BY <1>1, <2>1, <2>2 DEF Goals
  <2> HIDE DEF g
  <2> QED
    BY <1>1, <2>1, <2>2, <2>3 DEF GoalTyped, Goals
<1>7. /\ AttemptTyped(s) /\ s.id = t.id /\ s.ref = t.ref /\ s.round = t.round
      /\ s.cancelled = t.cancelled /\ s.stale = t.stale
      /\ s.phase = IF ours THEN "admitted" ELSE t.phase
  BY <1>1, <1>5 DEF AttemptTyped, Attempts
<1> HIDE DEF g, s
<1>8. /\ DriverTyped(d) /\ d.attempt = s /\ d.life = w.driver.life /\ d.needs = w.driver.needs
      /\ d.run = w.driver.run /\ d.requested = w.driver.requested
  BY <1>1, <1>7 DEF DriverTyped, Drivers, AttemptTyped
<1>9. /\ b \in Agents /\ b.pc = "stepping" /\ b.batch = <<>> /\ b.nextTurn = w.agent.nextTurn
      /\ b.nextStep = w.agent.nextStep /\ b.passed = w.agent.passed
  BY <1>1, EmptySeq DEF Agents
<1> HIDE DEF b, d
<1>10. Typed(u) /\ u.goal = g /\ u.driver = w.driver /\ u.agent = w.agent
  BY <1>6, PutGoal
<1> HIDE DEF u
<1>11. Typed(x) /\ x.goal = g /\ x.driver = d
  BY <1>8, <1>10, PutDriver
<1> HIDE DEF x
<1>12. Typed(v) /\ v.goal = g /\ v.driver = d /\ v.agent = b
  BY <1>2, <1>9, <1>11, PutAgent
<1>13. Settled(w) => Settled(v)
  BY <1>8, <1>12 DEF Settled
<1>14. Opened(v, w)
  BY <1>5, <1>7, <1>8, <1>12 DEF Opened
<1>15. ASSUME Good(w)
       PROVE  Sound(v) /\ Saved(v, w)
  <2>1. ~Gone(w) => fits /\ \A m \in rounds : t.phase # "none" /\ m.ref = t.ref /\ Bears(t, m)
    BY <1>15 DEF Good, Sound, BatchFit, fits, rounds
  <2>2. ASSUME NEW k \in RoundsIn(w.agent.nextTurn), t.phase # "none", k.ref = t.ref
        PROVE  ~ours
    <3>1. ~Gone(w)
      BY <1>15, <2>2 DEF Good
    <3>2. \A m \in rounds : m.ref # k.ref
      BY <1>15, <2>2 DEF Good, Sound, BatchFit, rounds
    <3> QED
      BY <2>1, <2>2, <3>1, <3>2 DEF ours
  <2>3. Fit(v)
    BY <1>6, <1>7, <1>8, <1>9, <1>12, <1>15, <2>1 DEF Good, Sound, Fit, Gone
  <2>4. QueueFit(v)
    <3>1. Driving(g) <=> Driving(w.goal)
      BY <1>6 DEF Driving
    <3> QED
      BY <1>5, <1>6, <1>7, <1>8, <1>9, <1>12, <1>15, <2>2, <3>1
         DEF Good, Sound, QueueFit, Gone, Bears
  <2>5. BatchFit(v) /\ Quiet(v)
    BY <1>9, <1>12, EmptyBatch DEF Quiet, Idle
  <2>6. Saved(v, w)
    <3>1. w.driver.life = "active" => ~Gone(w)
      BY DEF Gone
    <3>2. CASE rounds = {} /\ ~Gone(w)
      <4>1. g.rounds = w.goal.rounds /\ g.broken = w.goal.broken /\ g \in Goals
        BY <1>1, <1>6, <2>1, <3>2 DEF GoalTyped, Goals
      <4>2. g = w.goal
        BY <1>1, <1>6, <4>1 DEF Goals
      <4> QED
        BY <1>7, <1>8, <1>12, <4>2 DEF Saved
    <3>3. CASE rounds # {} /\ ~Gone(w)
      <4>1. ours
        BY <2>1, <3>3 DEF ours, Bears
      <4> QED
        BY <1>7, <1>8, <1>12, <4>1 DEF Saved
    <3> QED
      BY <1>8, <1>12, <3>1, <3>2, <3>3 DEF Saved
  <2> QED
    BY <2>3, <2>4, <2>5, <2>6 DEF Sound
<1> QED
  BY <1>5, <1>6, <1>7, <1>8, <1>9, <1>12, <1>13, <1>14, <1>15 DEF Steps, Serving, Driving, v

\* cancel.
LEMMA CancelledIs ==
  ASSUME NEW w, Typed(w)
  PROVE  LET v == Cancelled(w) IN
         /\ Typed(v) /\ v.goal = w.goal /\ v.agent.pc = w.agent.pc
         /\ v.driver.life = w.driver.life /\ v.driver.needs = w.driver.needs
         /\ v.driver.run = w.driver.run /\ v.driver.requested = w.driver.requested
         /\ v.driver.competing = w.driver.competing
         /\ v.driver.attempt.phase = w.driver.attempt.phase
         /\ v.driver.attempt.ref = w.driver.attempt.ref
         /\ v.driver.attempt.stale = w.driver.attempt.stale
         /\ v.driver.attempt.cancelled =>
              \/ w.driver.attempt.cancelled
              \/ \E m \in Inbox(w.agent) : Matches(m, w.driver.attempt)
         /\ v.agent.batch = w.agent.batch /\ v.agent.passed = w.agent.passed
         /\ v.agent.nextStep = <<>> /\ v.agent.nextTurn = <<>>
         /\ w.agent.pc # "idle" => v.agent.aborted
         /\ Fit(w) => Fit(v)
         /\ Quiet(w) => Quiet(v)
         /\ QueueFit(v)
         /\ BatchFit(w) => BatchFit(v)
<1> DEFINE t == w.driver.attempt
           ours == \E m \in Inbox(w.agent) : Matches(m, t)
           s == [t EXCEPT !.cancelled = @ \/ ours]
           d == [w.driver EXCEPT !.attempt = s]
           b == [w.agent EXCEPT !.nextStep = <<>>, !.nextTurn = <<>>, !.latch = FALSE,
                                !.aborted = w.agent.pc # "idle"]
           u == [w EXCEPT !.agent = b]
           v == Cancelled(w)
<1>1. /\ w \in Worlds /\ w.driver \in Drivers /\ AttemptTyped(t) /\ t \in Attempts
      /\ w.agent \in Agents
  BY Parts
<1>2. v = [u EXCEPT !.driver = d]
  BY <1>1 DEF Cancelled, Worlds, Agents, Drivers
<1>3. ours => t.phase # "none"
  BY DEF Matches
<1> HIDE DEF ours, v
<1>4. /\ AttemptTyped(s) /\ s.id = t.id /\ s.ref = t.ref /\ s.round = t.round
      /\ s.phase = t.phase /\ s.stale = t.stale /\ (s.cancelled => t.cancelled \/ ours)
  <2>1. PICK c \in BOOLEAN : c = (t.cancelled \/ ours)
    OBVIOUS
  <2>2. s = [t EXCEPT !.cancelled = c]
    BY <2>1
  <2>3. t.phase = "none" => ~c
    BY <1>1, <1>3, <2>1 DEF AttemptTyped
  <2> HIDE DEF s
  <2> QED
    BY <1>1, <2>1, <2>2, <2>3 DEF AttemptTyped, Attempts
<1> HIDE DEF s
<1>5. /\ DriverTyped(d) /\ d.attempt = s /\ d.life = w.driver.life /\ d.needs = w.driver.needs
      /\ d.run = w.driver.run /\ d.requested = w.driver.requested
      /\ d.competing = w.driver.competing
  BY <1>1, <1>4 DEF DriverTyped, Drivers, AttemptTyped
<1>6. /\ b \in Agents /\ b.pc = w.agent.pc /\ b.batch = w.agent.batch /\ b.nextTurn = <<>>
      /\ b.nextStep = <<>> /\ b.passed = w.agent.passed /\ (w.agent.pc # "idle" => b.aborted)
  <2>1. PICK c \in BOOLEAN : c = (w.agent.pc # "idle")
    OBVIOUS
  <2>2. b = [w.agent EXCEPT !.nextStep = <<>>, !.nextTurn = <<>>, !.latch = FALSE, !.aborted = c]
    BY <2>1
  <2> HIDE DEF b
  <2> QED
    BY <1>1, <2>1, <2>2, EmptySeq DEF Agents
<1> HIDE DEF b, d
<1>7. Typed(u) /\ u.goal = w.goal /\ u.agent = b
  BY <1>6, PutAgent
<1> HIDE DEF u
<1>8. Typed(v) /\ v.goal = w.goal /\ v.driver = d /\ v.agent = b
  BY <1>2, <1>5, <1>7, PutDriver
<1>9. Fit(w) => Fit(v)
  BY <1>4, <1>5, <1>6, <1>8 DEF Fit, Gone
<1>10. Quiet(w) => Quiet(v)
  BY <1>4, <1>5, <1>6, <1>8 DEF Quiet, Idle, Gone
<1>11. QueueFit(v)
  BY <1>6, <1>8 DEF QueueFit, RoundsIn, ToSet
<1>12. BatchFit(w) => BatchFit(v)
  <2>1. RoundsIn(v.agent.nextTurn) = {}
    BY <1>6, <1>8 DEF RoundsIn, ToSet
  <2> QED
    BY <1>4, <1>5, <1>6, <1>8, <2>1 DEF BatchFit, Gone, Bears
<1> QED
  BY <1>4, <1>5, <1>6, <1>8, <1>9, <1>10, <1>11, <1>12 DEF v, ours

-----------------------------------------------------------------------------
(* Sends, wakes and claims                                                 *)

\* v differs from w in the inbox, the batch or the flags of the attempt.
Near(v, w) ==
  /\ Typed(v) /\ v.goal = w.goal /\ v.agent.pc = w.agent.pc
  /\ v.driver.needs = w.driver.needs /\ v.driver.requested = w.driver.requested
  /\ v.driver.run = w.driver.run /\ v.driver.life = w.driver.life
  /\ w.driver.competing => v.driver.competing
  /\ v.driver.attempt.phase = w.driver.attempt.phase

\* Such a change, and a wake behind it, keep the world in order.
LEMMA NearSteps ==
  ASSUME NEW v, NEW w, Near(v, w), Sound(w) => Sound(v)
  PROVE  Steps(v, w) /\ Steps(Wake(v), w)
<1> DEFINE x == Wake(v)
<1>1. Steps(v, w)
  BY DEF Near, Steps, Good, Settled, Opened, Saved, Serving
<1>2. /\ Typed(x) /\ Steady(x, v)
      /\ x.agent.pc = IF v.agent.pc = "idle" THEN "claimed" ELSE v.agent.pc
      /\ v.agent.pc = "idle" /\ Fit(v) /\ QueueFit(v) =>
           /\ Sound(x)
           /\ v.driver.attempt.phase = "admitted" => x.driver.attempt.phase = "admitted"
      /\ v.agent.pc # "idle" => Alike(x, v) /\ x.driver = v.driver
  BY WakeIs DEF Near
<1> HIDE DEF x
<1>3. Sound(v) => Sound(x) /\ (v.driver.attempt.phase = "admitted" => x.driver.attempt.phase = "admitted")
  BY <1>2, AlikeSound DEF Sound
<1>4. Steps(x, w)
  BY <1>2, <1>3 DEF Near, Steps, Good, Settled, Opened, Saved, Serving, Steady
<1> QED
  BY <1>1, <1>4 DEF x

\* The inbox takes what people send, and its rounds are as before.
LEMMA SentNear ==
  ASSUME NEW w, Typed(w), NEW h \in Humans
  PROVE  /\ LET v == Compete([w EXCEPT !.agent.nextTurn = Append(@, h)])
            IN  Near(v, w) /\ (Sound(w) => Sound(v))
         /\ LET v == [w EXCEPT !.agent.nextStep = Append(@, h)]
            IN  Near(v, w) /\ (Sound(w) => Sound(v))
<1>1. /\ w \in Worlds /\ w.agent \in Agents /\ w.agent.nextStep \in Seq(Humans)
      /\ w.agent.nextTurn \in Seq(Messages)
  BY Parts DEF Agents
<1>2. LET v == [w EXCEPT !.agent.nextStep = Append(@, h)]
      IN  Near(v, w) /\ (Sound(w) => Sound(v))
  <2> DEFINE longer == Append(w.agent.nextStep, h)
             b == [w.agent EXCEPT !.nextStep = longer]
             v == [w EXCEPT !.agent = b]
  <2>1. [w EXCEPT !.agent.nextStep = Append(@, h)] = v
    BY <1>1 DEF Worlds
  <2>2. longer \in Seq(Humans)
    BY <1>1
  <2> HIDE DEF longer
  <2>3. /\ b \in Agents /\ b.pc = w.agent.pc /\ b.batch = w.agent.batch
        /\ b.nextTurn = w.agent.nextTurn /\ b.aborted = w.agent.aborted
    BY <1>1, <2>2 DEF Agents
  <2> HIDE DEF b
  <2>4. Typed(v) /\ v.goal = w.goal /\ v.driver = w.driver /\ v.agent = b
    BY <2>3, PutAgent
  <2> HIDE DEF v
  <2>5. Near(v, w) /\ Alike(v, w)
    BY <2>3, <2>4 DEF Near, Alike, Gone
  <2> QED
    BY <2>1, <2>5, AlikeSound
<1>3. LET v == Compete([w EXCEPT !.agent.nextTurn = Append(@, h)])
      IN  Near(v, w) /\ (Sound(w) => Sound(v))
  <2> DEFINE next == w.agent.nextTurn
             longer == Append(next, h)
             b == [w.agent EXCEPT !.nextTurn = longer]
             u == [w EXCEPT !.agent = b]
             v == Compete(u)
  <2>1. Compete([w EXCEPT !.agent.nextTurn = Append(@, h)]) = v
    BY <1>1 DEF Worlds
  <2>2. /\ longer \in Seq(Messages) /\ Len(longer) = Len(next) + 1 /\ Len(next) \in Nat
        /\ longer[Len(next) + 1] = h /\ \A i \in 1..Len(next) : longer[i] = next[i]
    BY <1>1 DEF Messages
  <2>3. ASSUME NEW i \in DOMAIN longer, IsRound(longer[i])
        PROVE  i \in DOMAIN next /\ longer[i] = next[i]
    BY <1>1, <2>2, <2>3 DEF IsRound
  <2> HIDE DEF longer
  <2>4. /\ b \in Agents /\ b.pc = w.agent.pc /\ b.batch = w.agent.batch
        /\ b.nextTurn = longer /\ b.aborted = w.agent.aborted
    BY <1>1, <2>2 DEF Agents
  <2> HIDE DEF b
  <2>5. Typed(u) /\ u.goal = w.goal /\ u.driver = w.driver /\ u.agent = b
    BY <2>4, PutAgent
  <2> HIDE DEF u
  <2>6. /\ Typed(v) /\ v.goal = u.goal /\ v.agent = u.agent /\ v.driver.competing
        /\ v.driver.needs = u.driver.needs /\ v.driver.requested = u.driver.requested
        /\ v.driver.run = u.driver.run /\ v.driver.life = u.driver.life
        /\ v.driver.attempt.phase = u.driver.attempt.phase
        /\ v.driver.attempt.id = u.driver.attempt.id
        /\ v.driver.attempt.ref = u.driver.attempt.ref
        /\ v.driver.attempt.round = u.driver.attempt.round
    BY <2>5, CompeteIs
  <2> HIDE DEF v
  <2>7. \A m \in RoundsIn(longer) : m \in RoundsIn(next)
    BY <2>3 DEF RoundsIn, ToSet
  <2>8. Sound(w) => Fit(v) /\ Quiet(v)
    BY <2>4, <2>5, <2>6 DEF Sound, Fit, Quiet, Idle, Gone
  <2>9. Sound(w) => QueueFit(v)
    <3>1. Sound(w) => \A i, j \in DOMAIN longer : IsRound(longer[i]) /\ IsRound(longer[j])
                        /\ longer[i].ref = longer[j].ref => i = j
      BY <2>3 DEF Sound, QueueFit
    <3> QED
      BY <2>4, <2>5, <2>6, <2>7, <3>1 DEF Sound, QueueFit, Gone, Bears
  <2>10. Sound(w) => BatchFit(v)
    BY <2>4, <2>5, <2>6, <2>7 DEF Sound, BatchFit, Gone, Bears
  <2> QED
    BY <2>1, <2>4, <2>5, <2>6, <2>8, <2>9, <2>10 DEF Near, Sound
<1> QED
  BY <1>2, <1>3

\* A wake behind an aborted activity is for its end.
LEMMA LatchNear ==
  ASSUME NEW w, Typed(w), NEW v, Near(v, w), Sound(w) => Sound(v)
  PROVE  LET x == [v EXCEPT !.agent.latch = TRUE]
         IN  Near(x, w) /\ (Sound(w) => Sound(x))
<1> DEFINE b == [v.agent EXCEPT !.latch = TRUE]
           x == [v EXCEPT !.agent = b]
<1>1. Typed(v) /\ v \in Worlds /\ v.agent \in Agents
  BY Parts DEF Near
<1>2. [v EXCEPT !.agent.latch = TRUE] = x
  BY <1>1 DEF Worlds
<1>3. /\ b \in Agents /\ b.pc = v.agent.pc /\ b.batch = v.agent.batch
      /\ b.nextTurn = v.agent.nextTurn /\ b.aborted = v.agent.aborted
  BY <1>1 DEF Agents
<1> HIDE DEF b
<1>4. Typed(x) /\ x.goal = v.goal /\ x.driver = v.driver /\ x.agent = b
  BY <1>1, <1>3, PutAgent
<1> HIDE DEF x
<1>5. Alike(x, v) /\ Near(x, w)
  BY <1>3, <1>4 DEF Near, Alike, Gone
<1> QED
  BY <1>2, <1>5, AlikeSound

\* A step claims what was steered.
LEMMA ClaimSteps ==
  ASSUME NEW w, Typed(w)
  PROVE  Steps(Claim(w, 0), w)
<1> DEFINE v == Claim(w, 0)
<1>1. Typed(v) /\ Steady(v, w) /\ v.agent.pc = "claimed"
  BY ClaimIs
<1>2. Fit(w) /\ QueueFit(w) =>
        /\ Sound(v)
        /\ w.driver.attempt.phase = "admitted" => v.driver.attempt.phase = "admitted"
  BY ClaimSound
<1> HIDE DEF v
<1> QED
  BY <1>1, <1>2 DEF Steps, Good, Sound, Settled, Opened, Saved, Serving, Steady, v

-----------------------------------------------------------------------------
(* What an action makes of the world                                       *)

\* The instances the invariants are for: no listener runs around the driver's, and
\* maintenance does not coincide with an armed goal.
Apart == ~OuterListeners /\ ~Overlaps

\* The next world is v, and in order if the present one is.
Makes(v) ==
  /\ Becomes(v) /\ Typed(v)
  /\ Opened(v, World)
  /\ Gone(v) => Gone(World) \/ v.goal = goal
  /\ v.driver.life = "active" => driver.life = "active"
  /\ Apart /\ Good(World) /\ Settled(World) =>
       Sound(v) /\ Serving(v) /\ Saved(v, World) /\ Settled(v)

\* An action that is one handler.
LEMMA StepsMakes ==
  ASSUME NEW v, Becomes(v), Steps(v, World)
  PROVE  Makes(v)
BY DEF Makes, Steps, Gone, World

\* The parts of the world.
LEMMA WorldIs == World.goal = goal /\ World.driver = driver /\ World.agent = agent
BY DEF World

\* send, with or without a wake, in and after an activity.
LEMMA SendMakes ==
  ASSUME Typed(World), NEW h \in Humans, NEW target, NEW wakeup \in BOOLEAN,
         Send(h, target, wakeup)
  PROVE  \E v : Makes(v)
<1> DEFINE afterAbort == wakeup /\ agent.pc # "idle" /\ agent.aborted
           w == IF target = "next-turn" \/ afterAbort
                  THEN Compete([World EXCEPT !.agent.nextTurn = Append(@, h)])
                  ELSE [World EXCEPT !.agent.nextStep = Append(@, h)]
           x == [w EXCEPT !.agent.latch = TRUE]
<1>1. Becomes(w) \/ Becomes(x) \/ Becomes(Wake(w))
  BY DEF Send
<1>2. Near(w, World) /\ (Sound(World) => Sound(w))
  BY SentNear
<1> HIDE DEF w
<1>3. Near(x, World) /\ (Sound(World) => Sound(x))
  BY <1>2, LatchNear
<1> HIDE DEF x
<1>4. Steps(w, World) /\ Steps(Wake(w), World) /\ Steps(x, World)
  BY <1>2, <1>3, NearSteps
<1> QED
  BY <1>1, <1>4, StepsMakes

\* cancel, whatever the agent is at.
LEMMA CancelMakes ==
  ASSUME Typed(World), Cancel
  PROVE  Makes(Cancelled(World))
<1> DEFINE v == Cancelled(World)
<1>1. Becomes(v)
  BY DEF Cancel
<1>2. Near(v, World) /\ (Sound(World) => Sound(v))
  BY CancelledIs DEF Near, Sound
<1> HIDE DEF v
<1> QED
  BY <1>1, <1>2, NearSteps, StepsMakes DEF v

\* Maintenance begins, or ends, with an agent that has nothing claimed.
LEMMA MaintenanceMakes ==
  ASSUME Typed(World), Maintain \/ MaintenanceEnds
  PROVE  \E v : Makes(v)
<1> DEFINE b(pc) == [agent EXCEPT !.pc = pc, !.aborted = FALSE, !.latch = FALSE]
           u(pc) == [World EXCEPT !.agent = b(pc)]
<1>1. World \in Worlds /\ agent \in Agents
  BY Parts, WorldIs
<1>2. ASSUME NEW pc \in {"idle", "maintenance"}
      PROVE  /\ u(pc) = [World EXCEPT !.agent.pc = pc, !.agent.aborted = FALSE,
                                      !.agent.latch = FALSE]
             /\ Typed(u(pc)) /\ u(pc).goal = goal /\ u(pc).driver = driver
             /\ u(pc).agent.pc = pc /\ u(pc).agent.batch = agent.batch
             /\ u(pc).agent.nextTurn = agent.nextTurn
  <2>1. /\ b(pc) \in Agents /\ b(pc).pc = pc /\ b(pc).batch = agent.batch
        /\ b(pc).nextTurn = agent.nextTurn
    BY <1>1 DEF Agents
  <2>2. u(pc) = [World EXCEPT !.agent.pc = pc, !.agent.aborted = FALSE, !.agent.latch = FALSE]
    BY <1>1, WorldIs DEF Worlds
  <2> HIDE DEF b
  <2>3. Typed(u(pc)) /\ u(pc).goal = World.goal /\ u(pc).driver = World.driver /\ u(pc).agent = b(pc)
    BY <2>1, PutAgent
  <2> HIDE DEF u
  <2> QED
    BY <2>1, <2>2, <2>3, WorldIs
<1> HIDE DEF u
<1>3. ASSUME NEW pc \in {"idle", "maintenance"}, agent.pc \in {"idle", "maintenance"}
      PROVE  Sound(World) /\ ~Driving(goal) => Sound(u(pc))
  <2> SUFFICES ASSUME Sound(World), ~Driving(goal) PROVE Sound(u(pc))
    OBVIOUS
  <2>1. agent.batch = <<>>
    BY <1>3, WorldIs DEF Sound, Quiet, Idle
  <2>2. BatchFit(u(pc)) /\ Quiet(u(pc))
    BY <1>2, <2>1, EmptyBatch DEF Quiet
  <2>3. Fit(u(pc)) /\ QueueFit(u(pc))
    BY <1>2, WorldIs DEF Sound, Fit, QueueFit, Gone
  <2> QED
    BY <2>2, <2>3 DEF Sound
<1>4. CASE Maintain
  <2> DEFINE v == u("maintenance")
  <2>1. Becomes(v) /\ agent.pc = "idle" /\ (Apart => ~Driving(goal))
    BY <1>2, <1>4 DEF Maintain, Apart
  <2>2. /\ Typed(v) /\ v.goal = goal /\ v.driver = driver /\ v.agent.pc = "maintenance"
        /\ Sound(World) /\ ~Driving(goal) => Sound(v)
    BY <1>2, <1>3, <2>1
  <2> HIDE DEF v
  <2>3. Makes(v)
    BY <2>1, <2>2, WorldIs DEF Makes, Good, Opened, Saved, Settled, Serving
  <2> QED
    BY <2>3
<1>5. CASE MaintenanceEnds
  <2> DEFINE v == u("idle")
             x == Wake(v)
  <2>1. (Becomes(v) \/ Becomes(x)) /\ agent.pc = "maintenance"
    BY <1>2, <1>5 DEF MaintenanceEnds
  <2>2. /\ Typed(v) /\ v.goal = goal /\ v.driver = driver /\ v.agent.pc = "idle"
        /\ Sound(World) /\ ~Driving(goal) => Sound(v)
    BY <1>2, <1>3, <2>1
  <2> HIDE DEF v
  <2>3. Sound(World) => Sound(v) /\ ~Driving(goal)
    BY <2>1, <2>2, WorldIs DEF Sound, Fit
  <2>4. /\ Typed(x) /\ Steady(x, v) /\ x.agent.pc = "claimed"
        /\ Sound(v) => /\ Sound(x)
                       /\ v.driver.attempt.phase = "admitted" => x.driver.attempt.phase = "admitted"
    BY <2>2, WakeIs DEF Sound
  <2> HIDE DEF x
  <2>5. CASE Becomes(v)
    <3>1. Makes(v)
      BY <2>2, <2>3, <2>5, WorldIs DEF Makes, Good, Opened, Saved, Settled, Serving
    <3> QED
      BY <3>1
  <2>6. CASE Becomes(x)
    <3>1. Makes(x)
      BY <2>2, <2>3, <2>4, <2>6, WorldIs DEF Makes, Good, Opened, Saved, Settled, Serving, Steady
    <3> QED
      BY <3>1
  <2> QED
    BY <2>1, <2>5, <2>6
<1> QED
  BY <1>4, <1>5

\* What a change makes of a goal is one, and its log folds as before.
LEMMA MutationsTyped ==
  ASSUME Typed(World), NEW g \in Mutations(goal)
  PROVE  GoalTyped(g) /\ g.broken = goal.broken
<1>0. goal \in Goals /\ GoalTyped(goal)
  BY Parts, WorldIs
<1> DEFINE stop(phase) == [goal EXCEPT !.phase = phase, !.armed = FALSE]
           created(n) == [goal EXCEPT !.phase = "active", !.rounds = 0, !.max = n, !.armed = TRUE]
<1> DEFINE live == {"active", "paused", "blocked"}
           S1 == IF goal.phase \in {"none", "complete"} THEN {created(n) : n \in 1..MaxRounds} ELSE {}
           S2 == IF goal.phase # "none" THEN {[goal EXCEPT !.max = n] : n \in 1..MaxRounds} ELSE {}
           S3 == IF goal.phase = "active" THEN {stop("paused"), stop("blocked")} ELSE {}
           S4 == IF goal.phase \in live THEN {stop("complete")} ELSE {}
           S5 == IF goal.phase \in live /\ ~Driving(goal) /\ goal.rounds < goal.max
                   THEN {[goal EXCEPT !.phase = "active", !.armed = TRUE]} ELSE {}
           S6 == IF goal.phase # "none" THEN {[stop("none") EXCEPT !.rounds = 0]} ELSE {}
<1>1. \/ \E n \in 1..MaxRounds : g = created(n) \/ g = [goal EXCEPT !.max = n]
      \/ g \in {stop("paused"), stop("blocked"), stop("complete")}
      \/ g = [goal EXCEPT !.phase = "active", !.armed = TRUE]
      \/ g = [stop("none") EXCEPT !.rounds = 0]
  <2> HIDE DEF S1, S2, S3, S4, S5, S6
  <2>1. Mutations(goal) = UNION {S1, S2, S3, S4, S5, S6}
    BY DEF Mutations, S1, S2, S3, S4, S5, S6
  <2>2. g \in S1 \/ g \in S2 \/ g \in S3 \/ g \in S4 \/ g \in S5 \/ g \in S6
    BY <2>1
  <2> HIDE DEF stop, created
  <2>3. g \in S1 \/ g \in S2 => \E n \in 1..MaxRounds : g = created(n) \/ g = [goal EXCEPT !.max = n]
    BY Zenon DEF S1, S2
  <2>4. g \in S3 \/ g \in S4 => g \in {stop("paused"), stop("blocked"), stop("complete")}
    BY Zenon DEF S3, S4
  <2>5. g \in S5 \/ g \in S6 => \/ g = [goal EXCEPT !.phase = "active", !.armed = TRUE]
                                \/ g = [stop("none") EXCEPT !.rounds = 0]
    BY Zenon DEF S5, S6
  <2> QED
    BY <2>2, <2>3, <2>4, <2>5
<1>2. 0 \in 0..MaxRounds
  BY GoalRoundsAssumption
<1>3. \A n \in 1..MaxRounds : /\ GoalTyped([goal EXCEPT !.max = n])
                              /\ [goal EXCEPT !.max = n].broken = goal.broken
  BY <1>0 DEF GoalTyped, Goals
<1>4. \A n \in 1..MaxRounds : GoalTyped(created(n)) /\ created(n).broken = goal.broken
  BY <1>0, <1>2 DEF GoalTyped, Goals
<1>5. \A phase \in {"none", "paused", "blocked", "complete"} :
        GoalTyped(stop(phase)) /\ ~stop(phase).armed /\ stop(phase).broken = goal.broken
  BY <1>0 DEF GoalTyped, Goals
<1>6. GoalTyped([goal EXCEPT !.phase = "active", !.armed = TRUE])
      /\ [goal EXCEPT !.phase = "active", !.armed = TRUE].broken = goal.broken
  BY <1>0 DEF GoalTyped, Goals
<1>7. GoalTyped([stop("none") EXCEPT !.rounds = 0])
      /\ [stop("none") EXCEPT !.rounds = 0].broken = goal.broken
  <2> HIDE DEF stop
  <2> QED
    BY <1>2, <1>5 DEF GoalTyped, Goals
<1> HIDE DEF stop, created
<1> QED
  BY <1>1, <1>3, <1>4, <1>5, <1>6, <1>7

\* create, edit, pause, block, complete, resume and clear.
LEMMA MutationMakes ==
  ASSUME Typed(World), Mutation
  PROVE  \E v : Makes(v)
<1>1. PICK g \in Mutations(goal) :
        /\ Overlaps \/ agent.pc # "maintenance" \/ ~Driving(g)
        /\ Becomes(Change(World, g))
  BY DEF Mutation
<1>3. GoalTyped(g) /\ g.broken = goal.broken
  BY MutationsTyped
<1> DEFINE m == Mutate(World, g)
           v == RequestDrive(m)
<1>4. Becomes(v)
  BY <1>1 DEF Change
<1>5. /\ Typed(m) /\ m.agent = agent /\ m.goal.ref = goal.ref + 1 /\ m.goal.phase = g.phase
      /\ m.goal.broken = goal.broken /\ m.goal.armed = g.armed /\ m.driver.needs
      /\ m.driver.attempt = driver.attempt /\ m.driver.run = driver.run
      /\ m.driver.life = driver.life
  BY <1>3, MutateIs, WorldIs
<1> HIDE DEF m
<1>6. Apart /\ Sound(World) => Sound(m)
  <2> SUFFICES ASSUME Apart, Sound(World) PROVE Sound(m)
    OBVIOUS
  <2>1. agent.pc # "decided"
    BY DEF Apart, Mutation, Outside
  <2>2. agent.pc = "maintenance" => ~Driving(m.goal)
    BY <1>1, <1>5 DEF Apart, Driving
  <2> QED
    BY <1>5, <2>1, <2>2, RevisedFit, WorldIs DEF Sound
<1>7. Drove(v, m)
  BY <1>5, RequestDriveDrove
<1> HIDE DEF v
<1>8. Opened(v, World) /\ Saved(v, World)
  BY <1>5, <1>7, WorldIs DEF Drove, Opened, Saved
<1>9. Makes(v)
  BY <1>4, <1>5, <1>6, <1>7, <1>8, WorldIs DEF Makes, Drove, Good, Gone
<1> QED
  BY <1>9

\* The checkpoint's answer.
LEMMA FlushedMakes ==
  ASSUME Typed(World), Flushed
  PROVE  \E v : Makes(v)
<1>1. CASE ReadyToDrive(World) /\ ~driver.needs
  <2> DEFINE v == Advance(World)
  <2>1. Becomes(v)
    BY <1>1 DEF Flushed
  <2>2. Drove(v, World)
    BY <1>1, AdvanceDrove, WorldIs
  <2> HIDE DEF v
  <2>3. Makes(v)
    BY <2>1, <2>2, WorldIs DEF Makes, Drove, Good, Gone
  <2> QED
    BY <2>3
<1>2. CASE ~(ReadyToDrive(World) /\ ~driver.needs)
  <2> DEFINE v == Returned(World)
  <2>1. Becomes(v) /\ driver.run = "flushing"
    BY <1>2 DEF Flushed
  <2>2. /\ Typed(v) /\ v.goal = goal /\ v.agent = agent /\ v.driver.attempt = driver.attempt
        /\ v.driver.life = driver.life /\ v.driver.competing = driver.competing
        /\ v.driver.needs = driver.needs /\ v.driver.run = "looping"
        /\ v.driver.requested = driver.requested
    BY ReturnedIs, WorldIs
  <2> HIDE DEF v
  <2>3. Alike(v, World)
    BY <2>2, WorldIs DEF Alike, Gone
  <2>4. Sound(World) => Sound(v)
    BY <2>3, AlikeSound
  <2>5. Settled(World) => Serving(v)
    BY <1>2, <2>1, <2>2, WorldIs DEF Settled, Serving, ReadyToDrive, Idle
  <2>6. Makes(v)
    BY <2>1, <2>2, <2>4, <2>5, WorldIs DEF Makes, Good, Opened, Saved, Settled
  <2> QED
    BY <2>6
<1> QED
  BY <1>1, <1>2

\* The loop of requestDrive goes on, or retires.
LEMMA LoopMakes ==
  ASSUME Typed(World), Loop
  PROVE  \E v : Makes(v)
<1> DEFINE requests == driver.requested /\ driver.life = "active"
           d == [driver EXCEPT !.requested = FALSE]
           e == [driver EXCEPT !.run = "none"]
           u == [World EXCEPT !.driver = d]
           x == [World EXCEPT !.driver = e]
           v == Drive(u)
<1>1. World \in Worlds /\ driver \in Drivers /\ DriverTyped(driver) /\ driver.run = "looping"
  BY Parts, WorldIs DEF Loop
<1>2. u = [World EXCEPT !.driver.requested = FALSE] /\ x = [World EXCEPT !.driver.run = "none"]
  BY <1>1, WorldIs DEF Worlds
<1>3. Becomes(IF requests THEN v ELSE x)
  BY <1>2 DEF Loop
<1>4. /\ DriverTyped(d) /\ d.attempt = driver.attempt /\ d.life = driver.life
      /\ d.needs = driver.needs /\ d.run = driver.run /\ d.competing = driver.competing
      /\ DriverTyped(e) /\ e.attempt = driver.attempt /\ e.life = driver.life
      /\ e.needs = driver.needs /\ e.run = "none" /\ e.competing = driver.competing
      /\ e.requested = driver.requested
  BY <1>1 DEF DriverTyped, Drivers
<1> HIDE DEF d, e
<1>5. /\ Typed(u) /\ u.goal = goal /\ u.agent = agent /\ u.driver = d
      /\ Typed(x) /\ x.goal = goal /\ x.agent = agent /\ x.driver = e
  BY <1>4, PutDriver, WorldIs
<1> HIDE DEF u, x
<1>6. Alike(u, World) /\ Alike(x, World)
  BY <1>4, <1>5, WorldIs DEF Alike, Gone
<1>7. Sound(World) => Sound(u) /\ Sound(x)
  BY <1>6, AlikeSound
<1>8. CASE requests
  <2>1. Becomes(v)
    BY <1>3, <1>8
  <2>2. Drove(v, u)
    BY <1>1, <1>4, <1>5, DriveDrove
  <2> HIDE DEF v
  <2>3. Opened(v, World) /\ Saved(v, World)
    BY <1>4, <1>5, <2>2, WorldIs DEF Drove, Opened, Saved
  <2>4. Makes(v)
    BY <1>4, <1>5, <1>7, <2>1, <2>2, <2>3, WorldIs DEF Makes, Drove, Good, Gone
  <2> QED
    BY <2>4
<1>9. CASE ~requests
  <2>1. Becomes(x)
    BY <1>3, <1>9
  <2>2. Serving(World) => Serving(x)
    BY <1>1, <1>4, <1>5, <1>9, WorldIs DEF Serving
  <2>3. Makes(x)
    BY <1>4, <1>5, <1>7, <2>1, <2>2, WorldIs DEF Makes, Good, Opened, Saved, Settled, Gone
  <2> QED
    BY <2>3
<1> QED
  BY <1>8, <1>9

\* Nothing of the batch concerns the driver, or it is gone.
LEMMA PassSteps ==
  ASSUME NEW w, Typed(w), NEW pc \in {"passing", "decided"},
         \/ pc = "passing" /\ (RoundsIn(w.agent.batch) = {} \/ Gone(w))
         \/ pc = "decided" /\ w.agent.pc = "passing"
  PROVE  Steps([w EXCEPT !.agent.pc = pc], w)
<1> DEFINE v == [w EXCEPT !.agent.pc = pc]
<1> HIDE DEF v
<1>3. /\ Typed(v) /\ v.goal = w.goal /\ v.driver = w.driver /\ v.agent.pc = pc
      /\ v.agent.batch = w.agent.batch /\ v.agent.nextTurn = w.agent.nextTurn
  <2>1. CASE pc = "passing"
    <3>1. v = [w EXCEPT !.agent.pc = "passing"]
      BY <2>1 DEF v
    <3> QED
      BY <2>1, <3>1, PlaceIs
  <2>2. CASE pc = "decided"
    <3>1. v = [w EXCEPT !.agent.pc = "decided"]
      BY <2>2 DEF v
    <3> QED
      BY <2>2, <3>1, PlaceIs
  <2> QED
    BY <2>1, <2>2
<1>4. Sound(w) => Fit(v) /\ Quiet(v) /\ QueueFit(v)
  BY <1>3 DEF Sound, Fit, Quiet, QueueFit, Idle, Gone
<1>5. Sound(w) => RoundsIn(w.agent.batch) = {} \/ Gone(w)
  BY DEF Sound, BatchFit
<1>6. Good(w) => BatchFit(v)
  BY <1>3, <1>5 DEF Good, Sound, BatchFit, Gone
<1> QED
  BY <1>3, <1>4, <1>6 DEF Steps, Good, Sound, Opened, Saved, Settled, Serving, v

\* The driver's listener, and those inside it.
LEMMA FenceMakes ==
  ASSUME Typed(World), PreStep \/ Accepted \/ Refused \/ Throws
  PROVE  \E v : Makes(v)
<1>1. CASE PreStep
  <2>1. HasRound <=> RoundsIn(World.agent.batch) # {}
    BY WorldIs DEF HasRound, RoundsIn
  <2>2. CASE HasRound /\ ~Gone(World)
    <3>1. Steps(Fence(World), World) /\ Becomes(Fence(World))
      BY <1>1, <2>1, <2>2, FenceSteps, WorldIs DEF PreStep
    <3> QED
      BY <3>1, StepsMakes
  <2>3. CASE ~(HasRound /\ ~Gone(World))
    <3> DEFINE v == [World EXCEPT !.agent.pc = "passing"]
    <3>1. Becomes(v)
      BY <1>1, <2>3 DEF PreStep
    <3>2. Steps(v, World)
      BY <2>1, <2>3, PassSteps
    <3> HIDE DEF v
    <3> QED
      BY <3>1, <3>2, StepsMakes
  <2> QED
    BY <2>2, <2>3
<1>2. CASE Accepted
  <2>1. CASE agent.pc = "inner"
    <3>1. Steps(Recheck(World), World) /\ Becomes(Recheck(World))
      BY <1>2, <2>1, RecheckSteps, WorldIs DEF Accepted
    <3> QED
      BY <3>1, StepsMakes
  <2>2. CASE agent.pc = "passing"
    <3> DEFINE v == [World EXCEPT !.agent.pc = "decided"]
    <3>1. Becomes(v)
      BY <1>2, <2>2 DEF Accepted
    <3>2. Steps(v, World)
      BY <2>2, PassSteps, WorldIs
    <3> HIDE DEF v
    <3> QED
      BY <3>1, <3>2, StepsMakes
  <2> QED
    BY <1>2, <2>1, <2>2 DEF Accepted
<1>3. CASE Refused
  <2>1. CASE agent.pc = "inner"
    <3>1. Steps(Veto(World), World) /\ Becomes(Veto(World))
      BY <1>3, <2>1, VetoSteps, WorldIs DEF Refused
    <3> QED
      BY <3>1, StepsMakes
  <2>2. CASE agent.pc = "passing"
    <3> DEFINE v == Rejected(World)
    <3>1. Becomes(v)
      BY <1>3, <2>2 DEF Refused
    <3>2. /\ ~Idle(World) /\ World.goal.ref <= World.goal.ref
          /\ Sound(World) => Fit(World) /\ QueueFit(World)
      BY <2>2, Parts, WorldIs DEF Idle, Sound, Goals
    <3>3. Steps(v, World)
      BY <3>2, RejectSteps
    <3> HIDE DEF v
    <3> QED
      BY <3>1, <3>3, StepsMakes
  <2> QED
    BY <1>3, <2>1, <2>2 DEF Refused
<1>4. CASE Throws
  <2>1. CASE agent.pc = "inner"
    <3>1. Steps(Thrown(World), World) /\ Becomes(Thrown(World))
      BY <1>4, <2>1, ThrownSteps, WorldIs DEF Throws
    <3> QED
      BY <3>1, StepsMakes
  <2>2. CASE agent.pc = "passing"
    <3>1. PICK reason : Becomes(EndTurn(World, reason))
      BY <1>4, <2>2 DEF Throws
    <3>2. Steps(EndTurn(World, reason), World)
      BY EndTurnFollows, FollowsSteps
    <3> QED
      BY <3>1, <3>2, StepsMakes
  <2> QED
    BY <1>4, <2>1, <2>2 DEF Throws
<1> QED
  BY <1>1, <1>2, <1>3, <1>4

\* The step begins, and the turn goes on or ends.
LEMMA TurnMakes ==
  ASSUME Typed(World), NEW reason, Blocked \/ Enter \/ Aborts \/ StepEnds(reason)
  PROVE  \E v : Makes(v)
<1>1. CASE Enter
  <2>1. Steps(Entered(World), World) /\ Becomes(Entered(World))
    BY <1>1, EnteredSteps, WorldIs DEF Enter
  <2> QED
    BY <2>1, StepsMakes
<1>2. CASE \E r : Becomes(EndTurn(World, r))
  <2>1. PICK r : Becomes(EndTurn(World, r))
    BY <1>2
  <2>2. Steps(EndTurn(World, r), World)
    BY EndTurnFollows, FollowsSteps
  <2> QED
    BY <2>1, <2>2, StepsMakes
<1>3. CASE Becomes(Claim(World, 0))
  <2>1. Steps(Claim(World, 0), World)
    BY ClaimSteps
  <2> QED
    BY <1>3, <2>1, StepsMakes
<1>4. Blocked \/ Aborts => \E r : Becomes(EndTurn(World, r))
  BY DEF Blocked, Aborts
<1>5. StepEnds(reason) => Becomes(Claim(World, 0)) \/ \E r : Becomes(EndTurn(World, r))
  BY DEF StepEnds
<1> QED
  BY <1>1, <1>2, <1>3, <1>4, <1>5

\* Teardown begins: the goal loses its authority, and a driver at work is cancelled.
LEMMA UnloadMakes ==
  ASSUME Typed(World), Unload
  PROVE  \E v : Makes(v)
<1> DEFINE busy == driver.attempt.phase # "none" /\ ~Idle(World)
           life == IF busy THEN "draining" ELSE "stopping"
           t == [driver.attempt EXCEPT !.stale = driver.attempt.phase # "none"]
           d == [driver EXCEPT !.life = life, !.attempt = t]
           u == [World EXCEPT !.driver = d]
           w == Disarm(u)
           x == Cancelled(w)
<1>1. /\ World \in Worlds /\ driver \in Drivers /\ DriverTyped(driver)
      /\ AttemptTyped(driver.attempt) /\ driver.attempt \in Attempts /\ driver.life = "active"
  BY Parts, WorldIs DEF Unload
<1>2. life \in {"draining", "stopping"}
  OBVIOUS
<1>3. /\ AttemptTyped(t) /\ t.phase = driver.attempt.phase /\ t.id = driver.attempt.id
      /\ t.ref = driver.attempt.ref /\ t.round = driver.attempt.round
  <2>1. PICK c \in BOOLEAN : c = (driver.attempt.phase # "none")
    OBVIOUS
  <2>2. t = [driver.attempt EXCEPT !.stale = c]
    BY <2>1
  <2> HIDE DEF t
  <2> QED
    BY <1>1, <2>1, <2>2 DEF AttemptTyped, Attempts
<1>4. u = [World EXCEPT !.driver.life = life,
                        !.driver.attempt.stale = driver.attempt.phase # "none"]
  BY <1>1, WorldIs DEF Worlds, Drivers
<1>5. Becomes(w) \/ Becomes(x)
  BY <1>4 DEF Unload
<1> HIDE DEF t, life
<1>6. DriverTyped(d) /\ d.attempt = t /\ d.life = life
  BY <1>1, <1>2, <1>3 DEF DriverTyped, Drivers, AttemptTyped
<1> HIDE DEF d
<1>7. Typed(u) /\ u.goal = goal /\ u.agent = agent /\ u.driver = d /\ ~Gone(u)
  BY <1>2, <1>6, PutDriver, WorldIs DEF Gone
<1> HIDE DEF u
<1>8. /\ Typed(w) /\ w.driver = u.driver /\ w.agent = u.agent /\ w.goal.phase = u.goal.phase
      /\ w.goal.ref = u.goal.ref /\ w.goal.rounds = u.goal.rounds /\ w.goal.max = u.goal.max
      /\ w.goal.broken = u.goal.broken /\ ~w.goal.armed
  BY <1>7, DisarmIs
<1> HIDE DEF w
<1>9. Alike(w, World) /\ w.driver.life \in {"draining", "stopping"}
  BY <1>1, <1>2, <1>3, <1>6, <1>7, <1>8, WorldIs DEF Alike, Gone
<1>10. Sound(World) => Sound(w)
  BY <1>9, AlikeSound
<1>11. /\ Typed(x) /\ x.driver.life = w.driver.life
       /\ x.driver.attempt.phase = w.driver.attempt.phase
       /\ Sound(w) => Sound(x)
  BY <1>8, CancelledIs DEF Sound
<1> HIDE DEF x
<1>12. CASE Becomes(w)
  <2>1. Makes(w)
    BY <1>3, <1>6, <1>7, <1>8, <1>9, <1>10, <1>12, WorldIs
       DEF Makes, Good, Opened, Saved, Settled, Serving, Gone
  <2> QED
    BY <2>1
<1>13. CASE Becomes(x)
  <2>1. Makes(x)
    BY <1>3, <1>6, <1>7, <1>8, <1>9, <1>10, <1>11, <1>13, WorldIs
       DEF Makes, Good, Opened, Saved, Settled, Serving, Gone
  <2> QED
    BY <2>1
<1> QED
  BY <1>5, <1>12, <1>13

\* It ends: the listeners go.
LEMMA UnloadedMakes ==
  ASSUME Typed(World), Unloaded
  PROVE  \E v : Makes(v)
<1> DEFINE d == [driver EXCEPT !.life = "gone"]
           v == [World EXCEPT !.driver = d]
<1>1. World \in Worlds /\ driver \in Drivers /\ DriverTyped(driver)
  BY Parts, WorldIs
<1>2. v = [World EXCEPT !.driver.life = "gone"]
  BY <1>1, WorldIs DEF Worlds
<1>3. Becomes(v)
  BY <1>2 DEF Unloaded
<1>4. DriverTyped(d) /\ d.attempt = driver.attempt /\ d.life = "gone"
  BY <1>1 DEF DriverTyped, Drivers
<1> HIDE DEF d
<1>5. Typed(v) /\ v.goal = goal /\ v.agent = agent /\ v.driver = d
  BY <1>4, PutDriver, WorldIs
<1> HIDE DEF v
<1>6. Sound(World) => Fit(v)
  BY <1>4, <1>5, WorldIs DEF Sound, Fit, Gone
<1>7. Sound(World) => Quiet(v) /\ QueueFit(v)
  BY <1>4, <1>5, WorldIs DEF Sound, Quiet, QueueFit, Idle, Gone
<1>8. Sound(World) => BatchFit(v)
  BY <1>4, <1>5, WorldIs DEF Sound, BatchFit, Gone
<1>9. Makes(v)
  BY <1>3, <1>4, <1>5, <1>6, <1>7, <1>8, WorldIs
     DEF Makes, Good, Sound, Opened, Saved, Settled, Serving
<1> QED
  BY <1>9

\* Every step but a failed checkpoint goes to a world some handler makes.
LEMMA NextMakes ==
  ASSUME Typed(World), Next, ~FlushFails
  PROVE  \E v : Makes(v)
<1>1. ASSUME NEW h \in Humans,
             Send(h, "next-turn", TRUE) \/ Send(h, "next-step", TRUE) \/ Send(h, "next-step", FALSE)
      PROVE  \E v : Makes(v)
  BY <1>1, SendMakes
<1>2. CASE Cancel
  BY <1>2, CancelMakes
<1>3. CASE Maintain \/ MaintenanceEnds
  BY <1>3, MaintenanceMakes
<1>4. CASE Mutation
  BY <1>4, MutationMakes
<1>5. CASE Unload
  BY <1>5, UnloadMakes
<1>6. CASE Unloaded
  BY <1>6, UnloadedMakes
<1>7. CASE Flushed
  BY <1>7, FlushedMakes
<1>8. CASE Loop
  BY <1>8, LoopMakes
<1>9. CASE PreStep \/ Accepted \/ Refused \/ Throws
  BY <1>9, FenceMakes
<1>10. ASSUME NEW reason, Blocked \/ Enter \/ Aborts \/ StepEnds(reason)
       PROVE  \E v : Makes(v)
  BY <1>10, TurnMakes
<1> QED
  BY <1>1, <1>2, <1>3, <1>4, <1>5, <1>6, <1>7, <1>8, <1>9, <1>10 DEF Next

-----------------------------------------------------------------------------
(* The invariant                                                           *)

TypeInv ==
  /\ Typed(World) /\ changes \in 0..MaxChanges /\ sent \cup ended \subseteq Humans
  /\ unsaved \in {"no", "inflight", "since"}

\* What an armed goal that wants no checkpoint has seen is durable, or will be when
\* the checkpoint under way returns.
Durable ==
  /\ driver.life = "active" /\ Driving(goal)
  /\ ~driver.needs /\ driver.attempt.phase # "admitted"
  => unsaved = "no" \/ (unsaved = "inflight" /\ driver.run = "flushing")

InOrder == Good(World) /\ Settled(World) /\ Durable

\* A world is typed if its parts are.
LEMMA TypedIs ==
  Typed(World) <=> GoalTyped(goal) /\ DriverTyped(driver) /\ agent \in Agents
BY DEF Typed, World, Worlds, GoalTyped, DriverTyped

\* Without its attempt a world is as much in order as with it, if the driver is gone.
LEMMA GoneSound ==
  ASSUME NEW v, NEW w, Typed(v), Sound(w), Gone(v), Gone(w),
         v.goal = w.goal, v.agent = w.agent, v.driver.attempt = NoAttempt
  PROVE  Sound(v)
<1>1. v.goal.ref \in Nat /\ v.goal.max \in 1..MaxRounds
  BY Parts DEF Goals
<1>2. 0 <= v.goal.ref /\ 0 <= v.goal.max
  BY <1>1, GoalRoundsAssumption
<1>3. v.driver.attempt.ref = 0 /\ v.driver.attempt.round = 0 /\ v.driver.attempt.phase = "none"
  BY DEF NoAttempt
<1>4. Fit(v) /\ Quiet(v)
  BY <1>2, <1>3 DEF Sound, Fit, Quiet, Idle
<1>5. QueueFit(v) /\ BatchFit(v)
  BY <1>3 DEF Sound, QueueFit, BatchFit
<1> QED
  BY <1>4, <1>5 DEF Sound

\* The next world is what a handler made, but a driver that is gone has forgotten.
LEMMA BecomesIs ==
  ASSUME Typed(World), NEW v, Typed(v), Becomes(v)
  PROVE  /\ Typed(World)' /\ goal' = v.goal /\ agent' = v.agent
         /\ ~Gone(v) => driver' = v.driver
         /\ Gone(v) => /\ driver'.attempt = NoAttempt /\ driver'.life = "gone"
                       /\ ~driver'.needs /\ driver'.run = "none"
         /\ unsaved \in {"no", "inflight", "since"} => unsaved' \in {"no", "inflight", "since"}
<1> DEFINE d == [driver EXCEPT !.attempt = NoAttempt, !.competing = FALSE, !.needs = FALSE,
                               !.requested = FALSE, !.run = "none", !.life = "gone"]
<1>1. goal' = v.goal /\ agent' = v.agent /\ driver' = IF Gone(v) THEN d ELSE v.driver
  BY DEF Becomes
<1>2. driver \in Drivers /\ 0 \in 0..MaxRounds
  BY Parts, WorldIs, GoalRoundsAssumption
<1>3. AttemptTyped(NoAttempt)
  BY <1>2 DEF AttemptTyped, NoAttempt, Attempts
<1>4. DriverTyped(d)
  BY <1>2, <1>3 DEF DriverTyped, Drivers, AttemptTyped
<1>5. d.attempt = NoAttempt /\ d.life = "gone" /\ ~d.needs /\ d.run = "none"
  BY <1>2 DEF Drivers
<1> HIDE DEF d
<1>6. GoalTyped(goal') /\ DriverTyped(driver') /\ agent' \in Agents
  BY <1>1, <1>4, Parts
<1>7. Typed(World)'
  BY <1>6 DEF Typed, World, Worlds, GoalTyped, DriverTyped
<1>8. unsaved \in {"no", "inflight", "since"} => unsaved' \in {"no", "inflight", "since"}
  BY DEF Becomes
<1> QED
  BY <1>1, <1>5, <1>7, <1>8

\* A checkpoint that fails disarms the goal, and the run goes on.
LEMMA FlushFailsMakes ==
  ASSUME Typed(World), FlushFails
  PROVE  LET v == Returned(Disarm(World)) IN
         /\ Typed(v) /\ goal' = v.goal /\ driver' = v.driver /\ agent' = v.agent
         /\ Alike(v, World) /\ v.driver.attempt = driver.attempt
         /\ v.driver.life = driver.life /\ v.driver.run = "looping"
         /\ ~Gone(World) => ~v.goal.armed
<1> DEFINE w == Disarm(World)
           v == Returned(w)
<1>1. goal' = w.goal /\ driver' = Returned(World).driver /\ agent' = agent
  BY DEF FlushFails
<1>2. /\ Typed(w) /\ w.driver = driver /\ w.agent = agent
      /\ ~Gone(World) => ~w.goal.armed
      /\ Gone(World) => w = World
      /\ w.goal.phase = goal.phase /\ w.goal.ref = goal.ref /\ w.goal.rounds = goal.rounds
      /\ w.goal.max = goal.max /\ w.goal.broken = goal.broken
  BY DisarmIs, WorldIs
<1>3. Returned(w).driver = Returned(World).driver
  <2>1. World \in Worlds /\ w \in Worlds
    BY <1>2, Parts
  <2> HIDE DEF w
  <2> QED
    BY <1>2, <2>1, WorldIs DEF Returned, Worlds
<1> HIDE DEF w
<1>4. /\ Typed(v) /\ v.goal = w.goal /\ v.agent = w.agent /\ v.driver.run = "looping"
      /\ v.driver.attempt = w.driver.attempt /\ v.driver.life = w.driver.life
  BY <1>2, ReturnedIs
<1>5. v.driver = driver'
  BY <1>1, <1>3
<1> HIDE DEF v
<1>6. Alike(v, World)
  BY <1>2, <1>4, WorldIs DEF Alike, Gone
<1> QED
  BY <1>1, <1>2, <1>4, <1>5, <1>6 DEF v, w

\* A fresh session is in order: it has no goal.
LEMMA InitTyped == Init => TypeInv /\ InOrder
<1> SUFFICES ASSUME Init PROVE TypeInv /\ InOrder
  OBVIOUS
<1>1. MaxRounds \in Nat \ {0} /\ MaxChanges \in Nat
  BY GoalRoundsAssumption
<1>2. GoalTyped(goal)
  BY <1>1 DEF Init, GoalTyped, Goals
<1>3. DriverTyped(driver)
  BY <1>1 DEF Init, DriverTyped, Drivers, AttemptTyped, Attempts, NoAttempt
<1>4. agent \in Agents
  BY EmptySeq DEF Init, Agents
<1>5. Typed(World)
  BY <1>2, <1>3, <1>4, TypedIs
<1>6. TypeInv
  BY <1>1, <1>5 DEF Init, TypeInv
<1>7. /\ goal.ref = 0 /\ goal.max = 1 /\ ~goal.armed /\ ~goal.broken
      /\ driver.attempt = NoAttempt /\ driver.run = "none" /\ driver.life = "active"
      /\ agent.pc = "idle" /\ agent.nextTurn = <<>> /\ agent.batch = <<>>
  BY DEF Init
<1>8. Fit(World) /\ Quiet(World)
  BY <1>7, WorldIs DEF Fit, Quiet, Driving, NoAttempt
<1>9. QueueFit(World) /\ BatchFit(World)
  BY <1>7, WorldIs, EmptyBatch DEF QueueFit, RoundsIn, ToSet
<1>10. InOrder
  BY <1>7, <1>8, <1>9, WorldIs DEF InOrder, Good, Sound, Serving, Settled, Durable, Driving, Gone
<1> QED
  BY <1>6, <1>10

\* Every step keeps the shapes.
LEMMA TypeStep == TypeInv /\ [Next]_vars => TypeInv'
<1> SUFFICES ASSUME TypeInv, [Next]_vars PROVE TypeInv'
  OBVIOUS
<1>1. CASE UNCHANGED vars
  BY <1>1 DEF vars, TypeInv, Typed, World
<1>2. CASE Next
  <2>1. /\ Typed(World) /\ changes \in 0..MaxChanges /\ sent \cup ended \subseteq Humans
        /\ unsaved \in {"no", "inflight", "since"}
    BY DEF TypeInv
  <2>2. Typed(World)' /\ unsaved' \in {"no", "inflight", "since"}
    <3>1. CASE FlushFails
      <4> DEFINE v == Returned(Disarm(World))
      <4>1. Typed(v) /\ goal' = v.goal /\ driver' = v.driver /\ agent' = v.agent
        BY <2>1, <3>1, FlushFailsMakes
      <4> HIDE DEF v
      <4>2. GoalTyped(goal') /\ DriverTyped(driver') /\ agent' \in Agents
        BY <4>1, Parts
      <4>3. Typed(World)'
        BY <4>2 DEF Typed, World, Worlds, GoalTyped, DriverTyped
      <4>4. unsaved' \in {"no", "inflight", "since"}
        BY <2>1, <3>1 DEF FlushFails
      <4> QED
        BY <4>3, <4>4
    <3>2. CASE ~FlushFails
      <4>1. PICK v : Makes(v)
        BY <1>2, <2>1, <3>2, NextMakes
      <4> QED
        BY <2>1, <4>1, BecomesIs DEF Makes
    <3> QED
      BY <3>1, <3>2
  <2>3. changes' \in 0..MaxChanges
    <3>1. changes' = changes \/ (changes < MaxChanges /\ changes' = changes + 1)
      BY <1>2 DEF Next, Send, Cancel, Maintain, MaintenanceEnds, Mutation, Unload, Unloaded,
                  Flushed, FlushFails, Loop, PreStep, Accepted, Refused, Throws, Blocked,
                  Enter, Aborts, StepEnds, Kept
    <3> QED
      BY <2>1, <3>1, GoalRoundsAssumption
  <2>4. sent' \cup ended' \subseteq Humans
    <3>1. sent' = sent \/ \E h \in Humans : sent' = sent \cup {h}
      BY <1>2 DEF Next, Send, Cancel, Maintain, MaintenanceEnds, Mutation, Unload, Unloaded,
                  Flushed, FlushFails, Loop, PreStep, Accepted, Refused, Throws, Blocked,
                  Enter, Aborts, StepEnds, Kept
    <3>2. \/ ended' = ended \/ ended' = ended \cup (Inbox(agent) \cap Humans)
          \/ ended' = ended \cup ((ToSet(agent.batch) \cap Humans) \ Inbox(agent))
      BY <1>2 DEF Next, Send, Cancel, Maintain, MaintenanceEnds, Mutation, Unload, Unloaded,
                  Flushed, FlushFails, Loop, PreStep, Accepted, Refused, Throws, Blocked,
                  Enter, Aborts, StepEnds, GivesUp
    <3>3. sent' \subseteq Humans
      BY <2>1, <3>1
    <3>4. ended' \subseteq Humans
      BY <2>1, <3>2
    <3> QED
      BY <3>3, <3>4
  <2> QED
    BY <2>2, <2>3, <2>4 DEF TypeInv
<1> QED
  BY <1>1, <1>2

\* What TypeOK says of a world is part of its shape.
LEMMA TypeFollows == TypeInv => TypeOK
<1> SUFFICES ASSUME TypeInv PROVE TypeOK
  OBVIOUS
<1>1. /\ goal \in Goals /\ GoalTyped(goal) /\ driver \in Drivers /\ AttemptTyped(driver.attempt)
      /\ agent \in Agents
  BY Parts, WorldIs DEF TypeInv
<1>2. driver.attempt.phase = "none" => driver.attempt = NoAttempt
  <2> DEFINE t == driver.attempt
  <2>1. t \in Attempts /\ t.cancelled \in BOOLEAN /\ t.stale \in BOOLEAN
    BY <1>1 DEF AttemptTyped, Attempts
  <2> SUFFICES ASSUME t.phase = "none" PROVE t = NoAttempt
    OBVIOUS
  <2>2. /\ t.id = 0 /\ t.ref = 0 /\ t.round = 0 /\ t.cancelled = FALSE /\ t.stale = FALSE
    BY <1>1, <2>1 DEF AttemptTyped
  <2> HIDE DEF t
  <2> QED
    BY <2>1, <2>2 DEF Attempts, NoAttempt
<1>3. ASSUME NEW m \in Inbox(agent) \cup ToSet(agent.batch) PROVE IsMessage(m)
  <2>1. /\ agent.nextStep \in Seq(Humans) /\ agent.nextTurn \in Seq(Messages)
        /\ agent.batch \in Seq(Messages)
    BY <1>1 DEF Agents
  <2>2. m \in Humans \/ m \in Messages
    BY <1>3, <2>1 DEF Inbox, ToSet
  <2> QED
    BY <2>2 DEF Messages, IsMessage
<1>4. /\ goal.phase \in {"none", "active", "paused", "blocked", "complete"}
      /\ goal.ref \in Nat /\ goal.rounds \in 0..MaxRounds /\ goal.max \in 1..MaxRounds
      /\ goal.broken \in BOOLEAN /\ goal.armed \in BOOLEAN /\ (goal.armed => goal.phase = "active")
  BY <1>1 DEF Goals, GoalTyped
<1>5. agent.aborted \in BOOLEAN /\ agent.latch \in BOOLEAN
      /\ agent.pc \in {"idle", "maintenance", "claimed", "inner", "passing", "decided",
                       "rejected", "stepping"}
  BY <1>1 DEF Agents
<1> QED
  BY <1>1, <1>2, <1>3, <1>4, <1>5 DEF TypeOK, TypeInv, Drivers

\* The records keep their shapes, an inactive goal is never armed and a reservation
\* that is given up leaves nothing behind, whatever drive, the fence and the
\* handlers of turns do to them (goal-round-driver/src/index.ts, goal/src/fold.ts).
THEOREM TypeCorrect == Spec => []TypeOK
<1>1. Init => TypeInv
  BY InitTyped
<1>2. TypeInv /\ [Next]_vars => TypeInv'
  BY TypeStep
<1>3. TypeInv => TypeOK
  BY TypeFollows
<1> QED
  BY <1>1, <1>2, <1>3, PTL DEF Spec

\* What a step keeps and never does, when it starts in order.
Steadily ==
  /\ driver.attempt.phase = "none" /\ driver'.attempt.phase # "none" => unsaved' = "no"
  /\ goal'.broken /\ ~goal.broken => Gone(World)

\* A handler leaves the world in order.
LEMMA MadeInOrder ==
  ASSUME Apart, Typed(World), InOrder, NEW v, Makes(v)
  PROVE  InOrder' /\ Steadily
<1>1. /\ Typed(v) /\ Becomes(v) /\ Opened(v, World) /\ Sound(v) /\ Serving(v)
      /\ Saved(v, World) /\ Settled(v)
      /\ Gone(v) => Gone(World) \/ v.goal = goal
      /\ v.driver.life = "active" => driver.life = "active"
  BY DEF Makes, InOrder
<1>2. /\ Typed(World)' /\ goal' = v.goal /\ agent' = v.agent
      /\ ~Gone(v) => driver' = v.driver
      /\ Gone(v) => /\ driver'.attempt = NoAttempt /\ driver'.life = "gone"
                    /\ ~driver'.needs /\ driver'.run = "none"
  BY <1>1, BecomesIs
<1> DEFINE x == [goal |-> goal', driver |-> driver', agent |-> agent']
<1>3. World' = x /\ x.goal = goal' /\ x.driver = driver' /\ x.agent = agent'
  BY DEF World
<1>4. Typed(x)
  BY <1>2, <1>3 DEF Typed
<1> HIDE DEF x
<1>5. Sound(x) /\ Settled(x) /\ Serving(x) /\ (Gone(x) => x.driver.attempt.phase = "none")
  <2>1. CASE Gone(v)
    <3>1. Sound(x)
      BY <1>1, <1>2, <1>3, <1>4, <2>1, GoneSound DEF Gone
    <3> QED
      BY <1>2, <1>3, <2>1, <3>1 DEF Settled, Serving, NoAttempt
  <2>2. CASE ~Gone(v)
    <3>1. Alike(x, v)
      BY <1>2, <1>3, <2>2 DEF Alike, Gone
    <3>2. Sound(x)
      BY <1>1, <3>1, AlikeSound
    <3> QED
      BY <1>1, <1>2, <1>3, <2>2, <3>2 DEF Settled, Serving, Gone
  <2> QED
    BY <2>1, <2>2
<1>6. Good(World)' /\ Settled(World)'
  BY <1>3, <1>5 DEF Good, Sound, Fit, Quiet, QueueFit, BatchFit, Settled, Serving, Gone
<1> DEFINE begins == v.driver.run = "flushing" /\ driver.run # "flushing"
           left == IF driver.run = "flushing" /\ v.driver.run # "flushing" /\ unsaved = "inflight"
                     THEN "no" ELSE unsaved
<1>7. (begins => unsaved' = "inflight") /\ (~begins /\ v.goal = goal => unsaved' = left)
  BY <1>1 DEF Becomes
<1>8. ASSUME driver.life = "active", Driving(goal), ~driver.needs,
             driver.attempt.phase # "admitted"
      PROVE  unsaved = "no" \/ (unsaved = "inflight" /\ driver.run = "flushing")
  BY <1>8 DEF InOrder, Durable
<1>9. Durable'
  <2> SUFFICES ASSUME driver'.life = "active", Driving(goal'), ~driver'.needs,
                      driver'.attempt.phase # "admitted"
               PROVE  unsaved' = "no" \/ (unsaved' = "inflight" /\ driver'.run = "flushing")
    BY DEF Durable, Driving
  <2>1. driver' = v.driver /\ goal' = v.goal /\ driver.life = "active"
    BY <1>1, <1>2
  <2>2. CASE begins
    BY <1>7, <2>1, <2>2
  <2>3. CASE ~begins
    <3>1. /\ v.goal = goal /\ ~driver.needs /\ driver.attempt.phase # "admitted"
          /\ v.driver.run = "flushing" => driver.run = "flushing"
      BY <1>1, <2>1, <2>3, WorldIs DEF Saved
    <3> QED
      BY <1>7, <1>8, <2>1, <2>3, <3>1
  <2> QED
    BY <2>2, <2>3
<1>10. driver.attempt.phase = "none" /\ driver'.attempt.phase # "none" => unsaved' = "no"
  <2> SUFFICES ASSUME driver.attempt.phase = "none", driver'.attempt.phase # "none"
               PROVE  unsaved' = "no"
    OBVIOUS
  <2>1. v.driver.attempt.phase # "none"
    BY <1>2 DEF NoAttempt
  <2>2. /\ driver.life = "active" /\ Driving(goal) /\ ~driver.needs /\ v.goal = goal
        /\ v.driver.run # "flushing"
    BY <1>1, <2>1, WorldIs DEF Opened
  <2> QED
    BY <1>7, <1>8, <2>2
<1>11. goal'.broken /\ ~goal.broken => Gone(World)
  BY <1>1, <1>2 DEF Sound, Fit
<1> QED
  BY <1>6, <1>9, <1>10, <1>11 DEF InOrder, Steadily

\* So does a checkpoint that fails.
LEMMA FailedInOrder ==
  ASSUME Typed(World), InOrder, FlushFails
  PROVE  InOrder' /\ Steadily
<1> DEFINE v == Returned(Disarm(World))
           x == [goal |-> goal', driver |-> driver', agent |-> agent']
<1>1. /\ Typed(v) /\ goal' = v.goal /\ driver' = v.driver /\ agent' = v.agent
      /\ Alike(v, World) /\ v.driver.attempt = driver.attempt
      /\ v.driver.life = driver.life /\ v.driver.run = "looping"
      /\ ~Gone(World) => ~v.goal.armed
  BY FlushFailsMakes
<1> HIDE DEF v
<1>2. World' = x /\ x.goal = goal' /\ x.driver = driver' /\ x.agent = agent'
  BY DEF World
<1> HIDE DEF x
<1>3. Sound(v) /\ (Gone(v) => v.driver.attempt.phase = "none")
  BY <1>1, AlikeSound, WorldIs DEF InOrder, Good, Gone
<1>4. Alike(x, v)
  BY <1>1, <1>2 DEF Alike, Gone
<1>5. Sound(x)
  BY <1>3, <1>4, AlikeSound
<1>6. Settled(x) /\ Serving(x) /\ (Gone(x) => x.driver.attempt.phase = "none")
  BY <1>1, <1>2, <1>3, WorldIs DEF Settled, Serving, Driving, Gone
<1>7. Good(World)' /\ Settled(World)'
  BY <1>2, <1>5, <1>6 DEF Good, Sound, Fit, Quiet, QueueFit, BatchFit, Settled, Serving, Gone
<1>8. Durable'
  BY <1>1, WorldIs DEF Durable, Driving, Gone
<1>9. Steadily
  BY <1>1, WorldIs DEF Steadily, Alike
<1> QED
  BY <1>7, <1>8, <1>9 DEF InOrder

\* The invariant is inductive where outside code keeps apart.
LEMMA InOrderStep ==
  ASSUME Apart
  PROVE  TypeInv /\ InOrder /\ [Next]_vars => InOrder' /\ Steadily
<1> SUFFICES ASSUME TypeInv, InOrder, [Next]_vars PROVE InOrder' /\ Steadily
  OBVIOUS
<1>1. Typed(World)
  BY DEF TypeInv
<1>2. CASE UNCHANGED vars
  <2>1. goal' = goal /\ driver' = driver /\ agent' = agent /\ unsaved' = unsaved
    BY <1>2 DEF vars
  <2>2. World' = World
    BY <2>1 DEF World
  <2>3. Good(World)' /\ Settled(World)'
    BY <2>2 DEF InOrder, Good, Sound, Fit, Quiet, QueueFit, BatchFit, Settled, Serving, Gone
  <2> QED
    BY <2>1, <2>3 DEF InOrder, Durable, Steadily
<1>3. CASE FlushFails
  BY <1>1, <1>3, FailedInOrder
<1>4. CASE Next /\ ~FlushFails
  <2>1. PICK v : Makes(v)
    BY <1>1, <1>4, NextMakes
  <2> QED
    BY <1>1, <2>1, MadeInOrder
<1> QED
  BY <1>2, <1>3, <1>4

\* Of a revision one round waits or is in the batch.
LEMMA OneRound ==
  ASSUME TypeInv, InOrder
  PROVE  OneRoundAtATime
<1> DEFINE S == {m \in Rounds(agent) : m.ref = goal.ref}
           next == agent.nextTurn
<1>1. QueueFit(World) /\ BatchFit(World)
  BY DEF InOrder, Good, Sound
<1>2. ASSUME NEW m \in S
      PROVE  m \in RoundsIn(next) \/ m \in RoundsIn(agent.batch)
  <2>1. agent.nextStep \in Seq(Humans)
    BY Parts, WorldIs DEF TypeInv, Agents
  <2> QED
    BY <1>2, <2>1 DEF Rounds, Inbox, RoundsIn, ToSet, IsRound
<1>3. ASSUME NEW m \in S, NEW n \in S
      PROVE  m = n
  <2>1. m.ref = n.ref
    OBVIOUS
  <2>2. CASE m \in RoundsIn(next) /\ n \in RoundsIn(next)
    <3>1. PICK i \in DOMAIN next, j \in DOMAIN next : m = next[i] /\ n = next[j]
      BY <2>2 DEF RoundsIn, ToSet
    <3>2. i = j
      BY <1>1, <2>1, <2>2, <3>1, WorldIs DEF QueueFit, RoundsIn
    <3> QED
      BY <3>1, <3>2
  <2>3. CASE m \in RoundsIn(agent.batch) /\ n \in RoundsIn(agent.batch)
    BY <1>1, <2>3, WorldIs DEF BatchFit
  <2>4. ~(m \in RoundsIn(agent.batch) /\ n \in RoundsIn(next))
        /\ ~(n \in RoundsIn(agent.batch) /\ m \in RoundsIn(next))
    BY <1>1, <2>1, WorldIs DEF BatchFit
  <2> QED
    BY <1>2, <2>2, <2>3, <2>4
<1> HIDE DEF S
<1>4. S = {} \/ \E m : S = {m}
  BY <1>3
<1>5. Cardinality(S) <= 1
  <2>1. CASE S = {}
    <3>1. Cardinality(S) = 0
      BY <2>1, FS_EmptySet
    <3> QED
      BY <3>1
  <2>2. CASE \E m : S = {m}
    <3>1. PICK m : S = {m}
      BY <2>2
    <3>2. Cardinality({m}) = 1
      BY FS_Singleton
    <3> QED
      BY <3>1, <3>2
  <2> QED
    BY <1>4, <2>1, <2>2
<1> QED
  BY <1>5 DEF OneRoundAtATime, S

\* While an idle agent's goal is active and armed, a run of the driver is under way,
\* however checkpoints, turns, cancels and changes of the goal interleave: a request
\* that meets a run is not lost (requestDrive, goal-round-driver/src/index.ts:207).
THEOREM Unstranded ==
  ASSUME Apart
  PROVE  Spec => []NoGoalStranded
<1>1. Init => TypeInv /\ InOrder
  BY InitTyped
<1>2. TypeInv /\ InOrder /\ [Next]_vars => TypeInv' /\ InOrder'
  BY TypeStep, InOrderStep
<1>3. InOrder => NoGoalStranded
  BY WorldIs DEF InOrder, Good, Serving, NoGoalStranded
<1> QED
  BY <1>1, <1>2, <1>3, PTL DEF Spec

\* The driver reserves a round only when a checkpoint covers all earlier events of
\* the goal (drive, goal-round-driver/src/index.ts:142): a change that comes while
\* the checkpoint is under way makes drive go back for another.
THEOREM ReservedDurable ==
  ASSUME Apart
  PROVE  Spec => DurableFirst
<1>1. Init => TypeInv /\ InOrder
  BY InitTyped
<1>2. TypeInv /\ InOrder /\ [Next]_vars => TypeInv' /\ InOrder'
  BY TypeStep, InOrderStep
<1>3. TypeInv /\ InOrder /\ [Next]_vars =>
        [driver.attempt.phase = "none" /\ driver'.attempt.phase # "none" => unsaved' = "no"]_vars
  BY InOrderStep DEF Steadily
<1> QED
  BY <1>1, <1>2, <1>3, PTL DEF Spec, DurableFirst

\* At most one round of the goal's present revision waits or is in the batch, and
\* what the fence of agent/pre-step lets enter while the driver is there is the next
\* round of the active goal, so that the log still folds (goal/src/fold.ts): stale
\* rounds are rejected whatever the listeners inside did between the two checks.
THEOREM RoundsCorrect ==
  ASSUME Apart
  PROVE  Spec => RoundsSound
<1>1. Init => TypeInv /\ InOrder
  BY InitTyped
<1>2. TypeInv /\ InOrder /\ [Next]_vars => TypeInv' /\ InOrder'
  BY TypeStep, InOrderStep
<1>3. TypeInv /\ InOrder => OneRoundAtATime
  BY OneRound
<1>4. TypeInv /\ InOrder /\ [Next]_vars => [goal'.broken /\ ~goal.broken => Gone(World)]_vars
  BY InOrderStep DEF Steadily
<1> QED
  BY <1>1, <1>2, <1>3, <1>4, PTL DEF Spec, RoundsSound, AdmittedRoundCurrent

-----------------------------------------------------------------------------
(* What people sent: an order of the queue that claims keep                *)

\* People's messages that wait, that are claimed, and that waited at the claim.
Waiting(a) == Inbox(a) \cap Humans
Claimed(a) == ToSet(a.batch) \cap Humans
Behind(a)  == a.passed \cap Humans

\* A prompt waits once, and one behind a queued round has made the round stale.
Rows(w) ==
  LET next == w.agent.nextTurn
      t == w.driver.attempt
  IN  /\ \A i, j \in DOMAIN next : next[i] \in Humans /\ next[i] = next[j] => i = j
      /\ ToSet(w.agent.nextStep) \cap ToSet(next) = {}
      /\ \A i, j \in DOMAIN next :
           i < j /\ Matches(next[i], t) /\ next[j] \in Humans => t.stale

\* What is claimed up to the verdict waits nowhere, and a round that passes the
\* fence left nobody behind.
Fenced(w) ==
  LET a == w.agent
      t == w.driver.attempt
  IN  /\ a.pc \in {"claimed", "inner"} =>
           Claimed(a) \cap Waiting(a) = {} /\ Claimed(a) \cap Behind(a) = {}
      /\ a.pc = "claimed" => \A m \in RoundsIn(a.batch) :
           Matches(m, t) /\ Behind(a) \cap Waiting(a) # {} => t.stale
      /\ a.pc \in {"inner", "decided"} /\ ~Gone(w) /\ RoundsIn(a.batch) # {} =>
           Behind(a) \cap Waiting(a) = {}

\* v has claimed from the inbox of w, or claimed nothing and is quiet.
Taken(v, w) ==
  /\ Waiting(v.agent) \cup Claimed(v.agent) = Waiting(w.agent)
  /\ Behind(v.agent) \subseteq Waiting(w.agent) \cup Behind(w.agent)
  /\ v.agent.pc = "claimed" \/ (Idle(v) /\ v.agent.batch = <<>>)
  /\ Rows(v) /\ Fenced(v)

\* The attempt s is at no round that t is not at, and no less stale.
Fainter(s, t) == \A m : Matches(m, s) => Matches(m, t) /\ (t.stale => s.stale)

\* With such an attempt the queue is in the same order.
LEMMA RowsKept ==
  ASSUME NEW v, NEW w, Rows(w), Fainter(v.driver.attempt, w.driver.attempt),
         v.agent.nextStep = w.agent.nextStep, v.agent.nextTurn = w.agent.nextTurn
  PROVE  Rows(v)
BY DEF Rows, Fainter

\* No attempt is at any round.
LEMMA NoneFainter ==
  ASSUME NEW s, NEW t, s.phase = "none"
  PROVE  Fainter(s, t)
BY DEF Fainter, Matches

\* A claim takes from the inbox what it adds to the batch, in order.
LEMMA ClaimTakes ==
  ASSUME NEW w, Typed(w), NEW n \in {0, 1}, Rows(w)
  PROVE  Taken(Claim(w, n), w)
<1> DEFINE v == Claim(w, n)
           next == w.agent.nextTurn
           rest == v.agent.nextTurn
           t == w.driver.attempt
           s == v.driver.attempt
<1>1. /\ Typed(v) /\ Steady(v, w) /\ v.agent.pc = "claimed"
      /\ next \in Seq(Messages) /\ w.agent.nextStep \in Seq(Humans)
  BY ClaimIs, Parts DEF Agents
<1>2. PICK c \in {0, 1} : c <= Len(next) /\ ClaimOf(v, w, c)
  BY ClaimIs
<1> HIDE DEF v
<1>3. /\ rest \in Seq(Messages) /\ \A i \in DOMAIN rest : i + c \in DOMAIN next /\ rest[i] = next[i + c]
      /\ \A i \in DOMAIN next : (c = 1 /\ i = 1) \/ (i - c \in DOMAIN rest /\ rest[i - c] = next[i])
      /\ c = 1 => 1 \in DOMAIN next
  <2>1. /\ rest \in Seq(Messages) /\ Len(rest) = Len(next) - c
        /\ \A i \in DOMAIN rest : rest[i] = next[i + c]
    BY <1>2 DEF ClaimOf
  <2>2. /\ DOMAIN rest = 1..Len(next) - c /\ DOMAIN next = 1..Len(next) /\ Len(next) \in Nat
    BY <1>1, <2>1
  <2> HIDE DEF rest, next
  <2>3. \A i \in DOMAIN rest : i + c \in DOMAIN next /\ rest[i] = next[i + c]
    BY <1>2, <2>1, <2>2
  <2>4. \A i \in DOMAIN next : (c = 1 /\ i = 1) \/ (i - c \in DOMAIN rest /\ (i - c) + c = i)
    BY <1>2, <2>2
  <2> QED
    BY <1>2, <2>1, <2>2, <2>3, <2>4
<1>4. /\ \A m \in RoundsIn(v.agent.batch) : c = 1 /\ m = next[1]
      /\ \A m : m \in ToSet(v.agent.batch) <=> m \in ToSet(w.agent.nextStep) \/ (c = 1 /\ m = next[1])
      /\ v.agent.nextStep = <<>> /\ v.agent.passed = ToSet(rest)
  BY <1>2 DEF ClaimOf
<1>5. /\ ToSet(v.agent.nextStep) = {}
      /\ \A m : m \in ToSet(next) <=> m \in ToSet(rest) \/ (c = 1 /\ m = next[1])
  <2>1. ToSet(v.agent.nextStep) = {}
    BY <1>4 DEF ToSet
  <2>2. ASSUME NEW m, m \in ToSet(next)
        PROVE  m \in ToSet(rest) \/ (c = 1 /\ m = next[1])
    BY <1>3, <2>2 DEF ToSet
  <2>3. ASSUME NEW m, m \in ToSet(rest) \/ (c = 1 /\ m = next[1])
        PROVE  m \in ToSet(next)
    BY <1>3, <2>3 DEF ToSet
  <2> QED
    BY <2>1, <2>2, <2>3
<1>6. /\ Waiting(v.agent) = ToSet(rest) \cap Humans /\ Behind(v.agent) = Waiting(v.agent)
      /\ Waiting(v.agent) \cup Claimed(v.agent) = Waiting(w.agent)
  BY <1>4, <1>5 DEF Waiting, Behind, Claimed, Inbox
<1>7. \A m : Matches(m, s) => Matches(m, t) /\ s.stale = t.stale
  BY <1>1 DEF Steady, Matches
<1>8. Rows(v)
  <2>1. ASSUME NEW i \in DOMAIN rest, NEW j \in DOMAIN rest, rest[i] \in Humans, rest[i] = rest[j]
        PROVE  i = j
    <3>1. i + c = j + c
      BY <1>3, <2>1 DEF Rows
    <3> QED
      BY <1>3, <3>1
  <2>2. ASSUME NEW i \in DOMAIN rest, NEW j \in DOMAIN rest, i < j, Matches(rest[i], s),
               rest[j] \in Humans
        PROVE  s.stale
    <3>1. i + c < j + c /\ Matches(next[i + c], t) /\ next[j + c] \in Humans
      BY <1>3, <1>7, <2>2
    <3> QED
      BY <1>3, <1>7, <2>2, <3>1 DEF Rows
  <2> QED
    BY <1>5, <2>1, <2>2 DEF Rows
<1>9. ASSUME NEW h \in Claimed(v.agent)
      PROVE  h \notin Waiting(v.agent)
  <2> SUFFICES ASSUME h \in ToSet(rest) PROVE FALSE
    BY <1>6
  <2>1. PICK i \in DOMAIN rest : h = rest[i]
    BY DEF ToSet
  <2>2. h \in Humans /\ h \in ToSet(next) /\ i + c \in DOMAIN next /\ h = next[i + c] /\ i \in Nat \ {0}
    BY <1>3, <1>5, <2>1 DEF Claimed
  <2>3. c = 1 /\ h = next[1]
    BY <1>4, <2>2 DEF Claimed, Rows
  <2> QED
    BY <1>3, <2>2, <2>3 DEF Rows
<1>10. ASSUME NEW m \in RoundsIn(v.agent.batch), Matches(m, s), NEW h \in Waiting(v.agent)
       PROVE  s.stale
  <2>1. PICK j \in DOMAIN rest : h = rest[j]
    BY <1>6 DEF ToSet
  <2>2. c = 1 /\ m = next[1] /\ j + 1 \in DOMAIN next /\ h = next[j + 1] /\ 1 < j + 1 /\ h \in Humans
    BY <1>3, <1>4, <2>1 DEF Waiting
  <2> QED
    BY <1>3, <1>7, <1>10, <2>2 DEF Rows
<1>11. Fenced(v)
  BY <1>1, <1>6, <1>9, <1>10 DEF Fenced
<1> QED
  BY <1>1, <1>6, <1>8, <1>11 DEF Taken, v


\* What v took from the inbox of x, w had there.
LEMMA TakenOn ==
  ASSUME NEW v, NEW x, NEW w, Taken(v, x), Waiting(x.agent) = Waiting(w.agent),
         Behind(x.agent) \subseteq Waiting(w.agent) \cup Behind(w.agent)
  PROVE  Taken(v, w)
BY DEF Taken

\* The agent and the attempt are all that matters.
LEMMA TakenAlike ==
  ASSUME NEW v, NEW x, NEW w, Taken(x, w),
         v.agent = x.agent, v.driver.attempt = x.driver.attempt
  PROVE  Taken(v, w)
BY DEF Taken, Rows, Fenced, Idle

\* Nothing is taken by a quiet agent.
LEMMA QuietTaken ==
  ASSUME NEW v, NEW w, Rows(v), Idle(v), v.agent.batch = <<>>,
         v.agent.nextStep = w.agent.nextStep, v.agent.nextTurn = w.agent.nextTurn,
         v.agent.passed = w.agent.passed
  PROVE  Taken(v, w) /\ Waiting(v.agent) = Waiting(w.agent) /\ Behind(v.agent) = Behind(w.agent)
<1>1. Waiting(v.agent) = Waiting(w.agent) /\ Behind(v.agent) = Behind(w.agent)
      /\ Claimed(v.agent) = {}
  BY DEF Waiting, Inbox, Behind, Claimed, ToSet
<1>2. Fenced(v)
  BY DEF Fenced, Idle
<1> QED
  BY <1>1, <1>2 DEF Taken

\* The first claim of a turn.
LEMMA StartTakes ==
  ASSUME NEW w, Typed(w), Rows(w)
  PROVE  Taken(StartTurn(w), w) /\ StartTurn(w).agent.pc = "claimed"
<1> DEFINE b == [w.agent EXCEPT !.aborted = FALSE, !.latch = FALSE]
           v == [w EXCEPT !.agent = b]
<1>1. /\ b \in Agents /\ b.nextTurn = w.agent.nextTurn /\ b.nextStep = w.agent.nextStep
      /\ b.passed = w.agent.passed
  BY Parts DEF Agents
<1>2. StartTurn(w) = Claim(v, 1)
  BY Parts DEF StartTurn, Worlds
<1> HIDE DEF b
<1>3. Typed(v) /\ v.driver = w.driver /\ v.agent = b
  BY <1>1, PutAgent
<1> HIDE DEF v
<1>4. Rows(v) /\ Waiting(v.agent) = Waiting(w.agent) /\ Behind(v.agent) = Behind(w.agent)
  BY <1>1, <1>3 DEF Rows, Waiting, Behind, Inbox
<1>5. Taken(Claim(v, 1), v)
  BY <1>3, <1>4, ClaimTakes
<1>6. Taken(Claim(v, 1), w)
  BY <1>4, <1>5, TakenOn
<1> QED
  BY <1>2, <1>6, StartTurnIs

\* A wake of an idle agent is one.
LEMMA WakeTakes ==
  ASSUME NEW w, Typed(w), Rows(w), w.agent.pc = "idle"
  PROVE  Taken(Wake(w), w)
BY StartTakes DEF Wake

\* A reservation stands last in the queue, and no older round passes for it.
LEMMA ReserveTakes ==
  ASSUME NEW w, Typed(w), w.goal.rounds < w.goal.max, w.agent.pc = "idle",
         QueueFit(w), ~Gone(w), Driving(w.goal), w.driver.attempt.phase = "none", Rows(w)
  PROVE  Taken(Reserve(w), w) /\ ~Reserve(w).driver.attempt.cancelled
<1> DEFINE id == FreshId(w)
           round == w.goal.rounds + 1
           m == [id |-> id, ref |-> w.goal.ref, round |-> round]
           t == [phase |-> "queued", id |-> id, ref |-> w.goal.ref,
                 round |-> round, cancelled |-> FALSE, stale |-> FALSE]
           d == [w.driver EXCEPT !.attempt = t]
           next == w.agent.nextTurn
           longer == Append(next, m)
           a == [w.agent EXCEPT !.nextTurn = longer]
           u == [w EXCEPT !.driver = d]
           v == [u EXCEPT !.agent = a]
<1>1. /\ id \in Nat \ {0} /\ w.goal.ref \in Nat /\ round \in 1..MaxRounds
  BY FreshIdIs, Parts, GoalRoundsAssumption DEF Goals
<1>2. next \in Seq(Messages) /\ w.agent.nextStep \in Seq(Humans)
  BY Parts DEF Agents
<1>3. Reserve(w) = Wake(v)
  BY Parts DEF Reserve, Worlds
<1> HIDE DEF id, round
<1>4. m \in Messages /\ m.ref = w.goal.ref /\ m \notin Humans
  BY <1>1, GoalRoundsAssumption DEF Messages
<1> HIDE DEF m
<1>5. /\ longer \in Seq(Messages) /\ DOMAIN longer = 1..Len(next) + 1 /\ Len(next) \in Nat
      /\ longer[Len(next) + 1] = m /\ \A i \in 1..Len(next) : longer[i] = next[i]
  BY <1>2, <1>4
<1>6. /\ AttemptTyped(t) /\ t.ref = w.goal.ref /\ ~t.cancelled
  BY <1>1, GoalRoundsAssumption DEF AttemptTyped, Attempts
<1> HIDE DEF t, longer
<1>7. /\ a \in Agents /\ a.pc = "idle" /\ a.nextTurn = longer
      /\ a.nextStep = w.agent.nextStep /\ a.passed = w.agent.passed
  BY <1>5, Parts DEF Agents
<1>8. DriverTyped(d) /\ d.attempt = t
  BY <1>6, Parts DEF DriverTyped, Drivers, AttemptTyped
<1> HIDE DEF a, d
<1>9. Typed(u) /\ u.driver = d
  BY <1>8, PutDriver
<1> HIDE DEF u
<1>10. Typed(v) /\ v.agent = a /\ v.driver = d
  BY <1>7, <1>9, PutAgent
<1> HIDE DEF v
<1>11. \A i \in DOMAIN longer : \/ i \in DOMAIN next /\ longer[i] = next[i]
                                \/ i = Len(next) + 1 /\ longer[i] = m
  BY <1>2, <1>5
<1>12. \A i \in DOMAIN next : i \in DOMAIN longer /\ longer[i] = next[i]
  BY <1>2, <1>5
<1>13. ASSUME NEW i \in DOMAIN longer, NEW j \in DOMAIN longer, i < j
       PROVE  ~Matches(longer[i], t) \/ longer[j] \notin Humans
  <2>1. ASSUME i \in DOMAIN next, IsRound(next[i])
        PROVE  next[i].ref # w.goal.ref
    <3>1. next[i] \in RoundsIn(next)
      BY <2>1 DEF RoundsIn, ToSet
    <3> QED
      BY <3>1 DEF QueueFit
  <2>2. CASE j \in DOMAIN next
    <3>1. i \in DOMAIN next /\ longer[i] = next[i]
      BY <1>2, <1>11, <1>13, <2>2
    <3> QED
      BY <1>6, <2>1, <3>1 DEF Matches
  <2> QED
    BY <1>4, <1>11, <2>2
<1>14. \A k : k \in ToSet(longer) <=> k \in ToSet(next) \/ k = m
  <2>1. ASSUME NEW k, k \in ToSet(longer) PROVE k \in ToSet(next) \/ k = m
    BY <1>11, <2>1 DEF ToSet
  <2>2. m \in ToSet(longer)
    BY <1>5 DEF ToSet
  <2>3. ASSUME NEW k, k \in ToSet(next) PROVE k \in ToSet(longer)
    BY <1>12, <2>3 DEF ToSet
  <2> QED
    BY <2>1, <2>2, <2>3
<1>15. m \notin ToSet(w.agent.nextStep)
  BY <1>2, <1>4 DEF ToSet
<1>16. Rows(v)
  <2>1. ASSUME NEW i \in DOMAIN longer, NEW j \in DOMAIN longer, longer[i] \in Humans,
               longer[i] = longer[j]
        PROVE  i = j
    BY <1>4, <1>11, <2>1 DEF Rows
  <2> QED
    BY <1>7, <1>8, <1>10, <1>13, <1>14, <1>15, <2>1 DEF Rows
<1>17. Waiting(v.agent) = Waiting(w.agent) /\ Behind(v.agent) = Behind(w.agent)
  BY <1>4, <1>7, <1>10, <1>14 DEF Waiting, Behind, Inbox
<1>18. Taken(Wake(v), v) /\ v.agent.pc = "idle"
  BY <1>7, <1>10, <1>16, WakeTakes
<1>19. Taken(Wake(v), w)
  BY <1>17, <1>18, TakenOn
<1>20. ~Wake(v).driver.attempt.cancelled
  BY <1>6, <1>8, <1>10, WakeIs DEF Steady
<1> QED
  BY <1>3, <1>19, <1>20

\* What v took from y, which took from w and has nothing claimed.
LEMMA TakenTwice ==
  ASSUME NEW v, NEW y, NEW w, Taken(v, y), Taken(y, w), y.agent.batch = <<>>
  PROVE  Taken(v, w)
<1>1. Claimed(y.agent) = {}
  BY DEF Claimed, ToSet
<1>2. Waiting(y.agent) = Waiting(w.agent)
  BY <1>1 DEF Taken
<1> QED
  BY <1>2, TakenOn DEF Taken

-----------------------------------------------------------------------------
(* The driver's passes and people's messages                               *)

\* A pass of the driver leaves the agent alone or lets it claim, and makes no
\* attempt a cancelled one.
Minds(v, w) ==
  Sound(w) /\ Rows(w) =>
    /\ \/ v.agent = w.agent /\ v.driver.attempt = w.driver.attempt
       \/ Idle(w) /\ Taken(v, w)
    /\ v.driver.attempt.cancelled => v.driver.attempt = w.driver.attempt

\* drive behind its checkpoint.
LEMMA AdvanceMinds ==
  ASSUME NEW w, Typed(w), ReadyToDrive(w)
  PROVE  Minds(Advance(w), w)
<1> SUFFICES ASSUME Sound(w), Rows(w)
             PROVE  LET v == Advance(w) IN
                    /\ \/ v.agent = w.agent /\ v.driver.attempt = w.driver.attempt
                       \/ Idle(w) /\ Taken(v, w)
                    /\ v.driver.attempt.cancelled => v.driver.attempt = w.driver.attempt
  BY DEF Minds
<1>1. w.driver.life = "active" /\ Idle(w)
  BY DEF ReadyToDrive
<1>2. CASE w.driver.attempt.phase # "none"
  <2> DEFINE u == Dropped(w)
             d == [u.driver EXCEPT !.needs = TRUE]
             x == [u EXCEPT !.driver = d]
             r == Returned(x)
             v == Advance(w)
  <2>1. v = Again(r)
    BY <1>2, Parts DEF Advance, Dropped, Worlds
  <2>2. Typed(u) /\ u.agent = w.agent /\ u.driver.attempt = NoAttempt
    BY DroppedSound
  <2> HIDE DEF u
  <2>3. DriverTyped(d) /\ d.attempt = u.driver.attempt
    BY <2>2, Parts DEF DriverTyped, Drivers
  <2> HIDE DEF d
  <2>4. Typed(x) /\ x.agent = u.agent /\ x.driver = d
    BY <2>2, <2>3, PutDriver
  <2> HIDE DEF x
  <2>5. Typed(r) /\ r.agent = x.agent /\ r.driver.attempt = x.driver.attempt
    BY <2>4, ReturnedIs
  <2> HIDE DEF r, v
  <2>6. v.agent = w.agent /\ v.driver.attempt = NoAttempt
    BY <2>1, <2>2, <2>3, <2>4, <2>5, AgainIs
  <2>7. Rows(v)
    BY <2>6, NoneFainter, RowsKept DEF NoAttempt
  <2>8. Idle(v) /\ v.agent.batch = <<>>
    BY <1>1, <2>6 DEF Sound, Quiet, Idle
  <2>9. Taken(v, w)
    BY <2>6, <2>7, <2>8, QuietTaken
  <2> QED
    BY <1>1, <2>6, <2>9 DEF NoAttempt, v
<1>3. CASE Advance(w) = Returned(w)
  BY <1>3, ReturnedIs
<1>4. CASE Advance(w) = AtCap(w)
  <2> DEFINE s == Stopped(w, "blocked")
             r == Returned(s)
             f == Flushing(s)
             g == Again(r)
  <2>1. Typed(s) /\ s.agent = w.agent /\ s.driver.attempt = w.driver.attempt
    BY StoppedSound
  <2>2. AtCap(w) = f \/ AtCap(w) = g
    BY DEF AtCap
  <2> HIDE DEF s
  <2>3. f.agent = w.agent /\ f.driver.attempt = w.driver.attempt
    BY <2>1, FlushingIs
  <2>4. Typed(r) /\ r.agent = w.agent /\ r.driver.attempt = w.driver.attempt
    BY <2>1, ReturnedIs
  <2> HIDE DEF r
  <2>5. g.agent = w.agent /\ g.driver.attempt = w.driver.attempt
    BY <2>4, AgainIs
  <2> QED
    BY <1>4, <2>2, <2>3, <2>5
<1>5. CASE /\ w.driver.attempt.phase = "none" /\ Drivable(w) /\ ~(w.goal.rounds >= w.goal.max)
           /\ Advance(w) = Returned(Reserve(w))
  <2> DEFINE u == Reserve(w)
             v == Returned(u)
  <2>1. w.goal.rounds < w.goal.max
    BY <1>5, Parts, GoalRoundsAssumption DEF Goals
  <2>2. Driving(w.goal) /\ ~Gone(w) /\ w.agent.pc = "idle"
    BY <1>1, <1>5 DEF Drivable, Gone, Idle, Sound, Fit
  <2>3. Typed(u) /\ Taken(u, w) /\ ~u.driver.attempt.cancelled
    BY <1>5, <2>1, <2>2, ReserveIs, ReserveTakes DEF Sound
  <2> HIDE DEF u
  <2>4. v.agent = u.agent /\ v.driver.attempt = u.driver.attempt
    BY <2>3, ReturnedIs
  <2> HIDE DEF v
  <2>5. Taken(v, w)
    BY <2>3, <2>4, TakenAlike
  <2> QED
    BY <1>1, <1>5, <2>3, <2>4, <2>5 DEF u, v
<1> QED
  BY <1>2, <1>3, <1>4, <1>5 DEF Advance

\* drive; while it wants a checkpoint it reserves nothing.
LEMMA DriveMinds ==
  ASSUME NEW w, Typed(w)
  PROVE  /\ Minds(Drive(w), w)
         /\ w.driver.needs => /\ Drive(w).agent = w.agent
                              /\ Drive(w).driver.attempt = w.driver.attempt
<1>1. CASE Drive(w) = Returned(w) \/ Drive(w) = Flushing(w)
  BY <1>1, ReturnedIs, FlushingIs DEF Minds
<1>2. CASE ReadyToDrive(w) /\ ~w.driver.needs
  BY <1>2, AdvanceMinds DEF Drive
<1> QED
  BY <1>1, <1>2 DEF Drive

\* requestDrive.
LEMMA RequestDriveMinds ==
  ASSUME NEW w, Typed(w)
  PROVE  /\ Minds(RequestDrive(w), w)
         /\ w.driver.needs => /\ RequestDrive(w).agent = w.agent
                              /\ RequestDrive(w).driver.attempt = w.driver.attempt
<1>1. CASE RequestDrive(w) = w \/ RequestDrive(w) = Again(w)
  BY <1>1, AgainIs DEF Minds
<1>2. CASE RequestDrive(w) = Drive(w)
  BY <1>2, DriveMinds
<1> QED
  BY <1>1, <1>2 DEF RequestDrive

-----------------------------------------------------------------------------
(* The end of a turn and cancelled rounds                                  *)

\* A goal whose round was cancelled goes on only while the cancelled turn ends.
Called(w) ==
  LET t == w.driver.attempt
  IN  t.cancelled /\ t.ref = w.goal.ref /\ Driving(w.goal) /\ ~Gone(w) =>
        ~Idle(w) /\ w.agent.aborted

\* With the attempt its goal's authority ends.
Stops(v, w) ==
  LET t == w.driver.attempt
  IN  t.cancelled /\ t.ref = w.goal.ref /\ v.driver.attempt.phase = "none" =>
        ~Driving(v.goal) \/ Gone(v)

\* A goal that is driven is the one it was.
SameGoal(v, w) ==
  (Gone(v) <=> Gone(w)) /\ (Driving(v.goal) => v.goal = w.goal)

\* No attempt is none of any round.
LEMMA NoneUncancelled ==
  ASSUME NEW w, Typed(w), w.driver.attempt.phase = "none"
  PROVE  ~w.driver.attempt.cancelled
BY Parts DEF AttemptTyped

\* So it is after a pass of the driver.
LEMMA DriveCalled ==
  ASSUME NEW v, NEW w, Typed(w), Drove(v, w), Minds(v, w), Sound(w), Rows(w), Called(w)
  PROVE  Called(v) /\ Stops(v, w) /\ SameGoal(v, w)
<1>1. SameGoal(v, w)
  BY DEF Drove, SameGoal, Gone
<1>2. ASSUME v.driver.attempt.cancelled, v.driver.attempt.ref = v.goal.ref, Driving(v.goal), ~Gone(v)
      PROVE  ~Idle(v) /\ v.agent.aborted
  <2>1. v.driver.attempt = w.driver.attempt /\ v.goal = w.goal /\ ~Gone(w)
    BY <1>1, <1>2 DEF Minds, SameGoal
  <2>2. ~Idle(w) /\ w.agent.aborted
    BY <1>2, <2>1 DEF Called
  <2>3. v.agent = w.agent
    BY <2>2 DEF Minds
  <2> QED
    BY <2>2, <2>3 DEF Idle
<1>3. ASSUME w.driver.attempt.cancelled, w.driver.attempt.ref = w.goal.ref,
             v.driver.attempt.phase = "none", Driving(v.goal), ~Gone(v)
      PROVE  FALSE
  <2>1. ~Idle(w)
    BY <1>1, <1>3 DEF Called, SameGoal
  <2>2. w.driver.attempt.phase = "none"
    BY <1>3, <2>1 DEF Minds
  <2> QED
    BY <1>3, <2>2, NoneUncancelled
<1> QED
  BY <1>1, <1>2, <1>3 DEF Called, Stops

\* An idle agent whose round was cancelled has no driven goal.
Halts(v, w) ==
  ~Gone(w) /\ (w.driver.attempt.cancelled \/ v.driver.attempt.cancelled) => ~Driving(v.goal)

\* agent/status idle.
LEMMA AtIdleTakes ==
  ASSUME NEW w, Typed(w), w.agent.pc = "idle", w.agent.batch = <<>>,
         Fit(w), QueueFit(w), Rows(w)
  PROVE  Taken(AtIdle(w), w) /\ Halts(AtIdle(w), w) /\ SameGoal(AtIdle(w), w)
<1> DEFINE d == [w.driver EXCEPT !.competing = FALSE]
           u == [w EXCEPT !.driver = d]
           x == [Stopped(u, "paused") EXCEPT !.driver.attempt = NoAttempt]
           y == RequestDrive(x)
<1>1. w.driver \in Drivers /\ DriverTyped(w.driver)
  BY Parts
<1>2. DriverTyped(d) /\ d.attempt = w.driver.attempt /\ d.life = w.driver.life
  BY <1>1 DEF DriverTyped, Drivers
<1>3. AtIdle(w) = IF Gone(w) \/ w.goal.broken THEN u
                  ELSE IF Driving(u.goal) /\ Unfinished(u.driver.attempt) THEN RequestDrive(y)
                  ELSE RequestDrive(u)
  BY DEF AtIdle
<1> HIDE DEF d
<1>4. Typed(u) /\ u.goal = w.goal /\ u.agent = w.agent /\ u.driver = d
  BY <1>2, PutDriver
<1> HIDE DEF u
<1>5. Rows(u) /\ Fit(u) /\ QueueFit(u) /\ (Gone(u) <=> Gone(w))
  BY <1>2, <1>4 DEF Rows, Fit, QueueFit, Gone
<1>6. BatchFit(u)
  BY <1>4, EmptyBatch
<1>7. CASE Gone(w) \/ w.goal.broken
  <2>1. AtIdle(w) = u /\ Gone(w)
    BY <1>3, <1>7 DEF Fit
  <2>2. Taken(u, w)
    BY <1>4, <1>5, QuietTaken DEF Idle
  <2> QED
    BY <1>4, <1>5, <2>1, <2>2 DEF Halts, SameGoal
<1>8. CASE ~(Gone(w) \/ w.goal.broken) /\ Driving(u.goal) /\ Unfinished(u.driver.attempt)
  <2> DEFINE s == Stopped(u, "paused")
             v == RequestDrive(y)
  <2>1. AtIdle(w) = v
    BY <1>3, <1>8
  <2>2. /\ Typed(s) /\ s.agent = u.agent /\ ~Driving(s.goal) /\ s.driver.life = u.driver.life
        /\ Fit(s) /\ QueueFit(s)
    BY <1>4, <1>5, StoppedSound
  <2>3. x = Dropped(s)
    BY DEF Dropped
  <2> HIDE DEF s, x
  <2>4. /\ Typed(x) /\ x.agent = s.agent /\ x.goal = s.goal /\ x.driver.life = s.driver.life
        /\ x.driver.attempt = NoAttempt /\ Fit(x) /\ QueueFit(x)
    BY <2>2, <2>3, DroppedSound
  <2>5. Sound(x)
    BY <1>4, <2>2, <2>4, EmptyBatch DEF Sound, Quiet
  <2>6. Rows(x) /\ Taken(x, w)
    <3>1. Rows(x)
      BY <1>4, <1>5, <2>2, <2>4, NoneFainter, RowsKept DEF NoAttempt
    <3> QED
      BY <1>4, <2>2, <2>4, <3>1, QuietTaken DEF Idle
  <2>7. Drove(y, x) /\ Minds(y, x)
    BY <2>4, RequestDriveDrove, RequestDriveMinds
  <2> HIDE DEF y
  <2>8. Drove(v, y) /\ Minds(v, y)
    BY <2>7, RequestDriveDrove, RequestDriveMinds DEF Drove
  <2> HIDE DEF v
  <2>9. Sound(y) /\ ~Driving(y.goal) /\ ~Driving(v.goal) /\ (Gone(v) <=> Gone(w))
    BY <1>2, <1>4, <2>2, <2>4, <2>5, <2>7, <2>8 DEF Drove, Gone
  <2>10. Rows(y) /\ Taken(y, w)
    <3>1. CASE y.agent = x.agent /\ y.driver.attempt = x.driver.attempt
      BY <2>6, <3>1, TakenAlike DEF Taken
    <3>2. CASE Taken(y, x)
      <4>1. x.agent.batch = <<>>
        BY <1>4, <2>2, <2>4
      <4> QED
        BY <2>6, <3>2, <4>1, TakenTwice DEF Taken
    <3> QED
      BY <2>5, <2>6, <2>7, <3>1, <3>2 DEF Minds
  <2>11. Taken(v, w)
    <3>1. CASE v.agent = y.agent /\ v.driver.attempt = y.driver.attempt
      BY <2>10, <3>1, TakenAlike
    <3>2. CASE Taken(v, y) /\ Idle(y)
      <4>1. y.agent.batch = <<>>
        BY <2>9, <3>2 DEF Sound, Quiet
      <4> QED
        BY <2>10, <3>2, <4>1, TakenTwice
    <3> QED
      BY <2>8, <2>9, <2>10, <3>1, <3>2 DEF Minds
  <2> QED
    BY <2>1, <2>9, <2>11 DEF Halts, SameGoal
<1>9. CASE ~(Gone(w) \/ w.goal.broken) /\ ~(Driving(u.goal) /\ Unfinished(u.driver.attempt))
  <2> DEFINE v == RequestDrive(u)
  <2>1. AtIdle(w) = v
    BY <1>3, <1>9
  <2>2. Sound(u)
    BY <1>4, <1>5, <1>6, <1>9 DEF Sound, Quiet, Unfinished
  <2>3. Drove(v, u) /\ Minds(v, u)
    BY <1>4, RequestDriveDrove, RequestDriveMinds
  <2> HIDE DEF v
  <2>4. Taken(u, w)
    BY <1>4, <1>5, QuietTaken DEF Idle
  <2>5. Taken(v, w)
    <3>1. CASE v.agent = u.agent /\ v.driver.attempt = u.driver.attempt
      BY <2>4, <3>1, TakenAlike
    <3>2. CASE Taken(v, u)
      BY <1>4, <2>4, <3>2, TakenTwice
    <3> QED
      BY <1>5, <2>2, <2>3, <3>1, <3>2 DEF Minds
  <2>6. SameGoal(v, w)
    BY <1>2, <1>4, <2>3 DEF Drove, SameGoal, Gone
  <2>7. Halts(v, w)
    <3> SUFFICES ASSUME w.driver.attempt.cancelled \/ v.driver.attempt.cancelled PROVE ~Driving(v.goal)
      BY DEF Halts
    <3>1. u.driver.attempt.cancelled
      BY <1>2, <1>4, <1>5, <2>2, <2>3 DEF Minds
    <3>2. ~Driving(u.goal)
      BY <1>9, <3>1 DEF Unfinished
    <3> QED
      BY <2>3, <3>2 DEF Drove
  <2> QED
    BY <2>1, <2>5, <2>6, <2>7
<1> QED
  BY <1>7, <1>8, <1>9

\* A turn is over and the agent idle.
LEMMA RetireTakes ==
  ASSUME NEW w, Typed(w), Fit(w), QueueFit(w), Rows(w)
  PROVE  Taken(Retire(w), w) /\ Halts(Retire(w), w) /\ SameGoal(Retire(w), w)
<1> DEFINE b == [w.agent EXCEPT !.pc = "idle", !.batch = <<>>, !.aborted = FALSE, !.latch = FALSE]
           u == [w EXCEPT !.agent = b]
           v == AtIdle(u)
           x == Wake(v)
<1>1. w.agent \in Agents
  BY Parts
<1>2. /\ b \in Agents /\ b.pc = "idle" /\ b.batch = <<>> /\ b.nextTurn = w.agent.nextTurn
      /\ b.nextStep = w.agent.nextStep /\ b.passed = w.agent.passed
  BY <1>1, EmptySeq DEF Agents
<1>3. Retire(w) = IF w.agent.latch /\ HasPending(v.agent) THEN x ELSE v
  <2>1. u = [w EXCEPT !.agent.pc = "idle", !.agent.batch = <<>>, !.agent.aborted = FALSE,
                      !.agent.latch = FALSE]
    BY Parts DEF Worlds
  <2> HIDE DEF u
  <2> QED
    BY <2>1 DEF Retire
<1> HIDE DEF b
<1>4. Typed(u) /\ u.goal = w.goal /\ u.driver = w.driver /\ u.agent = b
  BY <1>2, PutAgent
<1> HIDE DEF u
<1>5. /\ Fit(u) /\ QueueFit(u) /\ Rows(u)
      /\ Waiting(u.agent) = Waiting(w.agent) /\ Behind(u.agent) = Behind(w.agent)
  BY <1>2, <1>4 DEF Fit, QueueFit, Rows, Gone, Waiting, Behind, Inbox
<1>6. Taken(v, u) /\ Halts(v, u) /\ SameGoal(v, u) /\ Typed(v)
  BY <1>2, <1>4, <1>5, AtIdleTakes, AtIdleFollows DEF Follows
<1> HIDE DEF v
<1>7. Taken(v, w) /\ Halts(v, w) /\ SameGoal(v, w)
  <2>1. Taken(v, w)
    BY <1>5, <1>6, TakenOn
  <2> QED
    BY <1>4, <1>6, <2>1 DEF Halts, SameGoal, Gone
<1>8. Steady(x, v)
  BY <1>6, WakeIs
<1>9. Taken(x, w)
  <2>1. CASE v.agent.pc = "idle"
    <3>1. Taken(x, v) /\ v.agent.batch = <<>>
      BY <1>6, <1>7, <2>1, WakeTakes DEF Taken
    <3> HIDE DEF x
    <3> QED
      BY <1>7, <3>1, TakenTwice
  <2>2. CASE v.agent.pc = "claimed"
    <3>1. x = v
      BY <2>2 DEF Wake
    <3> QED
      BY <1>7, <3>1
  <2>3. CASE v.agent.pc = "maintenance"
    <3>1. /\ x.agent.pc = v.agent.pc /\ x.agent.batch = v.agent.batch /\ x.driver = v.driver
          /\ x.agent.nextStep = v.agent.nextStep /\ x.agent.nextTurn = v.agent.nextTurn
          /\ x.agent.passed = v.agent.passed
      BY <1>6, <2>3, WakeIs DEF Alike
    <3> HIDE DEF x
    <3>2. Rows(x) /\ Idle(x) /\ v.agent.batch = <<>>
      BY <1>7, <2>3, <3>1 DEF Taken, Rows, Idle
    <3>3. Taken(x, v)
      BY <3>1, <3>2, QuietTaken
    <3> QED
      BY <1>7, <3>2, <3>3, TakenTwice
  <2> QED
    BY <1>7, <2>1, <2>2, <2>3 DEF Taken, Idle
<1>10. Halts(x, w) /\ SameGoal(x, w)
  BY <1>7, <1>8 DEF Halts, SameGoal, Steady, Gone
<1> QED
  BY <1>3, <1>7, <1>9, <1>10

\* The end of a turn: one that is cut short halts a goal whose round was cancelled.
LEMMA EndTurnTakes ==
  ASSUME NEW w, Typed(w), NEW reason, Fit(w), QueueFit(w), Rows(w),
         reason \in {"completed", "max-tokens"} => Called(w) /\ ~w.agent.aborted
  PROVE  LET v == EndTurn(w, reason)
         IN  Taken(v, w) /\ Called(v) /\ Stops(v, w) /\ SameGoal(v, w)
<1> DEFINE v == Heard(w, reason)
           b == [v.agent EXCEPT !.batch = <<>>]
           u == [v EXCEPT !.agent = b]
           z == StartTurn(u)
           r == Retire(v)
           x == EndTurn(w, reason)
<1>1. /\ Typed(v) /\ Alike(v, w) /\ v.agent = w.agent
      /\ Driving(v.goal) => v.goal = w.goal
      /\ v.driver.life = w.driver.life
      /\ v.driver.attempt.stale = w.driver.attempt.stale
      /\ w.driver.attempt.cancelled => v.driver.attempt.cancelled
      /\ reason \in {"completed", "max-tokens"} => v.driver = w.driver
  BY HeardIs
<1>2. x = IF reason \in {"completed", "max-tokens"} /\ HasPending(v.agent) THEN z ELSE r
  BY DEF EndTurn
<1> HIDE DEF v, x
<1>3. v.agent \in Agents
  BY <1>1, Parts
<1>4. /\ b \in Agents /\ b.nextTurn = v.agent.nextTurn /\ b.nextStep = v.agent.nextStep
      /\ b.passed = v.agent.passed
  BY <1>3, EmptySeq DEF Agents
<1> HIDE DEF b
<1>5. Typed(u) /\ u.goal = v.goal /\ u.driver = v.driver /\ u.agent = b
  BY <1>1, <1>4, PutAgent
<1> HIDE DEF u
<1>6. Fit(v) /\ QueueFit(v) /\ SameGoal(v, w)
  BY <1>1, AlikeSound DEF SameGoal, Gone
<1>7. Rows(v) /\ Rows(u)
  <2>1. Fainter(v.driver.attempt, w.driver.attempt)
    BY <1>1 DEF Alike, Fainter, Matches
  <2>2. Rows(v)
    BY <1>1, <2>1, RowsKept
  <2> QED
    BY <1>4, <1>5, <2>2 DEF Rows
<1>8. CASE reason \in {"completed", "max-tokens"} /\ x = z
  <2>1. Taken(z, u) /\ Steady(z, u) /\ z.agent.pc = "claimed" /\ Typed(z)
    BY <1>5, <1>7, StartTakes, StartTurnIs
  <2> HIDE DEF z
  <2>2. Waiting(u.agent) = Waiting(w.agent) /\ Behind(u.agent) = Behind(w.agent)
    BY <1>1, <1>4, <1>5 DEF Waiting, Behind, Inbox
  <2>3. Taken(z, w)
    BY <2>1, <2>2, TakenOn
  <2>4. /\ z.goal = v.goal /\ z.driver.life = w.driver.life
        /\ z.driver.attempt.cancelled = w.driver.attempt.cancelled
        /\ z.driver.attempt.ref = w.driver.attempt.ref
        /\ z.driver.attempt.phase = "none" <=> w.driver.attempt.phase = "none"
    BY <1>1, <1>5, <1>8, <2>1 DEF Steady
  <2>5. SameGoal(z, w)
    BY <1>6, <2>4 DEF SameGoal, Gone
  <2>6. Called(z)
    BY <1>8, <2>4, <2>5 DEF Called, SameGoal
  <2>7. Stops(z, w)
    BY <2>4, NoneUncancelled DEF Stops
  <2> QED
    BY <1>8, <2>3, <2>5, <2>6, <2>7 DEF x
<1>9. CASE x = r
  <2>1. Taken(r, v) /\ Halts(r, v) /\ SameGoal(r, v)
    BY <1>1, <1>6, <1>7, RetireTakes
  <2> HIDE DEF r
  <2>2. Taken(r, w)
    BY <1>1, <2>1, TakenOn
  <2>3. SameGoal(r, w)
    BY <1>6, <2>1 DEF SameGoal
  <2>4. Called(r) /\ Stops(r, w)
    BY <1>1, <1>6, <2>1 DEF Halts, Called, Stops, SameGoal
  <2> QED
    BY <1>9, <2>2, <2>3, <2>4 DEF x
<1> QED
  BY <1>2, <1>8, <1>9

-----------------------------------------------------------------------------
(* The fence and people's messages                                         *)

\* A world in which people come first.
Cordial(w) == Rows(w) /\ Fenced(w) /\ Called(w)

\* The messages are where they were; or what was claimed is back in the inbox.
Holds(v, w) ==
  /\ Waiting(v.agent) = Waiting(w.agent) /\ Claimed(v.agent) = Claimed(w.agent)
  /\ Behind(v.agent) = Behind(w.agent)

Returns(v, w) ==
  /\ Waiting(v.agent) = Waiting(w.agent) \cup Claimed(w.agent)
  /\ Claimed(v.agent) = Claimed(w.agent) /\ Behind(v.agent) = Behind(w.agent)

\* An agent with the same queues and batch holds the same messages.
LEMMA SameHolds ==
  ASSUME NEW v, NEW w,
         v.agent.nextStep = w.agent.nextStep, v.agent.nextTurn = w.agent.nextTurn,
         v.agent.batch = w.agent.batch, v.agent.passed = w.agent.passed
  PROVE  Holds(v, w)
BY DEF Holds, Waiting, Claimed, Behind, Inbox

\* No cancelled round is about while the agent is not aborted, so an attempt may go.
LEMMA CalmCalled ==
  ASSUME NEW v, NEW w, Typed(v), Called(w), ~w.agent.aborted,
         Gone(v) <=> Gone(w),
         Driving(v.goal) => Driving(w.goal) /\ v.goal.ref = w.goal.ref,
         \/ v.driver.attempt.phase = "none"
         \/ /\ v.driver.attempt.cancelled = w.driver.attempt.cancelled
            /\ v.driver.attempt.ref = w.driver.attempt.ref
  PROVE  Called(v) /\ Stops(v, w)
<1>1. v.driver.attempt.phase = "none" => ~v.driver.attempt.cancelled
  BY NoneUncancelled
<1>2. Called(v)
  BY <1>1 DEF Called
<1>3. Stops(v, w)
  BY DEF Called, Stops
<1> QED
  BY <1>2, <1>3

\* Nor does the goal of an attempt that stays, while its turn does.
LEMMA HeldCalled ==
  ASSUME NEW v, NEW w, Typed(w), Called(w), Gone(v) <=> Gone(w),
         Driving(v.goal) => Driving(w.goal) /\ v.goal.ref = w.goal.ref,
         v.driver.attempt.cancelled = w.driver.attempt.cancelled,
         v.driver.attempt.ref = w.driver.attempt.ref,
         v.driver.attempt.phase = "none" => w.driver.attempt.phase = "none",
         ~Idle(w) => ~Idle(v) /\ (w.agent.aborted => v.agent.aborted)
  PROVE  Called(v) /\ Stops(v, w)
<1>1. Called(v)
  BY DEF Called
<1>2. Stops(v, w)
  BY NoneUncancelled DEF Stops
<1> QED
  BY <1>1, <1>2

\* restoreOtherClaimed brings all of people's back.
LEMMA RestoreReturns ==
  ASSUME NEW w, Typed(w)
  PROVE  LET v == Restore(w) IN
         /\ Typed(v) /\ Returns(v, w) /\ (Rows(w) => Rows(v))
         /\ v.goal = w.goal /\ v.driver = w.driver
         /\ v.agent.pc = w.agent.pc /\ v.agent.aborted = w.agent.aborted
         /\ v.agent.batch = w.agent.batch
<1> DEFINE v == Restore(w)
<1>1. /\ Typed(v) /\ v.goal = w.goal /\ v.driver = w.driver
      /\ v.agent = [w.agent EXCEPT !.nextStep = v.agent.nextStep] /\ w.agent \in Agents
      /\ \A m : m \in ToSet(v.agent.nextStep) <=>
                \/ m \in ToSet(w.agent.nextStep)
                \/ m \in ToSet(w.agent.batch) /\ ~IsRound(m) /\ m \notin Inbox(w.agent)
  BY RestoreIs, Parts
<1> HIDE DEF v
<1>2. /\ v.agent.pc = w.agent.pc /\ v.agent.batch = w.agent.batch
      /\ v.agent.nextTurn = w.agent.nextTurn /\ v.agent.aborted = w.agent.aborted
      /\ v.agent.passed = w.agent.passed
  BY <1>1 DEF Agents
<1>3. Returns(v, w)
  BY <1>1, <1>2, Zenon DEF Returns, Waiting, Claimed, Behind, Inbox, IsRound
<1>4. Rows(w) => Rows(v)
  <2>1. Rows(w) => ToSet(v.agent.nextStep) \cap ToSet(v.agent.nextTurn) = {}
    BY <1>1, <1>2, Zenon DEF Rows, Inbox
  <2> QED
    BY <1>1, <1>2, <2>1 DEF Rows
<1> QED
  BY <1>1, <1>2, <1>3, <1>4 DEF v

\* A rejected batch.
LEMMA RejectedIs ==
  ASSUME NEW x, Typed(x), ~Idle(x), NEW v, v = Rejected(x) \/ v = Rejected(RequestDrive(x))
  PROVE  /\ Typed(v) /\ v.goal = x.goal /\ v.driver.attempt = x.driver.attempt
         /\ (Gone(v) <=> Gone(x)) /\ v.agent.pc = "rejected"
         /\ v.agent.nextStep = x.agent.nextStep /\ v.agent.nextTurn = x.agent.nextTurn
         /\ v.agent.batch = x.agent.batch /\ v.agent.passed = x.agent.passed
         /\ v.agent.aborted = x.agent.aborted
<1>1. PICK y : /\ v = Rejected(y) /\ Typed(y) /\ y.goal = x.goal /\ y.agent = x.agent
               /\ y.driver.attempt = x.driver.attempt /\ y.driver.life = x.driver.life
  BY RequestDriveDrove DEF Drove
<1>2. v = [y EXCEPT !.agent.pc = "rejected"]
  BY <1>1 DEF Rejected
<1>3. /\ Typed(v) /\ v.goal = y.goal /\ v.driver = y.driver /\ v.agent.pc = "rejected"
      /\ v.agent.batch = y.agent.batch /\ v.agent.nextTurn = y.agent.nextTurn
      /\ v.agent.aborted = y.agent.aborted /\ v.agent.nextStep = y.agent.nextStep
      /\ v.agent.passed = y.agent.passed
  BY <1>1, PlaceIs DEF Rejected
<1> QED
  BY <1>1, <1>3 DEF Gone

\* What the driver does with a batch: it goes on, or is rejected.
Ruled(v, w) ==
  /\ Typed(v) /\ Cordial(v) /\ Stops(v, w)
  /\ v.agent.pc \in {"inner", "decided", "rejected"}

\* It is rejected after what was claimed went back.
LEMMA GivenBack ==
  ASSUME NEW w, Typed(w), Cordial(w), ~Idle(w), ~w.agent.aborted,
         NEW r, Typed(r), r.goal = w.goal, r.agent = w.agent, Gone(r) <=> Gone(w),
         r.driver.attempt = w.driver.attempt \/ r.driver.attempt.phase = "none",
         NEW v, v = Rejected(RequestDrive(Restore(r)))
  PROVE  Ruled(v, w) /\ Returns(v, w)
<1> DEFINE x == Restore(r)
<1>1. Rows(r) /\ ~Idle(r)
  <2>1. Fainter(r.driver.attempt, w.driver.attempt)
    BY NoneFainter DEF Fainter
  <2> QED
    BY <2>1, RowsKept DEF Cordial, Idle
<1>2. /\ Typed(x) /\ Returns(x, r) /\ Rows(x) /\ x.goal = r.goal /\ x.driver = r.driver
      /\ x.agent.pc = r.agent.pc /\ x.agent.aborted = r.agent.aborted
  BY <1>1, RestoreReturns
<1>3. v = Rejected(RequestDrive(x)) /\ ~Idle(x)
  BY <1>1, <1>2 DEF Idle
<1> HIDE DEF x
<1>4. /\ Typed(v) /\ v.goal = x.goal /\ v.driver.attempt = x.driver.attempt
      /\ (Gone(v) <=> Gone(x)) /\ v.agent.pc = "rejected"
      /\ v.agent.nextStep = x.agent.nextStep /\ v.agent.nextTurn = x.agent.nextTurn
      /\ v.agent.batch = x.agent.batch /\ v.agent.passed = x.agent.passed
  BY <1>2, <1>3, RejectedIs
<1>5. Holds(v, x) /\ Rows(v)
  BY <1>2, <1>4, SameHolds DEF Rows
<1>6. Returns(v, w)
  BY <1>2, <1>5 DEF Holds, Returns
<1>7. Fenced(v)
  BY <1>4 DEF Fenced
<1>8. Called(v) /\ Stops(v, w)
  BY <1>2, <1>4, CalmCalled DEF Cordial, Gone
<1> QED
  BY <1>4, <1>5, <1>6, <1>7, <1>8 DEF Ruled, Cordial

\* The driver's first check lets nothing past a prompt that waited.
LEMMA FenceRules ==
  ASSUME NEW w, Typed(w), w.agent.pc = "claimed", ~w.agent.aborted, ~Gone(w),
         RoundsIn(w.agent.batch) # {}, Sound(w), Cordial(w)
  PROVE  LET v == Fence(w)
         IN  Ruled(v, w) /\ (Returns(v, w) \/ (Holds(v, w) /\ v.agent.pc = "inner"))
<1> DEFINE m == Submitted(w)
           t == w.driver.attempt
           v == Fence(w)
<1>1. m \in RoundsIn(w.agent.batch) /\ ~Idle(w)
  BY SubmittedIs DEF Idle
<1>2. CASE ValidReservation(w)
  <2>1. v = [w EXCEPT !.agent.pc = "inner"]
    BY <1>2 DEF Fence
  <2> HIDE DEF v
  <2>2. /\ Typed(v) /\ v.goal = w.goal /\ v.driver = w.driver /\ v.agent.pc = "inner"
        /\ v.agent.batch = w.agent.batch /\ v.agent.nextTurn = w.agent.nextTurn
        /\ v.agent.nextStep = w.agent.nextStep /\ v.agent.passed = w.agent.passed
    BY <2>1, PlaceIs
  <2>3. Holds(v, w)
    BY <2>2, SameHolds
  <2>4. Behind(w.agent) \cap Waiting(w.agent) = {}
    <3>1. Matches(m, t) /\ ~t.stale
      BY <1>2 DEF ValidReservation
    <3> QED
      BY <1>1, <3>1 DEF Cordial, Fenced
  <2>5. Fenced(v) /\ Rows(v)
    BY <2>2, <2>3, <2>4 DEF Cordial, Fenced, Holds, Rows
  <2>6. Called(v) /\ Stops(v, w)
    BY <2>2, CalmCalled DEF Cordial, Gone
  <2> QED
    BY <2>2, <2>3, <2>5, <2>6 DEF Ruled, Cordial, v
<1>3. CASE ~ValidReservation(w)
  <2> DEFINE r == IF Matches(m, t) THEN Dropped(w) ELSE w
  <2>1. v = Rejected(RequestDrive(Restore(r)))
    BY <1>3 DEF Fence
  <2> HIDE DEF v
  <2>2. /\ Typed(r) /\ r.goal = w.goal /\ r.agent = w.agent /\ (Gone(r) <=> Gone(w))
        /\ r.driver.attempt = w.driver.attempt \/ r.driver.attempt.phase = "none"
    BY DroppedSound DEF NoAttempt, Gone
  <2> HIDE DEF r
  <2>3. Ruled(v, w) /\ Returns(v, w)
    BY <1>1, <2>1, <2>2, GivenBack
  <2> QED
    BY <2>3 DEF v
<1> QED
  BY <1>2, <1>3

\* So does the second, behind whatever the listeners inside did.
LEMMA RecheckRules ==
  ASSUME NEW w, Typed(w), w.agent.pc = "inner", Sound(w), Cordial(w)
  PROVE  LET v == Recheck(w)
         IN  Ruled(v, w) /\ (Returns(v, w) \/ (Holds(v, w) /\ v.agent.pc = "decided"))
<1> DEFINE v == Recheck(w)
<1>0. ~Idle(w)
  BY DEF Idle
<1>1. CASE w.agent.aborted
  <2> DEFINE x == Restore(w)
  <2>1. v = [x EXCEPT !.agent.pc = "decided"]
    BY <1>1 DEF Recheck
  <2> HIDE DEF v
  <2>2. /\ Typed(x) /\ Returns(x, w) /\ Rows(x) /\ x.goal = w.goal /\ x.driver = w.driver
        /\ x.agent.aborted = w.agent.aborted /\ x.agent.batch = w.agent.batch
    BY RestoreReturns DEF Cordial
  <2> HIDE DEF x
  <2>3. /\ Typed(v) /\ v.goal = x.goal /\ v.driver = x.driver /\ v.agent.pc = "decided"
        /\ v.agent.batch = x.agent.batch /\ v.agent.nextTurn = x.agent.nextTurn
        /\ v.agent.aborted = x.agent.aborted
        /\ v.agent.nextStep = x.agent.nextStep /\ v.agent.passed = x.agent.passed
    BY <2>1, <2>2, PlaceIs
  <2>4. Holds(v, x) /\ Rows(v)
    BY <2>2, <2>3, SameHolds DEF Rows
  <2>5. Returns(v, w)
    BY <2>2, <2>4 DEF Holds, Returns
  <2>6. Fenced(v)
    BY <2>2, <2>3, <2>5 DEF Cordial, Fenced, Returns, Gone
  <2>7. Called(v) /\ Stops(v, w)
    BY <1>0, <2>2, <2>3, HeldCalled DEF Cordial, Gone, Idle
  <2> QED
    BY <2>3, <2>4, <2>5, <2>6, <2>7 DEF Ruled, Cordial, v
<1>2. CASE ~w.agent.aborted /\ ValidReservation(w)
  <2>1. v = [w EXCEPT !.agent.pc = "decided"]
    BY <1>2 DEF Recheck
  <2> HIDE DEF v
  <2>2. /\ Typed(v) /\ v.goal = w.goal /\ v.driver = w.driver /\ v.agent.pc = "decided"
        /\ v.agent.batch = w.agent.batch /\ v.agent.nextTurn = w.agent.nextTurn
        /\ v.agent.nextStep = w.agent.nextStep /\ v.agent.passed = w.agent.passed
    BY <2>1, PlaceIs
  <2>3. Holds(v, w)
    BY <2>2, SameHolds
  <2>4. Fenced(v) /\ Rows(v)
    BY <2>2, <2>3 DEF Cordial, Fenced, Holds, Rows, Gone
  <2>5. Called(v) /\ Stops(v, w)
    BY <1>2, <2>2, CalmCalled DEF Cordial, Gone
  <2> QED
    BY <2>2, <2>3, <2>4, <2>5 DEF Ruled, Cordial, v
<1>3. CASE ~w.agent.aborted /\ ~ValidReservation(w)
  <2> DEFINE r == Dropped(w)
  <2>1. v = Rejected(RequestDrive(Restore(r)))
    BY <1>3 DEF Recheck
  <2> HIDE DEF v
  <2>2. /\ Typed(r) /\ r.goal = w.goal /\ r.agent = w.agent /\ (Gone(r) <=> Gone(w))
        /\ r.driver.attempt.phase = "none"
    BY DroppedSound DEF NoAttempt, Gone
  <2> HIDE DEF r
  <2>3. Ruled(v, w) /\ Returns(v, w)
    BY <1>0, <1>3, <2>1, <2>2, GivenBack
  <2> QED
    BY <2>3 DEF v
<1> QED
  BY <1>1, <1>2, <1>3

\* The listeners inside the driver's reject.
LEMMA VetoRules ==
  ASSUME NEW w, Typed(w), w.agent.pc = "inner", Cordial(w)
  PROVE  LET v == Veto(w)
         IN  Ruled(v, w) /\ Holds(v, w) /\ v.agent.pc = "rejected"
<1> DEFINE r == Dropped(w)
           s == Stopped(r, "blocked")
           v == Veto(w)
<1>0. ~Idle(w)
  BY DEF Idle
<1>1. /\ Typed(r) /\ r.goal = w.goal /\ r.agent = w.agent /\ (Gone(r) <=> Gone(w))
      /\ r.driver.attempt.phase = "none"
  BY DroppedSound DEF NoAttempt, Gone
<1>2. \/ v = Rejected(w) /\ w.agent.aborted
      \/ v = Rejected(r) /\ ~w.agent.aborted
      \/ v = Rejected(RequestDrive(s)) /\ ~w.agent.aborted
  BY DEF Veto
<1> HIDE DEF r
<1>3. /\ Typed(s) /\ s.agent = r.agent /\ ~Driving(s.goal) /\ (Gone(s) <=> Gone(r))
      /\ s.driver.attempt = r.driver.attempt
  BY <1>1, StoppedSound DEF Gone
<1> HIDE DEF s, v
<1>4. PICK x \in {w, r, s} :
        /\ v = Rejected(x) \/ v = Rejected(RequestDrive(x))
        /\ x = w \/ ~w.agent.aborted
  BY <1>2
<1>5. /\ Typed(x) /\ ~Idle(x) /\ x.agent = w.agent /\ (Gone(x) <=> Gone(w))
      /\ Driving(x.goal) => x.goal = w.goal
      /\ x.driver.attempt = w.driver.attempt \/ x.driver.attempt.phase = "none"
      /\ x = w \/ x.driver.attempt.phase = "none"
  BY <1>0, <1>1, <1>3 DEF Idle
<1>6. /\ Typed(v) /\ v.goal = x.goal /\ v.driver.attempt = x.driver.attempt
      /\ (Gone(v) <=> Gone(x)) /\ v.agent.pc = "rejected"
      /\ v.agent.nextStep = x.agent.nextStep /\ v.agent.nextTurn = x.agent.nextTurn
      /\ v.agent.batch = x.agent.batch /\ v.agent.passed = x.agent.passed
      /\ v.agent.aborted = x.agent.aborted
  BY <1>4, <1>5, RejectedIs
<1>7. Holds(v, w) /\ Fenced(v)
  BY <1>5, <1>6, SameHolds DEF Fenced
<1>8. Rows(v)
  <2>1. Fainter(v.driver.attempt, w.driver.attempt)
    BY <1>5, <1>6, NoneFainter DEF Fainter
  <2> QED
    BY <1>5, <1>6, <2>1, RowsKept DEF Cordial
<1>9. Called(v) /\ Stops(v, w)
  <2>1. CASE x = w
    BY <1>0, <1>6, <2>1, HeldCalled DEF Cordial, Idle
  <2>2. CASE ~w.agent.aborted
    BY <1>5, <1>6, <2>2, CalmCalled DEF Cordial
  <2> QED
    BY <1>4, <2>1, <2>2
<1> QED
  BY <1>6, <1>7, <1>8, <1>9 DEF Ruled, Cordial, v

\* What a handler that ends a turn leaves.
Ends(v, w) == Typed(v) /\ Taken(v, w) /\ Cordial(v) /\ Stops(v, w)

\* The end of a turn.
LEMMA EndTurnEnds ==
  ASSUME NEW w, Typed(w), NEW reason, Sound(w), Cordial(w),
         reason \in {"completed", "max-tokens"} => ~w.agent.aborted
  PROVE  Ends(EndTurn(w, reason), w)
<1>1. Fit(w) /\ QueueFit(w) /\ Rows(w) /\ Called(w)
  BY DEF Sound, Cordial
<1>2. LET v == EndTurn(w, reason)
      IN  Taken(v, w) /\ Called(v) /\ Stops(v, w) /\ SameGoal(v, w)
  BY <1>1, EndTurnTakes
<1>3. Typed(EndTurn(w, reason))
  BY EndTurnFollows DEF Follows
<1> QED
  BY <1>2, <1>3 DEF Ends, Cordial, Taken

\* The listeners inside throw.
LEMMA ThrownEnds ==
  ASSUME NEW w, Typed(w), w.agent.pc = "inner", Sound(w), Cordial(w)
  PROVE  Ends(Thrown(w), w)
<1> DEFINE x == Dropped(w)
           y == RequestDrive(x)
           v == EndTurn(y, "error")
<1>1. CASE w.agent.aborted
  <2>1. Thrown(w) = EndTurn(w, "aborted")
    BY <1>1 DEF Thrown
  <2> QED
    BY <2>1, EndTurnEnds
<1>2. CASE ~w.agent.aborted
  <2>1. Thrown(w) = v
    BY <1>2 DEF Thrown
  <2>2. /\ Typed(x) /\ x.goal = w.goal /\ x.agent = w.agent /\ (Gone(x) <=> Gone(w))
        /\ x.driver.attempt.phase = "none" /\ ~Idle(x)
    BY DroppedSound DEF NoAttempt, Gone, Idle
  <2>3. Fit(x) /\ QueueFit(x)
    <3>1. w.driver.attempt.phase # "queued" \/ Gone(w)
      BY DEF Sound, BatchFit
    <3> QED
      BY <3>1, DroppedSound DEF Sound
  <2> HIDE DEF x
  <2>4. /\ Typed(y) /\ y.goal = x.goal /\ y.agent = x.agent /\ (Gone(y) <=> Gone(x))
        /\ y.driver.attempt = x.driver.attempt
    BY <2>2, RequestDriveDrove DEF Drove, Gone
  <2> HIDE DEF y
  <2>5. Fit(y) /\ QueueFit(y)
    BY <2>3, <2>4 DEF Fit, QueueFit
  <2>6. Rows(y) /\ Holds(y, w)
    <3>1. Fainter(y.driver.attempt, w.driver.attempt)
      BY <2>2, <2>4, NoneFainter
    <3> QED
      BY <2>2, <2>4, <3>1, RowsKept, SameHolds DEF Cordial
  <2>7. Taken(v, y) /\ Called(v) /\ SameGoal(v, y) /\ Typed(v)
    BY <2>4, <2>5, <2>6, EndTurnTakes, EndTurnFollows DEF Follows
  <2> HIDE DEF v
  <2>8. Taken(v, w)
    BY <2>6, <2>7, TakenOn DEF Holds
  <2>9. Stops(v, w)
    BY <1>2, <2>2, <2>4, <2>7 DEF Stops, SameGoal, Called, Cordial
  <2> QED
    BY <2>1, <2>7, <2>8, <2>9 DEF Ends, Cordial, Taken
<1> QED
  BY <1>1, <1>2

-----------------------------------------------------------------------------
(* Where people's messages are                                             *)

\* Of the messages s that were sent, e are ended: the rest waits or is claimed, and
\* what is at rest in a batch is back in the inbox or ended.
Accounts(a, s, e) ==
  /\ s \subseteq Waiting(a) \cup Claimed(a) \cup e
  /\ Waiting(a) \cup Claimed(a) \cup Behind(a) \cup e \subseteq s
  /\ e \cap Waiting(a) = {}
  /\ a.pc \in {"claimed", "inner"} => e \cap Claimed(a) = {}
  /\ a.pc \in {"rejected", "stepping", "idle", "maintenance"} => Claimed(a) \subseteq Waiting(a) \cup e

\* What is claimed and not back in the inbox ends, or nothing does.
Ended(w, e, f) == f = e \cup (Claimed(w.agent) \ Waiting(w.agent))

\* The messages stay where they are, but for those that end.
LEMMA HoldsAccounts ==
  ASSUME NEW v, NEW w, Holds(v, w), NEW s, NEW e, Accounts(w.agent, s, e),
         NEW f, f = e \/ Ended(w, e, f),
         v.agent.pc \in {"claimed", "inner"} => w.agent.pc \in {"claimed", "inner"} /\ f = e,
         v.agent.pc \in {"rejected", "stepping", "idle", "maintenance"} =>
           \/ w.agent.pc \in {"rejected", "stepping", "idle", "maintenance"}
           \/ Ended(w, e, f)
  PROVE  Accounts(v.agent, s, f)
<1> DEFINE W == Waiting(w.agent)
           C == Claimed(w.agent)
           B == Behind(w.agent)
<1>1. Waiting(v.agent) = W /\ Claimed(v.agent) = C /\ Behind(v.agent) = B
  BY DEF Holds
<1>2. s \subseteq W \cup C \cup e /\ W \cup C \cup B \cup e \subseteq s /\ e \cap W = {}
  BY DEF Accounts
<1>3. w.agent.pc \in {"claimed", "inner"} => e \cap C = {}
  BY DEF Accounts
<1>4. w.agent.pc \in {"rejected", "stepping", "idle", "maintenance"} => C \subseteq W \cup e
  BY DEF Accounts
<1>5. f = e \/ f = e \cup (C \ W)
  BY DEF Ended
<1>6. v.agent.pc \in {"rejected", "stepping", "idle", "maintenance"} =>
        C \subseteq W \cup e \/ f = e \cup (C \ W)
  BY <1>4 DEF Ended
<1>7. v.agent.pc \in {"claimed", "inner"} => f = e /\ e \cap C = {}
  BY <1>3
<1> HIDE DEF W, C, B
<1>8. s \subseteq W \cup C \cup f /\ W \cup C \cup B \cup f \subseteq s /\ f \cap W = {}
  BY <1>2, <1>5
<1>9. v.agent.pc \in {"rejected", "stepping", "idle", "maintenance"} => C \subseteq W \cup f
  BY <1>5, <1>6
<1> QED
  BY <1>1, <1>7, <1>8, <1>9 DEF Accounts

\* What was claimed goes back.
LEMMA ReturnsAccounts ==
  ASSUME NEW v, NEW w, Returns(v, w), NEW s, NEW e, Accounts(w.agent, s, e),
         w.agent.pc \in {"claimed", "inner"}
  PROVE  Accounts(v.agent, s, e)
<1> DEFINE W == Waiting(w.agent)
           C == Claimed(w.agent)
           B == Behind(w.agent)
<1>1. Waiting(v.agent) = W \cup C /\ Claimed(v.agent) = C /\ Behind(v.agent) = B
  BY DEF Returns
<1>2. /\ s \subseteq W \cup C \cup e /\ W \cup C \cup B \cup e \subseteq s /\ e \cap W = {}
      /\ e \cap C = {}
  BY DEF Accounts
<1> HIDE DEF W, C, B
<1>3. /\ s \subseteq (W \cup C) \cup C \cup e /\ (W \cup C) \cup C \cup B \cup e \subseteq s
      /\ e \cap (W \cup C) = {} /\ C \subseteq (W \cup C) \cup e
  BY <1>2
<1> QED
  BY <1>1, <1>2, <1>3 DEF Accounts

\* The inbox is what is claimed from, once what was claimed before is done with.
LEMMA ClaimsAccounts ==
  ASSUME NEW v, NEW w, NEW s, NEW e, Accounts(w.agent, s, e),
         Waiting(v.agent) \cup Claimed(v.agent) = Waiting(w.agent),
         Behind(v.agent) \subseteq Waiting(w.agent) \cup Behind(w.agent),
         v.agent.pc \in {"rejected", "stepping", "idle", "maintenance"} => Claimed(v.agent) = {},
         NEW f, \/ f = e /\ w.agent.pc \in {"rejected", "stepping", "idle", "maintenance"}
                \/ Ended(w, e, f)
  PROVE  Accounts(v.agent, s, f)
<1> DEFINE W == Waiting(w.agent)
           C == Claimed(w.agent)
           B == Behind(w.agent)
           X == Waiting(v.agent)
           D == Claimed(v.agent)
           Y == Behind(v.agent)
<1>1. X \cup D = W /\ Y \subseteq W \cup B
  OBVIOUS
<1>2. /\ s \subseteq W \cup C \cup e /\ W \cup C \cup B \cup e \subseteq s /\ e \cap W = {}
  BY DEF Accounts
<1>3. w.agent.pc \in {"rejected", "stepping", "idle", "maintenance"} => C \subseteq W \cup e
  BY DEF Accounts
<1>4. f = e \cup (C \ W) \/ (f = e /\ C \subseteq W \cup e)
  BY <1>3 DEF Ended
<1> HIDE DEF W, C, B
<1>5. s \subseteq W \cup f /\ f \cap W = {} /\ W \cup B \cup f \subseteq s
  BY <1>2, <1>4
<1> HIDE DEF X, D, Y
<1>6. s \subseteq X \cup D \cup f /\ X \cup D \cup Y \cup f \subseteq s /\ f \cap X = {} /\ f \cap D = {}
  BY <1>1, <1>5
<1> QED
  BY <1>6 DEF Accounts, X, D, Y

\* So it is when a handler took from the inbox.
LEMMA TakenAccounts ==
  ASSUME NEW v, NEW w, Taken(v, w), NEW s, NEW e, Accounts(w.agent, s, e),
         NEW f, \/ f = e /\ w.agent.pc \in {"rejected", "stepping", "idle", "maintenance"}
                \/ Ended(w, e, f)
  PROVE  Accounts(v.agent, s, f)
<1>1. /\ Waiting(v.agent) \cup Claimed(v.agent) = Waiting(w.agent)
      /\ Behind(v.agent) \subseteq Waiting(w.agent) \cup Behind(w.agent)
  BY DEF Taken
<1>2. v.agent.pc \in {"rejected", "stepping", "idle", "maintenance"} => Claimed(v.agent) = {}
  BY DEF Taken, Claimed, ToSet
<1> QED
  BY <1>1, <1>2, ClaimsAccounts

-----------------------------------------------------------------------------
(* What an action makes of people's messages                               *)

\* The same world but for the driver's run and the flags of the goal.
LEMMA TwinCordial ==
  ASSUME NEW v, NEW w, Rows(w), Fenced(w), Gone(v) <=> Gone(w),
         v.driver.attempt = w.driver.attempt, v.agent.nextStep = w.agent.nextStep,
         v.agent.nextTurn = w.agent.nextTurn, v.agent.batch = w.agent.batch,
         v.agent.passed = w.agent.passed, v.agent.pc = w.agent.pc
  PROVE  Rows(v) /\ Fenced(v) /\ Holds(v, w)
<1>1. Holds(v, w)
  BY SameHolds
<1>2. Rows(v)
  BY DEF Rows
<1>3. Fenced(v)
  BY <1>1 DEF Fenced, Holds
<1> QED
  BY <1>1, <1>2, <1>3

\* A pass of the driver on w.
LEMMA PassCordial ==
  ASSUME NEW v, NEW w, Typed(w), Drove(v, w), Minds(v, w), Sound(w), Cordial(w),
         NEW s, NEW e, Accounts(w.agent, s, e)
  PROVE  Cordial(v) /\ Stops(v, w) /\ Accounts(v.agent, s, e)
<1>1. Called(v) /\ Stops(v, w) /\ (Gone(v) <=> Gone(w))
  BY DriveCalled DEF Cordial, SameGoal
<1>2. CASE v.agent = w.agent /\ v.driver.attempt = w.driver.attempt
  BY <1>1, <1>2, TwinCordial DEF Cordial
<1>3. CASE Idle(w) /\ Taken(v, w)
  BY <1>1, <1>3, TakenAccounts DEF Cordial, Taken, Idle
<1> QED
  BY <1>2, <1>3 DEF Minds, Cordial

\* People come first in the present world.
Welcome == Good(World) /\ Cordial(World) /\ Accounts(agent, sent, ended)

\* The next world is v, and people come first there.
Welcomes(v) ==
  /\ Becomes(v) /\ Typed(v) /\ Cordial(v) /\ Stops(v, World)
  /\ Accounts(v.agent, sent', ended')

\* v is w with one more message of a person in the inbox.
Received(v, w, h) ==
  /\ Typed(v) /\ v.goal = w.goal /\ (Gone(v) <=> Gone(w))
  /\ v.driver.attempt.cancelled = w.driver.attempt.cancelled
  /\ v.driver.attempt.ref = w.driver.attempt.ref
  /\ v.driver.attempt.phase = w.driver.attempt.phase
  /\ v.agent.pc = w.agent.pc /\ v.agent.aborted = w.agent.aborted
  /\ Waiting(v.agent) = Waiting(w.agent) \cup {h}
  /\ Claimed(v.agent) = Claimed(w.agent) /\ Behind(v.agent) = Behind(w.agent)
  /\ Rows(v) /\ Fenced(v)

\* A prompt makes the round before it stale, and what is steered goes to the next step.
LEMMA SentReceived ==
  ASSUME NEW w, Typed(w), QueueFit(w), Rows(w), Fenced(w), NEW h \in Humans,
         h \notin Waiting(w.agent) \cup Claimed(w.agent) \cup Behind(w.agent)
  PROVE  /\ Received(Compete([w EXCEPT !.agent.nextTurn = Append(@, h)]), w, h)
         /\ Received([w EXCEPT !.agent.nextStep = Append(@, h)], w, h)
<1>1. /\ w \in Worlds /\ w.agent \in Agents /\ w.agent.nextStep \in Seq(Humans)
      /\ w.agent.nextTurn \in Seq(Messages) /\ h \in Messages
  BY Parts DEF Agents, Messages
<1>2. /\ h \notin ToSet(w.agent.nextStep) /\ h \notin ToSet(w.agent.nextTurn)
      /\ h \notin Claimed(w.agent) /\ h \notin Behind(w.agent)
  BY DEF Waiting, Inbox
<1>3. ASSUME NEW v, Typed(v), v.goal = w.goal, Gone(v) <=> Gone(w),
             v.driver.attempt.cancelled = w.driver.attempt.cancelled,
             v.driver.attempt.ref = w.driver.attempt.ref,
             v.driver.attempt.round = w.driver.attempt.round,
             v.driver.attempt.phase = w.driver.attempt.phase,
             w.driver.attempt.stale => v.driver.attempt.stale,
             v.agent.pc = w.agent.pc, v.agent.aborted = w.agent.aborted,
             v.agent.batch = w.agent.batch, v.agent.passed = w.agent.passed,
             \A m : m \in Inbox(v.agent) <=> m \in Inbox(w.agent) \/ m = h,
             Rows(v)
      PROVE  Received(v, w, h)
  <2>1. Waiting(v.agent) = Waiting(w.agent) \cup {h}
    BY <1>3 DEF Waiting
  <2>2. Claimed(v.agent) = Claimed(w.agent) /\ Behind(v.agent) = Behind(w.agent)
    BY <1>3 DEF Claimed, Behind
  <2>3. Behind(v.agent) \cap Waiting(v.agent) = Behind(w.agent) \cap Waiting(w.agent)
    BY <1>2, <2>1, <2>2
  <2>4. Claimed(v.agent) \cap Waiting(v.agent) = Claimed(w.agent) \cap Waiting(w.agent)
    BY <1>2, <2>1, <2>2
  <2>5. \A m : Matches(m, v.driver.attempt) => Matches(m, w.driver.attempt)
    BY <1>3 DEF Matches
  <2>6. Fenced(v)
    BY <1>3, <2>2, <2>3, <2>4, <2>5 DEF Fenced
  <2> QED
    BY <1>3, <2>1, <2>2, <2>6 DEF Received
<1>4. Received([w EXCEPT !.agent.nextStep = Append(@, h)], w, h)
  <2> DEFINE longer == Append(w.agent.nextStep, h)
             b == [w.agent EXCEPT !.nextStep = longer]
             v == [w EXCEPT !.agent = b]
  <2>1. [w EXCEPT !.agent.nextStep = Append(@, h)] = v
    BY <1>1 DEF Worlds
  <2>2. longer \in Seq(Humans) /\ \A m : m \in ToSet(longer) <=> m \in ToSet(w.agent.nextStep) \/ m = h
    BY <1>1, Appended
  <2> HIDE DEF longer
  <2>3. /\ b \in Agents /\ b.pc = w.agent.pc /\ b.batch = w.agent.batch
        /\ b.nextTurn = w.agent.nextTurn /\ b.aborted = w.agent.aborted
        /\ b.nextStep = longer /\ b.passed = w.agent.passed
    BY <1>1, <2>2 DEF Agents
  <2> HIDE DEF b
  <2>4. Typed(v) /\ v.goal = w.goal /\ v.driver = w.driver /\ v.agent = b
    BY <2>3, PutAgent
  <2> HIDE DEF v
  <2>5. \A m : m \in Inbox(v.agent) <=> m \in Inbox(w.agent) \/ m = h
    BY <2>2, <2>3, <2>4 DEF Inbox
  <2>6. ToSet(v.agent.nextStep) \cap ToSet(v.agent.nextTurn) = {}
    BY <1>2, <2>2, <2>3, <2>4 DEF Rows
  <2>7. Rows(v)
    BY <2>3, <2>4, <2>6 DEF Rows
  <2>8. Received(v, w, h)
    BY <1>3, <2>3, <2>4, <2>5, <2>7 DEF Gone
  <2> QED
    BY <2>1, <2>8
<1>5. Received(Compete([w EXCEPT !.agent.nextTurn = Append(@, h)]), w, h)
  <2> DEFINE next == w.agent.nextTurn
             longer == Append(next, h)
             b == [w.agent EXCEPT !.nextTurn = longer]
             u == [w EXCEPT !.agent = b]
             v == Compete(u)
             t == w.driver.attempt
             s == v.driver.attempt
  <2>1. Compete([w EXCEPT !.agent.nextTurn = Append(@, h)]) = v
    BY <1>1 DEF Worlds
  <2>2. longer \in Seq(Messages) /\ \A m : m \in ToSet(longer) <=> m \in ToSet(next) \/ m = h
    BY <1>1, Appended
  <2>3. \A i \in DOMAIN longer : \/ i \in DOMAIN next /\ longer[i] = next[i] /\ next[i] \in ToSet(next)
                                 \/ i = Len(next) + 1 /\ longer[i] = h
    BY <1>1 DEF ToSet
  <2>4. \A i \in DOMAIN next, j \in DOMAIN longer : i < j /\ i = Len(next) + 1 => FALSE
    BY <1>1
  <2>5. \A i \in DOMAIN longer : i <= Len(next) + 1 /\ i \in Nat /\ Len(next) \in Nat
    BY <1>1
  <2> HIDE DEF longer
  <2>6. /\ b \in Agents /\ b.pc = w.agent.pc /\ b.batch = w.agent.batch
        /\ b.nextTurn = longer /\ b.aborted = w.agent.aborted
        /\ b.nextStep = w.agent.nextStep /\ b.passed = w.agent.passed
    BY <1>1, <2>2 DEF Agents
  <2> HIDE DEF b
  <2>7. Typed(u) /\ u.goal = w.goal /\ u.driver = w.driver /\ u.agent = b
    BY <2>6, PutAgent
  <2> HIDE DEF u
  <2>8. /\ Typed(v) /\ v.goal = w.goal /\ v.agent = b /\ v.driver.life = w.driver.life
        /\ s.phase = t.phase /\ s.ref = t.ref /\ s.round = t.round
        /\ s.cancelled = t.cancelled /\ s.stale = (t.stale \/ t.phase = "queued")
    BY <2>7, CompeteIs
  <2> HIDE DEF v
  <2>9. \A m : m \in Inbox(v.agent) <=> m \in Inbox(w.agent) \/ m = h
    BY <2>2, <2>6, <2>8 DEF Inbox
  <2>10. ASSUME NEW i \in DOMAIN longer, NEW j \in DOMAIN longer, longer[i] \in Humans,
                longer[i] = longer[j]
         PROVE  i = j
    BY <1>2, <2>3, <2>10 DEF Rows
  <2>11. ASSUME NEW i \in DOMAIN longer, NEW j \in DOMAIN longer, i < j, Matches(longer[i], s),
                longer[j] \in Humans
         PROVE  s.stale
    <3>1. Matches(longer[i], t) /\ i # Len(next) + 1
      BY <2>5, <2>8, <2>11 DEF Matches
    <3>2. i \in DOMAIN next /\ longer[i] = next[i] /\ next[i] \in RoundsIn(next)
      BY <2>3, <3>1 DEF Matches, RoundsIn
    <3>3. t.phase = "queued"
      BY <3>1, <3>2 DEF QueueFit, Matches
    <3> QED
      BY <2>8, <3>3
  <2>12. ToSet(v.agent.nextStep) \cap ToSet(v.agent.nextTurn) = {}
    BY <1>2, <2>2, <2>6, <2>8 DEF Rows
  <2>13. Rows(v)
    BY <2>6, <2>8, <2>10, <2>11, <2>12 DEF Rows
  <2>14. Received(v, w, h)
    BY <1>3, <2>6, <2>8, <2>9, <2>13 DEF Gone
  <2> QED
    BY <2>1, <2>14
<1> QED
  BY <1>4, <1>5

\* What is received is accounted for.
LEMMA ReceivedAccounts ==
  ASSUME NEW v, NEW w, NEW h, Received(v, w, h), NEW s, NEW e, Accounts(w.agent, s, e), h \notin s
  PROVE  Accounts(v.agent, s \cup {h}, e)
<1> DEFINE W == Waiting(w.agent)
           C == Claimed(w.agent)
           B == Behind(w.agent)
<1>1. /\ Waiting(v.agent) = W \cup {h} /\ Claimed(v.agent) = C /\ Behind(v.agent) = B
      /\ v.agent.pc = w.agent.pc
  BY DEF Received
<1>2. s \subseteq W \cup C \cup e /\ W \cup C \cup B \cup e \subseteq s /\ e \cap W = {}
  BY DEF Accounts
<1>3. /\ v.agent.pc \in {"claimed", "inner"} => e \cap C = {}
      /\ v.agent.pc \in {"rejected", "stepping", "idle", "maintenance"} => C \subseteq W \cup e
  BY <1>1 DEF Accounts
<1> HIDE DEF W, C, B
<1>4. /\ s \cup {h} \subseteq (W \cup {h}) \cup C \cup e
      /\ (W \cup {h}) \cup C \cup B \cup e \subseteq s \cup {h} /\ e \cap (W \cup {h}) = {}
  BY <1>2
<1> QED
  BY <1>1, <1>3, <1>4 DEF Accounts

\* send, with or without a wake, in and after an activity.
LEMMA SendWelcomes ==
  ASSUME Typed(World), Welcome, NEW h \in Humans, NEW target, NEW wakeup \in BOOLEAN,
         Send(h, target, wakeup)
  PROVE  \E v : Welcomes(v)
<1> DEFINE afterAbort == wakeup /\ agent.pc # "idle" /\ agent.aborted
           w == IF target = "next-turn" \/ afterAbort
                  THEN Compete([World EXCEPT !.agent.nextTurn = Append(@, h)])
                  ELSE [World EXCEPT !.agent.nextStep = Append(@, h)]
           x == [w EXCEPT !.agent.latch = TRUE]
           y == Wake(w)
<1>1. /\ Becomes(w) \/ Becomes(x) \/ Becomes(y)
      /\ h \notin sent /\ sent' = sent \cup {h} /\ ended' = ended
  BY DEF Send
<1>2. /\ Sound(World) /\ Rows(World) /\ Fenced(World) /\ Called(World)
      /\ Accounts(World.agent, sent, ended)
  BY WorldIs DEF Welcome, Good, Cordial
<1>3. Received(w, World, h)
  <2>1. h \notin Waiting(World.agent) \cup Claimed(World.agent) \cup Behind(World.agent)
    BY <1>1, <1>2 DEF Accounts
  <2> QED
    BY <1>2, <2>1, SentReceived DEF Sound
<1> HIDE DEF w
<1>4. Typed(w) /\ Rows(w) /\ Fenced(w) /\ (Gone(w) <=> Gone(World)) /\ w.goal = World.goal
  BY <1>3 DEF Received
<1>5. Accounts(w.agent, sent', ended')
  BY <1>1, <1>2, <1>3, ReceivedAccounts
<1>6. ASSUME NEW v, Becomes(v), Typed(v), Rows(v), Fenced(v), Accounts(v.agent, sent', ended'),
             Gone(v) <=> Gone(w), v.goal = w.goal,
             v.driver.attempt.cancelled = w.driver.attempt.cancelled,
             v.driver.attempt.ref = w.driver.attempt.ref,
             v.driver.attempt.phase = "none" => w.driver.attempt.phase = "none",
             ~Idle(w) => v.agent.pc = w.agent.pc /\ v.agent.aborted = w.agent.aborted
      PROVE  \E z : Welcomes(z)
  <2>1. Called(v) /\ Stops(v, World)
    BY <1>2, <1>3, <1>6, HeldCalled DEF Received, Idle
  <2> QED
    BY <1>6, <2>1 DEF Welcomes, Cordial
<1>7. CASE Becomes(w)
  BY <1>4, <1>5, <1>6, <1>7
<1>8. CASE Becomes(x)
  <2> DEFINE b == [w.agent EXCEPT !.latch = TRUE]
             z == [w EXCEPT !.agent = b]
  <2>1. w \in Worlds /\ w.agent \in Agents
    BY <1>4, Parts
  <2>2. x = z
    BY <2>1 DEF Worlds
  <2>3. /\ b \in Agents /\ b.pc = w.agent.pc /\ b.batch = w.agent.batch
        /\ b.nextTurn = w.agent.nextTurn /\ b.aborted = w.agent.aborted
        /\ b.nextStep = w.agent.nextStep /\ b.passed = w.agent.passed
    BY <2>1 DEF Agents
  <2> HIDE DEF b
  <2>4. Typed(z) /\ z.goal = w.goal /\ z.driver = w.driver /\ z.agent = b
    BY <1>4, <2>3, PutAgent
  <2> HIDE DEF z, x
  <2>5. Typed(x) /\ Rows(x) /\ Fenced(x) /\ Holds(x, w) /\ x.agent.pc = w.agent.pc
    BY <1>4, <2>2, <2>3, <2>4, TwinCordial DEF Gone
  <2>6. Accounts(x.agent, sent', ended')
    BY <1>5, <2>5 DEF Accounts, Holds
  <2> QED
    BY <1>6, <1>8, <2>2, <2>3, <2>4, <2>5, <2>6 DEF Gone
<1>9. CASE Becomes(y)
  <2>1. Typed(y) /\ Steady(y, w)
    BY <1>4, WakeIs
  <2>2. CASE w.agent.pc = "idle"
    <3>1. Taken(y, w)
      BY <1>4, <2>2, WakeTakes
    <3> HIDE DEF y
    <3>2. Accounts(y.agent, sent', ended')
      BY <1>5, <2>2, <3>1, TakenAccounts
    <3> QED
      BY <1>6, <1>9, <2>1, <2>2, <3>1, <3>2 DEF Taken, Steady, Gone, Idle
  <2>3. CASE w.agent.pc # "idle"
    <3>1. /\ Alike(y, w) /\ y.driver = w.driver /\ y.agent.nextStep = w.agent.nextStep
          /\ y.agent.passed = w.agent.passed /\ y.agent.aborted = w.agent.aborted
      BY <1>4, <2>3, WakeIs
    <3> HIDE DEF y
    <3>2. Rows(y) /\ Fenced(y) /\ Holds(y, w) /\ y.agent.pc = w.agent.pc
      BY <1>4, <3>1, TwinCordial DEF Alike
    <3>3. Accounts(y.agent, sent', ended')
      BY <1>5, <3>2 DEF Accounts, Holds
    <3> QED
      BY <1>6, <1>9, <2>1, <3>1, <3>2, <3>3 DEF Steady, Gone
  <2> QED
    BY <2>2, <2>3
<1> QED
  BY <1>1, <1>7, <1>8, <1>9

\* cancel empties the inbox.
LEMMA CancelledKeeps ==
  ASSUME NEW w, Typed(w), Rows(w), Fenced(w)
  PROVE  LET v == Cancelled(w) IN
         /\ Rows(v) /\ Fenced(v) /\ Waiting(v.agent) = {}
         /\ Claimed(v.agent) = Claimed(w.agent) /\ Behind(v.agent) = Behind(w.agent)
<1> DEFINE v == Cancelled(w)
<1>1. /\ v.agent.pc = w.agent.pc /\ v.agent.batch = w.agent.batch /\ v.agent.passed = w.agent.passed
      /\ v.agent.nextStep = <<>> /\ v.agent.nextTurn = <<>>
  BY CancelledIs
<1> HIDE DEF v
<1>2. /\ Waiting(v.agent) = {} /\ Claimed(v.agent) = Claimed(w.agent)
      /\ Behind(v.agent) = Behind(w.agent)
  BY <1>1 DEF Waiting, Claimed, Behind, Inbox, ToSet
<1>3. Rows(v)
  BY <1>1 DEF Rows, ToSet
<1>4. Fenced(v)
  BY <1>1, <1>2 DEF Fenced
<1> QED
  BY <1>2, <1>3, <1>4 DEF v

\* What waited is ended then, and was not claimed.
LEMMA ClearedAccounts ==
  ASSUME NEW v, NEW w, Fenced(w), NEW s, NEW e, Accounts(w.agent, s, e),
         v.agent.pc = w.agent.pc, Waiting(v.agent) = {},
         Claimed(v.agent) = Claimed(w.agent), Behind(v.agent) = Behind(w.agent)
  PROVE  Accounts(v.agent, s, e \cup Waiting(w.agent))
<1> DEFINE W == Waiting(w.agent)
           C == Claimed(w.agent)
           B == Behind(w.agent)
<1>1. s \subseteq W \cup C \cup e /\ W \cup C \cup B \cup e \subseteq s
  BY DEF Accounts
<1>2. /\ w.agent.pc \in {"claimed", "inner"} => e \cap C = {} /\ C \cap W = {}
      /\ w.agent.pc \in {"rejected", "stepping", "idle", "maintenance"} => C \subseteq W \cup e
  BY DEF Accounts, Fenced
<1> HIDE DEF W, C, B
<1>3. /\ s \subseteq C \cup (e \cup W) /\ C \cup B \cup (e \cup W) \subseteq s
      /\ w.agent.pc \in {"claimed", "inner"} => (e \cup W) \cap C = {}
      /\ w.agent.pc \in {"rejected", "stepping", "idle", "maintenance"} => C \subseteq e \cup W
  BY <1>1, <1>2
<1> QED
  BY <1>3 DEF Accounts, W, C, B

\* cancel, whatever the agent is at: a round that waited is for an agent at work.
LEMMA CancelWelcomes ==
  ASSUME Typed(World), Welcome, Cancel
  PROVE  \E v : Welcomes(v)
<1> DEFINE v == Cancelled(World)
           t == driver.attempt
<1>1. /\ Becomes(v) /\ sent' = sent /\ ended' = ended \cup Waiting(World.agent)
  BY WorldIs DEF Cancel, Waiting
<1>2. /\ Sound(World) /\ Rows(World) /\ Fenced(World) /\ Called(World)
      /\ Accounts(World.agent, sent, ended)
  BY WorldIs DEF Welcome, Good, Cordial
<1>3. /\ Rows(v) /\ Fenced(v) /\ Waiting(v.agent) = {}
      /\ Claimed(v.agent) = Claimed(World.agent) /\ Behind(v.agent) = Behind(World.agent)
  BY <1>2, CancelledKeeps
<1>4. /\ Typed(v) /\ v.goal = goal /\ v.agent.pc = agent.pc /\ v.driver.life = driver.life
      /\ v.driver.attempt.phase = t.phase /\ v.driver.attempt.ref = t.ref
      /\ v.driver.attempt.cancelled => t.cancelled \/ \E m \in Inbox(agent) : Matches(m, t)
      /\ agent.pc # "idle" => v.agent.aborted
  BY CancelledIs, WorldIs
<1> HIDE DEF v
<1>5. Accounts(v.agent, sent', ended')
  BY <1>1, <1>2, <1>3, <1>4, ClearedAccounts, WorldIs
<1>6. ASSUME NEW m \in Inbox(agent), Matches(m, t), t.ref = goal.ref, Driving(goal), ~Gone(World)
      PROVE  ~Idle(World)
  <2>1. agent.nextStep \in Seq(Humans)
    BY Parts, WorldIs DEF Agents
  <2>2. m \in RoundsIn(agent.nextTurn)
    BY <1>6, <2>1 DEF Inbox, RoundsIn, ToSet, Matches, IsRound
  <2>3. t.phase = "queued"
    BY <1>2, <1>6, <2>2, WorldIs DEF Sound, QueueFit, Matches
  <2> QED
    BY <1>2, <1>6, <2>3, WorldIs DEF Sound, Quiet
<1>7. Called(v)
  <2> SUFFICES ASSUME v.driver.attempt.cancelled, t.ref = goal.ref, Driving(goal), ~Gone(World)
               PROVE  ~Idle(v) /\ v.agent.aborted
    BY <1>4, WorldIs DEF Called, Gone
  <2>1. ~Idle(World)
    BY <1>2, <1>4, <1>6, WorldIs DEF Called
  <2> QED
    BY <1>4, <2>1, WorldIs DEF Idle
<1>8. Stops(v, World)
  BY <1>4, NoneUncancelled, WorldIs DEF Stops
<1>9. Welcomes(v)
  BY <1>1, <1>3, <1>4, <1>5, <1>7, <1>8 DEF Welcomes, Cordial
<1> QED
  BY <1>9

\* Maintenance begins, or ends and a latched wake is replayed.
LEMMA MaintenanceWelcomes ==
  ASSUME Typed(World), Welcome, Maintain \/ MaintenanceEnds
  PROVE  \E v : Welcomes(v)
<1> DEFINE b(pc) == [agent EXCEPT !.pc = pc, !.aborted = FALSE, !.latch = FALSE]
           u(pc) == [World EXCEPT !.agent = b(pc)]
<1>1. /\ World \in Worlds /\ agent \in Agents /\ sent' = sent /\ ended' = ended
      /\ agent.pc \in {"idle", "maintenance"} /\ Idle(World)
  BY Parts, WorldIs DEF Maintain, MaintenanceEnds, Idle
<1>2. /\ Rows(World) /\ Called(World) /\ Accounts(World.agent, sent, ended)
  BY WorldIs DEF Welcome, Cordial
<1>3. ASSUME NEW pc \in {"idle", "maintenance"}
      PROVE  /\ u(pc) = [World EXCEPT !.agent.pc = pc, !.agent.aborted = FALSE,
                                      !.agent.latch = FALSE]
             /\ Typed(u(pc)) /\ u(pc).goal = goal /\ u(pc).driver = driver /\ u(pc).agent.pc = pc
             /\ Rows(u(pc)) /\ Fenced(u(pc)) /\ Called(u(pc)) /\ Stops(u(pc), World)
             /\ Accounts(u(pc).agent, sent, ended)
  <2>1. /\ b(pc) \in Agents /\ b(pc).pc = pc /\ b(pc).batch = agent.batch
        /\ b(pc).nextTurn = agent.nextTurn /\ b(pc).nextStep = agent.nextStep
        /\ b(pc).passed = agent.passed
    BY <1>1 DEF Agents
  <2>2. u(pc) = [World EXCEPT !.agent.pc = pc, !.agent.aborted = FALSE, !.agent.latch = FALSE]
    BY <1>1, WorldIs DEF Worlds
  <2> HIDE DEF b
  <2>3. Typed(u(pc)) /\ u(pc).goal = World.goal /\ u(pc).driver = World.driver /\ u(pc).agent = b(pc)
    BY <2>1, PutAgent
  <2> HIDE DEF u
  <2>4. Rows(u(pc)) /\ Fenced(u(pc)) /\ Holds(u(pc), World)
    BY <1>2, <2>1, <2>3, SameHolds, WorldIs DEF Rows, Fenced
  <2>5. Called(u(pc)) /\ Stops(u(pc), World)
    BY <1>1, <1>2, <2>3, HeldCalled DEF Gone
  <2>6. Accounts(u(pc).agent, sent, ended)
    BY <1>1, <1>2, <2>1, <2>3, <2>4, WorldIs DEF Accounts, Holds
  <2> QED
    BY <2>1, <2>2, <2>3, <2>4, <2>5, <2>6, WorldIs
<1> HIDE DEF u
<1>4. CASE Maintain
  <2> DEFINE v == u("maintenance")
  <2>1. Becomes(v)
    BY <1>3, <1>4 DEF Maintain
  <2>2. Welcomes(v)
    BY <1>1, <1>3, <2>1 DEF Welcomes, Cordial
  <2> QED
    BY <2>2
<1>5. CASE MaintenanceEnds
  <2> DEFINE v == u("idle")
             x == Wake(v)
  <2>1. Becomes(v) \/ Becomes(x)
    BY <1>3, <1>5 DEF MaintenanceEnds
  <2>2. /\ Typed(v) /\ v.goal = goal /\ v.driver = driver /\ v.agent.pc = "idle"
        /\ Rows(v) /\ Fenced(v) /\ Called(v) /\ Stops(v, World)
        /\ Accounts(v.agent, sent, ended)
    BY <1>3
  <2> HIDE DEF v
  <2>3. CASE Becomes(v)
    <3>1. Welcomes(v)
      BY <1>1, <2>2, <2>3 DEF Welcomes, Cordial
    <3> QED
      BY <3>1
  <2>4. CASE Becomes(x)
    <3>1. Taken(x, v) /\ Typed(x) /\ Steady(x, v)
      BY <2>2, WakeTakes, WakeIs
    <3> HIDE DEF x
    <3>2. Accounts(x.agent, sent, ended)
      BY <2>2, <3>1, TakenAccounts
    <3>3. Called(x) /\ Stops(x, World)
      BY <1>1, <1>2, <2>2, <3>1, HeldCalled, WorldIs DEF Steady, Gone
    <3>4. Welcomes(x)
      BY <1>1, <2>4, <3>1, <3>2, <3>3 DEF Welcomes, Cordial, Taken
    <3> QED
      BY <3>4
  <2> QED
    BY <2>1, <2>3, <2>4
<1> QED
  BY <1>4, <1>5

\* A change of the goal: no attempt is for the new revision.
LEMMA MutationWelcomes ==
  ASSUME Typed(World), Welcome, Mutation
  PROVE  \E v : Welcomes(v)
<1>1. PICK g \in Mutations(goal) : Becomes(Change(World, g))
  BY DEF Mutation
<1>2. GoalTyped(g)
  BY MutationsTyped, WorldIs
<1> DEFINE m == Mutate(World, g)
           v == RequestDrive(m)
<1>3. Becomes(v) /\ sent' = sent /\ ended' = ended
  BY <1>1 DEF Change, Mutation
<1>4. /\ Typed(m) /\ m.agent = World.agent /\ m.goal.ref = goal.ref + 1
      /\ m.driver.needs /\ m.driver.attempt = World.driver.attempt
      /\ m.driver.life = World.driver.life
  BY <1>2, MutateIs, WorldIs
<1> HIDE DEF m
<1>5. /\ Typed(v) /\ v.driver.life = m.driver.life /\ v.agent = World.agent
      /\ v.driver.attempt = World.driver.attempt
      /\ Driving(v.goal) => v.goal = m.goal
  BY <1>4, RequestDriveDrove, RequestDriveMinds DEF Drove
<1> HIDE DEF v
<1>6. /\ Sound(World) /\ Rows(World) /\ Fenced(World)
      /\ Accounts(World.agent, sent, ended)
  BY WorldIs DEF Welcome, Good, Cordial
<1>7. Rows(v) /\ Fenced(v) /\ Accounts(v.agent, sent', ended')
  BY <1>3, <1>4, <1>5, <1>6, TwinCordial DEF Gone
<1>8. Called(v)
  <2>1. goal.ref \in Nat /\ driver.attempt.ref \in Nat /\ driver.attempt.ref <= goal.ref
    BY <1>6, Parts, WorldIs DEF Goals, Attempts, Sound, Fit
  <2>2. driver.attempt.ref # m.goal.ref
    BY <1>4, <2>1
  <2> QED
    BY <1>5, <2>2, WorldIs DEF Called
<1>9. Stops(v, World)
  BY <1>5, NoneUncancelled DEF Stops
<1>10. Welcomes(v)
  BY <1>3, <1>5, <1>7, <1>8, <1>9 DEF Welcomes, Cordial
<1> QED
  BY <1>10

\* A world that differs from the present one in the driver's run.
LEMMA RunWelcomes ==
  ASSUME Typed(World), Welcome, NEW v, Becomes(v), Typed(v), v.goal = goal, v.agent = agent,
         v.driver.attempt = driver.attempt, v.driver.life = driver.life,
         sent' = sent, ended' = ended
  PROVE  Welcomes(v)
<1>1. /\ Rows(World) /\ Fenced(World) /\ Called(World) /\ Accounts(World.agent, sent, ended)
      /\ v.goal = World.goal /\ v.agent = World.agent /\ (Gone(v) <=> Gone(World))
      /\ v.driver.attempt = World.driver.attempt
  BY WorldIs DEF Welcome, Cordial, Gone
<1>2. Rows(v) /\ Fenced(v)
  BY <1>1, TwinCordial
<1>3. Called(v) /\ Stops(v, World)
  BY <1>1, HeldCalled DEF Idle
<1> QED
  BY <1>1, <1>2, <1>3 DEF Welcomes, Cordial

\* The checkpoint's answer.
LEMMA FlushedWelcomes ==
  ASSUME Typed(World), Welcome, Flushed
  PROVE  \E v : Welcomes(v)
<1>1. sent' = sent /\ ended' = ended
  BY DEF Flushed
<1>2. CASE ReadyToDrive(World) /\ ~driver.needs
  <2> DEFINE v == Advance(World)
  <2>1. Becomes(v)
    BY <1>2 DEF Flushed
  <2>2. Drove(v, World) /\ Minds(v, World)
    BY <1>2, AdvanceDrove, AdvanceMinds, WorldIs
  <2> HIDE DEF v
  <2>3. Cordial(v) /\ Stops(v, World) /\ Accounts(v.agent, sent, ended)
    BY <2>2, PassCordial, WorldIs DEF Welcome, Good
  <2>4. Welcomes(v)
    BY <1>1, <2>1, <2>2, <2>3 DEF Welcomes, Drove
  <2> QED
    BY <2>4
<1>3. CASE ~(ReadyToDrive(World) /\ ~driver.needs)
  <2> DEFINE v == Returned(World)
  <2>1. Becomes(v)
    BY <1>3 DEF Flushed
  <2>2. /\ Typed(v) /\ v.goal = goal /\ v.agent = agent /\ v.driver.attempt = driver.attempt
        /\ v.driver.life = driver.life
    BY ReturnedIs, WorldIs
  <2> HIDE DEF v
  <2>3. Welcomes(v)
    BY <1>1, <2>1, <2>2, RunWelcomes
  <2> QED
    BY <2>3
<1> QED
  BY <1>2, <1>3

\* The loop of requestDrive goes on, or retires.
LEMMA LoopWelcomes ==
  ASSUME Typed(World), Welcome, Loop
  PROVE  \E v : Welcomes(v)
<1> DEFINE requests == driver.requested /\ driver.life = "active"
           d == [driver EXCEPT !.requested = FALSE]
           e == [driver EXCEPT !.run = "none"]
           u == [World EXCEPT !.driver = d]
           x == [World EXCEPT !.driver = e]
           v == Drive(u)
<1>1. /\ World \in Worlds /\ driver \in Drivers /\ DriverTyped(driver) /\ driver.run = "looping"
      /\ sent' = sent /\ ended' = ended
  BY Parts, WorldIs DEF Loop
<1>2. u = [World EXCEPT !.driver.requested = FALSE] /\ x = [World EXCEPT !.driver.run = "none"]
  BY <1>1, WorldIs DEF Worlds
<1>3. Becomes(IF requests THEN v ELSE x)
  BY <1>2 DEF Loop
<1>4. /\ DriverTyped(d) /\ d.attempt = driver.attempt /\ d.life = driver.life /\ d.run = driver.run
      /\ DriverTyped(e) /\ e.attempt = driver.attempt /\ e.life = driver.life
  BY <1>1 DEF DriverTyped, Drivers
<1> HIDE DEF d, e
<1>5. /\ Typed(u) /\ u.goal = goal /\ u.agent = agent /\ u.driver = d
      /\ Typed(x) /\ x.goal = goal /\ x.agent = agent /\ x.driver = e
  BY <1>4, PutDriver, WorldIs
<1> HIDE DEF u, x
<1>6. CASE requests
  <2>1. Becomes(v)
    BY <1>3, <1>6
  <2>2. Drove(v, u) /\ Minds(v, u)
    BY <1>1, <1>4, <1>5, DriveDrove, DriveMinds
  <2> HIDE DEF v
  <2>3. Sound(u)
    <3>1. Alike(u, World)
      BY <1>4, <1>5, WorldIs DEF Alike, Gone
    <3> QED
      BY <3>1, AlikeSound DEF Welcome, Good
  <2>4. Cordial(u) /\ Accounts(u.agent, sent, ended)
    <3>1. Rows(u) /\ Fenced(u)
      BY <1>4, <1>5, TwinCordial, WorldIs DEF Welcome, Cordial, Gone
    <3>2. Called(u)
      BY <1>4, <1>5, WorldIs DEF Welcome, Cordial, Called, Gone, Idle
    <3> QED
      BY <1>5, <3>1, <3>2 DEF Cordial, Welcome
  <2>5. Cordial(v) /\ Stops(v, u) /\ Accounts(v.agent, sent, ended)
    BY <1>5, <2>2, <2>3, <2>4, PassCordial
  <2>6. Stops(v, World)
    BY <1>4, <1>5, <2>5, WorldIs DEF Stops
  <2>7. Welcomes(v)
    BY <1>1, <2>1, <2>2, <2>5, <2>6 DEF Welcomes, Drove
  <2> QED
    BY <2>7
<1>7. CASE ~requests
  <2>1. Becomes(x)
    BY <1>3, <1>7
  <2>2. Welcomes(x)
    BY <1>1, <1>4, <1>5, <2>1, RunWelcomes
  <2> QED
    BY <2>2
<1> QED
  BY <1>6, <1>7

\* The listeners go, and the driver with them.
LEMMA UnloadedWelcomes ==
  ASSUME Typed(World), Welcome, Unloaded
  PROVE  \E v : Welcomes(v)
<1> DEFINE d == [driver EXCEPT !.life = "gone"]
           v == [World EXCEPT !.driver = d]
<1>1. World \in Worlds /\ driver \in Drivers /\ DriverTyped(driver)
  BY Parts, WorldIs
<1>2. v = [World EXCEPT !.driver.life = "gone"]
  BY <1>1, WorldIs DEF Worlds
<1>3. Becomes(v) /\ sent' = sent /\ ended' = ended
  BY <1>2 DEF Unloaded, Kept
<1>4. DriverTyped(d) /\ d.attempt = driver.attempt /\ d.life = "gone"
  BY <1>1 DEF DriverTyped, Drivers
<1> HIDE DEF d
<1>5. Typed(v) /\ v.goal = goal /\ v.agent = agent /\ v.driver = d
  BY <1>4, PutDriver, WorldIs
<1> HIDE DEF v
<1>6. Gone(v) /\ Rows(World) /\ Fenced(World) /\ Accounts(v.agent, sent', ended')
  BY <1>3, <1>4, <1>5 DEF Gone, Welcome, Cordial
<1>7. Rows(v)
  BY <1>4, <1>5, <1>6, WorldIs DEF Rows
<1>8. Fenced(v)
  BY <1>4, <1>5, <1>6, WorldIs DEF Fenced
<1>9. Called(v) /\ Stops(v, World)
  BY <1>6 DEF Called, Stops
<1>10. Welcomes(v)
  BY <1>3, <1>5, <1>6, <1>7, <1>8, <1>9 DEF Welcomes, Cordial
<1> QED
  BY <1>10

\* What is given up is what is claimed and not back in the inbox.
LEMMA GivesUpEnded == GivesUp => Ended(World, ended, ended')
BY WorldIs DEF GivesUp, Ended, Claimed, Waiting

\* The end of a turn.
LEMMA EndsWelcomes ==
  ASSUME Typed(World), Welcome, NEW v, Becomes(v), Ends(v, World), sent' = sent,
         \/ ended' = ended /\ agent.pc \in {"rejected", "stepping", "idle", "maintenance"}
         \/ GivesUp
  PROVE  Welcomes(v)
<1>1. Accounts(World.agent, sent, ended)
  BY WorldIs DEF Welcome
<1>2. Accounts(v.agent, sent', ended')
  BY <1>1, GivesUpEnded, TakenAccounts, WorldIs DEF Ends
<1> QED
  BY <1>2 DEF Ends, Welcomes

\* The agent goes on with its batch.
LEMMA PlacedIs ==
  ASSUME NEW w, Typed(w), NEW pc \in {"passing", "decided", "rejected"},
         NEW v, v = [w EXCEPT !.agent.pc = pc]
  PROVE  /\ Typed(v) /\ v.goal = w.goal /\ v.driver = w.driver /\ v.agent.pc = pc
         /\ v.agent.batch = w.agent.batch /\ v.agent.nextTurn = w.agent.nextTurn
         /\ v.agent.nextStep = w.agent.nextStep /\ v.agent.passed = w.agent.passed
         /\ v.agent.aborted = w.agent.aborted
<1> DEFINE b == [w.agent EXCEPT !.pc = pc]
           u == [w EXCEPT !.agent = b]
<1>1. w.agent \in Agents
  BY Parts
<1>2. /\ b \in Agents /\ b.pc = pc /\ b.batch = w.agent.batch
      /\ b.nextTurn = w.agent.nextTurn /\ b.aborted = w.agent.aborted
      /\ b.nextStep = w.agent.nextStep /\ b.passed = w.agent.passed
  BY <1>1 DEF Agents
<1>3. v = u
  BY Parts DEF Worlds
<1> HIDE DEF b
<1>4. Typed(u) /\ u.goal = w.goal /\ u.driver = w.driver /\ u.agent = b
  BY <1>2, PutAgent
<1> HIDE DEF u
<1> QED
  BY <1>2, <1>3, <1>4

\* A batch that does not concern the driver goes on, or is rejected.
LEMMA PlaceWelcomes ==
  ASSUME Typed(World), Welcome, sent' = sent, NEW v, Becomes(v),
         NEW pc \in {"passing", "decided", "rejected"}, v = [World EXCEPT !.agent.pc = pc],
         agent.pc \in {"claimed", "passing"},
         pc = "decided" => agent.pc = "passing",
         ended' = ended \/ GivesUp,
         pc = "rejected" => GivesUp
  PROVE  Welcomes(v)
<1>1. /\ Sound(World) /\ Rows(World) /\ Fenced(World) /\ Called(World)
      /\ Accounts(World.agent, sent, ended)
  BY WorldIs DEF Welcome, Good, Cordial
<1>2. /\ Typed(v) /\ v.goal = goal /\ v.driver = driver /\ v.agent.pc = pc
      /\ v.agent.batch = agent.batch /\ v.agent.nextTurn = agent.nextTurn
      /\ v.agent.nextStep = agent.nextStep /\ v.agent.passed = agent.passed
      /\ v.agent.aborted = agent.aborted
  BY PlacedIs, WorldIs
<1>3. Holds(v, World) /\ Rows(v)
  <2>1. Holds(v, World)
    BY <1>2, SameHolds, WorldIs
  <2>2. Rows(v)
    BY <1>1, <1>2, WorldIs DEF Rows
  <2> QED
    BY <2>1, <2>2
<1>4. Fenced(v)
  <2>1. agent.pc = "passing" => RoundsIn(agent.batch) = {} \/ Gone(World)
    BY <1>1, WorldIs DEF Sound, BatchFit
  <2> QED
    BY <1>2, <2>1, WorldIs DEF Fenced, Gone
<1>5. Called(v) /\ Stops(v, World)
  BY <1>1, <1>2, HeldCalled, WorldIs DEF Gone, Idle
<1>6. Accounts(v.agent, sent', ended')
  BY <1>1, <1>2, <1>3, GivesUpEnded, HoldsAccounts, WorldIs
<1> QED
  BY <1>2, <1>3, <1>4, <1>5, <1>6 DEF Welcomes, Cordial

\* The driver's listener is called.
LEMMA PreStepWelcomes ==
  ASSUME Apart, Typed(World), Welcome, PreStep
  PROVE  \E v : Welcomes(v)
<1>1. agent.pc = "claimed" /\ ~agent.aborted /\ sent' = sent /\ ended' = ended
  BY DEF PreStep, Apart, Kept
<1>2. HasRound <=> RoundsIn(World.agent.batch) # {}
  BY WorldIs DEF HasRound, RoundsIn
<1>3. CASE HasRound /\ ~Gone(World)
  <2> DEFINE v == Fence(World)
  <2>1. Becomes(v)
    BY <1>3 DEF PreStep
  <2>2. /\ Typed(v) /\ Cordial(v) /\ Stops(v, World)
        /\ Returns(v, World) \/ (Holds(v, World) /\ v.agent.pc = "inner")
    BY <1>1, <1>2, <1>3, FenceRules, WorldIs DEF Ruled, Welcome, Good
  <2> HIDE DEF v
  <2>3. Accounts(v.agent, sent', ended')
    BY <1>1, <2>2, ReturnsAccounts, HoldsAccounts, WorldIs DEF Welcome
  <2>4. Welcomes(v)
    BY <2>1, <2>2, <2>3 DEF Welcomes
  <2> QED
    BY <2>4
<1>4. CASE ~(HasRound /\ ~Gone(World))
  <2> DEFINE v == [World EXCEPT !.agent.pc = "passing"]
  <2>1. Becomes(v)
    BY <1>4 DEF PreStep
  <2> HIDE DEF v
  <2>2. v = [World EXCEPT !.agent.pc = "passing"]
    BY DEF v
  <2>3. Welcomes(v)
    BY <1>1, <2>1, <2>2, PlaceWelcomes
  <2> QED
    BY <2>3
<1> QED
  BY <1>3, <1>4

\* The listeners inside the driver's let the batch enter.
LEMMA AcceptedWelcomes ==
  ASSUME Typed(World), Welcome, Accepted
  PROVE  \E v : Welcomes(v)
<1>1. agent.pc \in {"inner", "passing"} /\ sent' = sent /\ ended' = ended
  BY DEF Accepted, Kept
<1>2. CASE agent.pc = "inner"
  <2> DEFINE v == Recheck(World)
  <2>1. Becomes(v)
    BY <1>2 DEF Accepted
  <2>2. /\ Typed(v) /\ Cordial(v) /\ Stops(v, World)
        /\ Returns(v, World) \/ (Holds(v, World) /\ v.agent.pc = "decided")
    BY <1>2, RecheckRules, WorldIs DEF Ruled, Welcome, Good
  <2> HIDE DEF v
  <2>3. Accounts(v.agent, sent', ended')
    BY <1>1, <1>2, <2>2, ReturnsAccounts, HoldsAccounts, WorldIs DEF Welcome
  <2>4. Welcomes(v)
    BY <2>1, <2>2, <2>3 DEF Welcomes
  <2> QED
    BY <2>4
<1>3. CASE agent.pc = "passing"
  <2> DEFINE v == [World EXCEPT !.agent.pc = "decided"]
  <2>1. Becomes(v)
    BY <1>3 DEF Accepted
  <2> HIDE DEF v
  <2>2. v = [World EXCEPT !.agent.pc = "decided"]
    BY DEF v
  <2>3. Welcomes(v)
    BY <1>1, <1>3, <2>1, <2>2, PlaceWelcomes
  <2> QED
    BY <2>3
<1> QED
  BY <1>1, <1>2, <1>3

\* They reject it.
LEMMA RefusedWelcomes ==
  ASSUME Typed(World), Welcome, Refused
  PROVE  \E v : Welcomes(v)
<1>1. agent.pc \in {"inner", "passing"} /\ sent' = sent /\ GivesUp
  BY DEF Refused, Kept
<1>2. CASE agent.pc = "inner"
  <2> DEFINE v == Veto(World)
  <2>1. Becomes(v)
    BY <1>2 DEF Refused
  <2>2. /\ Typed(v) /\ Cordial(v) /\ Stops(v, World) /\ Holds(v, World)
        /\ v.agent.pc = "rejected"
    BY <1>2, VetoRules, WorldIs DEF Ruled, Welcome
  <2> HIDE DEF v
  <2>3. Accounts(v.agent, sent', ended')
    BY <1>1, <2>2, GivesUpEnded, HoldsAccounts, WorldIs DEF Welcome
  <2>4. Welcomes(v)
    BY <2>1, <2>2, <2>3 DEF Welcomes
  <2> QED
    BY <2>4
<1>3. CASE agent.pc = "passing"
  <2> DEFINE v == [World EXCEPT !.agent.pc = "rejected"]
  <2>1. Becomes(v)
    BY <1>3 DEF Refused, Rejected
  <2> HIDE DEF v
  <2>2. v = [World EXCEPT !.agent.pc = "rejected"]
    BY DEF v
  <2>3. Welcomes(v)
    BY <1>1, <1>3, <2>1, <2>2, PlaceWelcomes
  <2> QED
    BY <2>3
<1> QED
  BY <1>1, <1>2, <1>3

\* They throw.
LEMMA ThrowsWelcomes ==
  ASSUME Typed(World), Welcome, Throws
  PROVE  \E v : Welcomes(v)
<1>1. /\ agent.pc \in {"inner", "passing"} /\ sent' = sent /\ GivesUp
      /\ Sound(World) /\ Cordial(World)
  BY DEF Throws, Kept, Welcome, Good
<1>2. CASE agent.pc = "inner"
  <2>1. Becomes(Thrown(World)) /\ Ends(Thrown(World), World)
    BY <1>1, <1>2, ThrownEnds, WorldIs DEF Throws
  <2> QED
    BY <1>1, <2>1, EndsWelcomes
<1>3. CASE agent.pc = "passing"
  <2>1. PICK reason \in {"aborted", "error"} : Becomes(EndTurn(World, reason))
    BY <1>3 DEF Throws
  <2>2. Ends(EndTurn(World, reason), World)
    BY <1>1, <2>1, EndTurnEnds
  <2> QED
    BY <1>1, <2>1, <2>2, EndsWelcomes
<1> QED
  BY <1>1, <1>2, <1>3

\* The batch enters a step.
LEMMA EnterWelcomes ==
  ASSUME Typed(World), Welcome, Enter
  PROVE  \E v : Welcomes(v)
<1> DEFINE v == Entered(World)
<1>1. agent.pc = "decided" /\ ~agent.aborted /\ Becomes(v) /\ sent' = sent /\ GivesUp
  BY DEF Enter, Kept
<1>2. /\ Rows(World) /\ Called(World) /\ Accounts(World.agent, sent, ended)
  BY WorldIs DEF Welcome, Cordial
<1>3. /\ Typed(v) /\ v.goal.ref = goal.ref /\ (Driving(v.goal) <=> Driving(goal))
      /\ v.driver.life = driver.life /\ v.driver.attempt.ref = driver.attempt.ref
      /\ v.driver.attempt.round = driver.attempt.round
      /\ v.driver.attempt.cancelled = driver.attempt.cancelled
      /\ v.driver.attempt.stale = driver.attempt.stale
      /\ v.driver.attempt.phase = "none" <=> driver.attempt.phase = "none"
      /\ v.agent.pc = "stepping" /\ v.agent.batch = <<>>
      /\ v.agent.nextStep = agent.nextStep /\ v.agent.nextTurn = agent.nextTurn
      /\ v.agent.passed = agent.passed
  BY <1>1, EnteredSteps, WorldIs DEF Steps
<1> HIDE DEF v
<1>4. Rows(v) /\ Fenced(v)
  <2>1. Fainter(v.driver.attempt, World.driver.attempt)
    BY <1>3, WorldIs DEF Fainter, Matches
  <2>2. Rows(v)
    BY <1>2, <1>3, <2>1, RowsKept, WorldIs
  <2> QED
    BY <1>3, <2>2 DEF Fenced
<1>5. Called(v) /\ Stops(v, World)
  BY <1>1, <1>2, <1>3, CalmCalled, WorldIs DEF Gone
<1>6. Accounts(v.agent, sent', ended')
  <2>1. /\ Claimed(v.agent) = {} /\ Waiting(v.agent) = Waiting(World.agent)
        /\ Behind(v.agent) = Behind(World.agent)
    BY <1>3, WorldIs DEF Claimed, Waiting, Behind, Inbox, ToSet
  <2>2. Ended(World, ended, ended')
    BY <1>1, GivesUpEnded
  <2> QED
    BY <1>1, <1>2, <2>1, <2>2, ClaimsAccounts
<1>7. Welcomes(v)
  BY <1>1, <1>3, <1>4, <1>5, <1>6 DEF Welcomes, Cordial
<1> QED
  BY <1>7

\* The turn goes on or ends.
LEMMA TurnWelcomes ==
  ASSUME Typed(World), Welcome, NEW reason \in {"completed", "max-tokens", "error"},
         Blocked \/ Aborts \/ StepEnds(reason)
  PROVE  \E v : Welcomes(v)
<1>1. /\ sent' = sent /\ Sound(World) /\ Cordial(World) /\ Rows(World) /\ Called(World)
      /\ Accounts(World.agent, sent, ended)
      /\ \/ ended' = ended /\ agent.pc \in {"rejected", "stepping"}
         \/ GivesUp
  BY WorldIs DEF Blocked, Aborts, StepEnds, Kept, Welcome, Good, Cordial
<1>2. ASSUME NEW r, Becomes(EndTurn(World, r)), r \in {"completed", "max-tokens"} => ~agent.aborted
      PROVE  \E v : Welcomes(v)
  <2>1. Ends(EndTurn(World, r), World)
    BY <1>1, <1>2, EndTurnEnds, WorldIs
  <2> QED
    BY <1>1, <1>2, <2>1, EndsWelcomes
<1>3. CASE Becomes(Claim(World, 0)) /\ agent.pc = "stepping" /\ ~agent.aborted /\ ended' = ended
  <2> DEFINE v == Claim(World, 0)
  <2>1. Typed(v) /\ Steady(v, World) /\ Taken(v, World)
    BY <1>1, ClaimIs, ClaimTakes
  <2> HIDE DEF v
  <2>2. Called(v) /\ Stops(v, World)
    BY <1>1, <1>3, <2>1, CalmCalled, WorldIs DEF Steady, Gone
  <2>3. Accounts(v.agent, sent', ended')
    BY <1>1, <1>3, <2>1, TakenAccounts, WorldIs
  <2>4. Welcomes(v)
    BY <1>3, <2>1, <2>2, <2>3 DEF Welcomes, Cordial, Taken, v
  <2> QED
    BY <2>4
<1>4. CASE Blocked
  <2>1. Becomes(EndTurn(World, "blocked"))
    BY <1>4 DEF Blocked
  <2> QED
    BY <1>2, <2>1
<1>5. CASE Aborts
  <2>1. Becomes(EndTurn(World, "aborted"))
    BY <1>5 DEF Aborts
  <2> QED
    BY <1>2, <2>1
<1>6. CASE StepEnds(reason)
  <2>1. /\ agent.pc = "stepping" /\ ~agent.aborted /\ ended' = ended
        /\ Becomes(Claim(World, 0)) \/ Becomes(EndTurn(World, reason))
    BY <1>6 DEF StepEnds
  <2> QED
    BY <1>2, <1>3, <2>1
<1> QED
  BY <1>4, <1>5, <1>6

\* Teardown begins; a driver at work is cancelled, and its attempt is stale.
LEMMA UnloadWelcomes ==
  ASSUME Typed(World), Welcome, Unload
  PROVE  \E v : Welcomes(v)
<1> DEFINE busy == driver.attempt.phase # "none" /\ ~Idle(World)
           life == IF busy THEN "draining" ELSE "stopping"
           t == [driver.attempt EXCEPT !.stale = driver.attempt.phase # "none"]
           d == [driver EXCEPT !.life = life, !.attempt = t]
           u == [World EXCEPT !.driver = d]
           w == Disarm(u)
           x == Cancelled(w)
<1>1. /\ World \in Worlds /\ driver \in Drivers /\ DriverTyped(driver)
      /\ AttemptTyped(driver.attempt) /\ driver.attempt \in Attempts /\ driver.life = "active"
      /\ sent' = sent
  BY Parts, WorldIs DEF Unload, Kept
<1>2. life \in {"draining", "stopping"}
  OBVIOUS
<1>3. /\ AttemptTyped(t) /\ t.phase = driver.attempt.phase /\ t.ref = driver.attempt.ref
      /\ t.round = driver.attempt.round /\ t.cancelled = driver.attempt.cancelled
      /\ t.phase # "none" => t.stale
  <2>1. PICK c \in BOOLEAN : c = (driver.attempt.phase # "none")
    OBVIOUS
  <2>2. t = [driver.attempt EXCEPT !.stale = c]
    BY <2>1
  <2> HIDE DEF t
  <2> QED
    BY <1>1, <2>1, <2>2 DEF AttemptTyped, Attempts
<1>4. u = [World EXCEPT !.driver.life = life,
                        !.driver.attempt.stale = driver.attempt.phase # "none"]
  BY <1>1, WorldIs DEF Worlds, Drivers
<1>5. \/ Becomes(w) /\ ended' = ended
      \/ Becomes(x) /\ ended' = ended \cup Waiting(World.agent)
  BY <1>4, WorldIs DEF Unload, Waiting
<1> HIDE DEF t, life
<1>6. DriverTyped(d) /\ d.attempt = t /\ d.life = life
  BY <1>1, <1>2, <1>3 DEF DriverTyped, Drivers, AttemptTyped
<1> HIDE DEF d
<1>7. Typed(u) /\ u.goal = goal /\ u.agent = agent /\ u.driver = d /\ ~Gone(u)
  BY <1>2, <1>6, PutDriver, WorldIs DEF Gone
<1> HIDE DEF u
<1>8. /\ Typed(w) /\ w.driver = d /\ w.agent = agent /\ ~Driving(w.goal) /\ ~Gone(w)
  BY <1>7, DisarmIs DEF Driving, Gone
<1> HIDE DEF w
<1>9. /\ Rows(World) /\ Fenced(World) /\ Accounts(World.agent, sent, ended) /\ ~Gone(World)
  BY <1>1, WorldIs DEF Welcome, Cordial, Gone
<1>10. Holds(w, World)
  BY <1>8, SameHolds, WorldIs
<1>11. Rows(w)
  <2>1. Fainter(w.driver.attempt, World.driver.attempt)
    BY <1>3, <1>6, <1>8, WorldIs DEF Fainter, Matches
  <2> QED
    BY <1>8, <1>9, <2>1, RowsKept, WorldIs
<1>12. Fenced(w)
  <2>1. \A m : Matches(m, w.driver.attempt) => w.driver.attempt.stale
    BY <1>3, <1>6, <1>8 DEF Matches
  <2> QED
    BY <1>8, <1>9, <1>10, <2>1, WorldIs DEF Fenced, Holds
<1>13. Called(w) /\ Stops(w, World)
  BY <1>3, <1>6, <1>8, NoneUncancelled, WorldIs DEF Called, Stops
<1>14. CASE Becomes(w) /\ ended' = ended
  <2>1. Welcomes(w)
    BY <1>1, <1>8, <1>9, <1>11, <1>12, <1>13, <1>14, WorldIs DEF Welcomes, Cordial
  <2> QED
    BY <2>1
<1>15. CASE Becomes(x) /\ ended' = ended \cup Waiting(World.agent)
  <2>1. /\ Rows(x) /\ Fenced(x) /\ Waiting(x.agent) = {}
        /\ Claimed(x.agent) = Claimed(w.agent) /\ Behind(x.agent) = Behind(w.agent)
    BY <1>8, <1>11, <1>12, CancelledKeeps
  <2>2. /\ Typed(x) /\ x.goal = w.goal /\ x.agent.pc = w.agent.pc
        /\ x.driver.attempt.phase = w.driver.attempt.phase
    BY <1>8, CancelledIs
  <2> HIDE DEF x
  <2>3. Accounts(x.agent, sent', ended')
    BY <1>1, <1>8, <1>9, <1>15, <2>1, <2>2, ClearedAccounts, WorldIs
  <2>4. Called(x) /\ Stops(x, World)
    BY <1>8, <1>13, <2>2 DEF Called, Stops
  <2>5. Welcomes(x)
    BY <1>15, <2>1, <2>2, <2>3, <2>4 DEF Welcomes, Cordial
  <2> QED
    BY <2>5
<1> QED
  BY <1>5, <1>14, <1>15

\* Every step but a failed checkpoint.
LEMMA NextWelcomes ==
  ASSUME Apart, Typed(World), Welcome, Next, ~FlushFails
  PROVE  \E v : Welcomes(v)
<1>1. ASSUME NEW h \in Humans,
             Send(h, "next-turn", TRUE) \/ Send(h, "next-step", TRUE) \/ Send(h, "next-step", FALSE)
      PROVE  \E v : Welcomes(v)
  BY <1>1, SendWelcomes
<1>2. CASE Cancel
  BY <1>2, CancelWelcomes
<1>3. CASE Maintain \/ MaintenanceEnds
  BY <1>3, MaintenanceWelcomes
<1>4. CASE Mutation
  BY <1>4, MutationWelcomes
<1>5. CASE Unload
  BY <1>5, UnloadWelcomes
<1>6. CASE Unloaded
  BY <1>6, UnloadedWelcomes
<1>7. CASE Flushed
  BY <1>7, FlushedWelcomes
<1>8. CASE Loop
  BY <1>8, LoopWelcomes
<1>9. CASE PreStep
  BY <1>9, PreStepWelcomes
<1>10. CASE Accepted
  BY <1>10, AcceptedWelcomes
<1>11. CASE Refused
  BY <1>11, RefusedWelcomes
<1>12. CASE Throws
  BY <1>12, ThrowsWelcomes
<1>13. CASE Enter
  BY <1>13, EnterWelcomes
<1>14. ASSUME NEW reason \in {"completed", "max-tokens", "error"}, Blocked \/ Aborts \/ StepEnds(reason)
       PROVE  \E v : Welcomes(v)
  BY <1>14, TurnWelcomes
<1> QED
  BY <1>1, <1>2, <1>3, <1>4, <1>5, <1>6, <1>7, <1>8, <1>9, <1>10, <1>11, <1>12, <1>13, <1>14 DEF Next

-----------------------------------------------------------------------------
(* People come first                                                       *)

\* The invariant about people's messages.
FirstServed == Cordial(World) /\ Accounts(agent, sent, ended)

\* A round that was cancelled leaves a goal without authority.
Stopping ==
  driver.attempt.cancelled /\ driver.attempt.ref = goal.ref
    /\ driver'.attempt.phase = "none" => ~Driving(goal') \/ Gone(World)'

\* It is so in the next world, also if the driver forgets its attempt there.
LEMMA WelcomedNext ==
  ASSUME Typed(World), NEW v, Welcomes(v)
  PROVE  FirstServed' /\ Stopping
<1>1. /\ Typed(v) /\ Becomes(v) /\ Rows(v) /\ Fenced(v) /\ Called(v) /\ Stops(v, World)
      /\ Accounts(v.agent, sent', ended')
  BY DEF Welcomes, Cordial
<1>2. /\ goal' = v.goal /\ agent' = v.agent
      /\ ~Gone(v) => driver' = v.driver
      /\ Gone(v) => driver'.attempt = NoAttempt /\ driver'.life = "gone"
  BY <1>1, BecomesIs
<1> DEFINE x == [goal |-> goal', driver |-> driver', agent |-> agent']
<1>3. World' = x /\ x.goal = goal' /\ x.driver = driver' /\ x.agent = agent'
  BY DEF World
<1> HIDE DEF x
<1>4. Rows(x) /\ Fenced(x) /\ Called(x)
  <2>1. CASE Gone(v)
    <3>1. Fainter(x.driver.attempt, v.driver.attempt) /\ Gone(x)
      BY <1>2, <1>3, <2>1, NoneFainter DEF NoAttempt, Gone
    <3>2. Rows(x)
      BY <1>1, <1>2, <1>3, <3>1, RowsKept
    <3>3. \A m : ~Matches(m, x.driver.attempt)
      BY <1>2, <1>3, <2>1 DEF Matches, NoAttempt
    <3>4. Fenced(x)
      BY <1>1, <1>2, <1>3, <3>1, <3>3 DEF Fenced
    <3> QED
      BY <3>1, <3>2, <3>4 DEF Called
  <2>2. CASE ~Gone(v)
    <3>1. Gone(x) <=> Gone(v)
      BY <1>2, <1>3, <2>2 DEF Gone
    <3>2. Rows(x) /\ Fenced(x)
      BY <1>1, <1>2, <1>3, <2>2, <3>1, TwinCordial
    <3>3. Called(x)
      BY <1>1, <1>2, <1>3, <2>2, <3>1 DEF Called, Idle
    <3> QED
      BY <3>2, <3>3
  <2> QED
    BY <2>1, <2>2
<1>5. Cordial(World)'
  BY <1>3, <1>4 DEF Cordial, Rows, Fenced, Called, Gone, Idle
<1>6. Accounts(agent', sent', ended')
  BY <1>1, <1>2
<1>7. Stopping
  BY <1>1, <1>2, <1>3, WorldIs DEF Stopping, Stops, Gone
<1> QED
  BY <1>5, <1>6, <1>7 DEF FirstServed

\* So it is after a checkpoint that failed.
LEMMA FailedNext ==
  ASSUME Typed(World), FirstServed, FlushFails
  PROVE  FirstServed' /\ Stopping
<1> DEFINE v == Returned(Disarm(World))
           x == [goal |-> goal', driver |-> driver', agent |-> agent']
<1>1. /\ goal' = v.goal /\ driver' = v.driver /\ v.driver.attempt = driver.attempt
      /\ v.driver.life = driver.life /\ (~Gone(World) => ~v.goal.armed)
  BY FlushFailsMakes
<1> HIDE DEF v
<1>2. agent' = agent /\ sent' = sent /\ ended' = ended
  BY DEF FlushFails
<1>3. World' = x /\ x.goal = goal' /\ x.driver = driver' /\ x.agent = agent'
  BY DEF World
<1> HIDE DEF x
<1>4. Rows(World) /\ Fenced(World) /\ Accounts(agent, sent, ended)
  BY DEF FirstServed, Cordial
<1>5. Rows(x) /\ Fenced(x)
  BY <1>1, <1>2, <1>3, <1>4, TwinCordial, WorldIs DEF Gone
<1>6. Called(x)
  BY <1>1, <1>3, WorldIs DEF Called, Gone, Driving
<1>7. Cordial(World)'
  BY <1>3, <1>5, <1>6 DEF Cordial, Rows, Fenced, Called, Gone, Idle
<1>8. Stopping
  BY <1>1, NoneUncancelled, WorldIs DEF Stopping
<1> QED
  BY <1>2, <1>4, <1>7, <1>8 DEF FirstServed

\* The invariant is inductive where outside code keeps apart.
LEMMA FirstServedStep ==
  ASSUME Apart
  PROVE  TypeInv /\ InOrder /\ FirstServed /\ [Next]_vars => FirstServed' /\ Stopping
<1> SUFFICES ASSUME TypeInv, InOrder, FirstServed, [Next]_vars PROVE FirstServed' /\ Stopping
  OBVIOUS
<1>1. Typed(World)
  BY DEF TypeInv
<1>2. CASE UNCHANGED vars
  <2>1. /\ goal' = goal /\ driver' = driver /\ agent' = agent /\ sent' = sent /\ ended' = ended
    BY <1>2 DEF vars
  <2>2. World' = World
    BY <2>1 DEF World
  <2>3. Cordial(World)'
    BY <2>2 DEF FirstServed, Cordial, Rows, Fenced, Called, Gone, Idle
  <2>4. Stopping
    BY <1>1, <2>1, NoneUncancelled, WorldIs DEF Stopping
  <2> QED
    BY <2>1, <2>3, <2>4 DEF FirstServed
<1>3. CASE FlushFails
  BY <1>1, <1>3, FailedNext
<1>4. CASE Next /\ ~FlushFails
  <2>1. Welcome
    BY DEF InOrder, FirstServed, Welcome
  <2>2. PICK v : Welcomes(v)
    BY <1>1, <1>4, <2>1, NextWelcomes
  <2> QED
    BY <1>1, <2>2, WelcomedNext
<1> QED
  BY <1>2, <1>3, <1>4

\* At first nobody has sent anything.
LEMMA InitServed == Init => FirstServed
<1> SUFFICES ASSUME Init PROVE FirstServed
  OBVIOUS
<1>1. /\ agent.pc = "idle" /\ agent.nextStep = <<>> /\ agent.nextTurn = <<>> /\ agent.batch = <<>>
      /\ agent.passed = {} /\ driver.attempt = NoAttempt /\ sent = {} /\ ended = {}
  BY DEF Init
<1>2. Waiting(agent) = {} /\ Claimed(agent) = {} /\ Behind(agent) = {}
  BY <1>1 DEF Waiting, Claimed, Behind, Inbox, ToSet
<1>3. Rows(World)
  BY <1>1, WorldIs DEF Rows, ToSet
<1>4. Fenced(World) /\ Called(World)
  BY <1>1, WorldIs DEF Fenced, Called, NoAttempt
<1>5. Accounts(agent, sent, ended)
  BY <1>1, <1>2 DEF Accounts
<1> QED
  BY <1>3, <1>4, <1>5 DEF FirstServed, Cordial

\* What people send is never lost, also when the driver rejects the batch it was
\* claimed with (restoreOtherClaimed, goal-round-driver/src/index.ts:127); no round
\* passes a prompt that waited beside it when it was claimed; and when the attempt
\* of a cancelled round ends, its goal has lost the authority to go on, whatever
\* turns, cancels and listeners come between.
THEOREM PeopleFirst ==
  ASSUME Apart
  PROVE  Spec => HumanWorkWins
<1>1. Init => TypeInv /\ InOrder /\ FirstServed
  BY InitTyped, InitServed
<1>2. TypeInv /\ InOrder /\ FirstServed /\ [Next]_vars => TypeInv' /\ InOrder' /\ FirstServed'
  BY TypeStep, InOrderStep, FirstServedStep
<1>3. TypeInv /\ FirstServed => HumanInputKept
  BY DEF TypeInv, FirstServed, Accounts, HumanInputKept, Waiting, Claimed
<1>4. FirstServed => [Admits /\ ~Gone(World) => agent.passed \cap Humans \cap Inbox(agent) = {}]_vars
  <2> SUFFICES ASSUME FirstServed, agent.pc = "decided", HasRound, ~Gone(World)
               PROVE  agent.passed \cap Humans \cap Inbox(agent) = {}
    BY DEF Admits
  <2>1. RoundsIn(agent.batch) # {}
    BY DEF HasRound, RoundsIn
  <2>2. Behind(agent) \cap Waiting(agent) = {}
    BY <2>1, WorldIs DEF FirstServed, Cordial, Fenced
  <2> QED
    BY <2>2 DEF Behind, Waiting
<1>5. TypeInv /\ InOrder /\ FirstServed /\ [Next]_vars =>
        [driver.attempt.cancelled /\ driver.attempt.ref = goal.ref
           /\ driver'.attempt.phase = "none" => ~Driving(goal') \/ Gone(World)']_vars
  BY FirstServedStep DEF Stopping
<1> QED
  BY <1>1, <1>2, <1>3, <1>4, <1>5, PTL DEF Spec, HumanWorkWins, HumanFirst, CancelledStops
=============================================================================
