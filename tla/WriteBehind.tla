---------------------------- MODULE WriteBehind ----------------------------
(***************************************************************************)
(* How the events of one live session reach the store: the batching        *)
(* controller packages/session/session-persistence/src/write-behind.ts     *)
(* and the coordinator around it (coordinator.ts: initialization from the  *)
(* session's seed, the filtered append of a batch, flush, retirement).     *)
(*                                                                         *)
(* Events are their sequence numbers 0, 1, ... The controller keeps a      *)
(* queue, one deadline timer and at most one active write; flush joins or  *)
(* raises a barrier that drains the queue. A failed write puts its batch   *)
(* back in front of the queue and pauses the automatic path. The code runs *)
(* on one thread: an action is what runs between two awaits, and what is   *)
(* left to a later microtask is a state of its own.                        *)
(*                                                                         *)
(* All operations of a session id go through one promise chain, so nothing *)
(* moves the cursor while a batch is being appended. A failed append       *)
(* leaves the store as it was: the backend restores the previous size.     *)
(***************************************************************************)
EXTENDS Naturals, Sequences, FiniteSets

CONSTANTS MaxEvents,   \* bound on the events of the session
          Callers,     \* concurrent callers of flush
          Retirement   \* the caller that is the session's retirement

ASSUME CallersAssumption == MaxEvents \in Nat /\ Retirement \in Callers

VARIABLES
  produced,  \* length of the session's log
  stored,    \* the store
  cursor,    \* what the coordinator takes the store's length to be
  init,      \* initialization of the live state
  seed,      \* events the initialization will see stored
  pending,   \* the controller's queue
  batch,     \* events of the active write
  write,     \* the active write: "none", "background" or "barrier"
  timer,     \* the deadline timer is armed
  deadlineExpired, automaticPaused,
  continuing, \* continueAutomatic is due
  drain,     \* drainBarrier, "off" when no barrier is raised
  caller,    \* where each call of flush stands
  closed,    \* the session is disposed
  released,  \* its live state is forgotten
  goal       \* history: length of the log at each call of flush

store   == <<stored, cursor>>
startup == <<init, seed>>
queue   == <<pending, batch, write>>
flags   == <<deadlineExpired, automaticPaused, continuing>>
calls   == <<caller, goal>>
ending  == <<closed, released>>
vars == <<produced, stored, cursor, init, seed, pending, batch, write, timer,
          deadlineExpired, automaticPaused, continuing, drain, caller, closed,
          released, goal>>

\* The events from seq m up to, but not including, n.
Events(m, n) == [i \in 1..(n - m) |-> m + i - 1]

\* A session may start with a seed, of which an artifact may hold a prefix.
Init ==
  /\ produced \in 0..MaxEvents
  /\ \E n \in 0..produced : stored = Events(0, n)
  /\ cursor = 0 /\ init = "unattached" /\ seed = 0
  /\ pending = <<>> /\ batch = <<>> /\ write = "none" /\ timer = FALSE
  /\ deadlineExpired = FALSE /\ automaticPaused = FALSE /\ continuing = FALSE
  /\ drain = "off"
  /\ caller = [c \in Callers |-> "idle"] /\ goal = [c \in Callers |-> 0]
  /\ closed = FALSE /\ released = FALSE

-----------------------------------------------------------------------------
(* The live state of the session (initFor, onCreated).                     *)

\* initFor: the first mention of the session captures its events as the seed.
InitFor(events) ==
  IF init = "unattached" THEN init' = "pending" /\ seed' = events
                         ELSE UNCHANGED startup

\* session/created.
Attach ==
  /\ init = "unattached" /\ InitFor(produced)
  /\ UNCHANGED <<produced, store, queue, timer, flags, drain, calls, ending>>

\* The stored prefix is adopted and the rest of the seed appended.
InitSucceeds ==
  /\ init = "pending"
  /\ stored' = stored \o Events(Len(stored), seed)
  /\ cursor' = seed
  /\ init' = "ready"
  /\ UNCHANGED <<produced, seed, queue, timer, flags, drain, calls, ending>>

\* A collision, an unreadable artifact or a failed append of the seed.
InitFails ==
  /\ init = "pending"
  /\ init' = "failed"
  /\ UNCHANGED <<produced, store, seed, queue, timer, flags, drain, calls, ending>>

-----------------------------------------------------------------------------
(* The controller.                                                         *)

\* session/event: enqueue one event. The window starts when the queue was
\* empty, or anew after a failure; a barrier takes the event along.
Enqueue ==
  /\ ~closed /\ produced < MaxEvents
  /\ produced' = produced + 1
  /\ InitFor(produced + 1)
  /\ pending' = Append(pending, produced)
  /\ IF drain # "off" THEN UNCHANGED <<timer, deadlineExpired, automaticPaused>>
     ELSE IF automaticPaused
       THEN timer' = TRUE /\ deadlineExpired' = FALSE /\ automaticPaused' = FALSE
     ELSE /\ timer' = (timer \/ pending = <<>>)
          /\ UNCHANGED <<deadlineExpired, automaticPaused>>
  /\ UNCHANGED <<store, batch, write, continuing, drain, calls, ending>>

\* startWrite takes the whole queue.
StartWrite(kind) ==
  /\ batch' = pending /\ pending' = <<>> /\ write' = kind
  /\ timer' = FALSE /\ deadlineExpired' = FALSE

\* Faulty: a deadline that passes during a write is forgotten.
OnDeadlineDropped ==
  /\ timer /\ ~continuing
  /\ IF write # "none"
       THEN timer' = FALSE /\ UNCHANGED <<queue, deadlineExpired>>
       ELSE StartWrite("background")
  /\ UNCHANGED <<produced, store, startup, automaticPaused, continuing, drain, calls, ending>>

\* The timer fires after all microtasks have run.
OnDeadline ==
  /\ timer /\ ~continuing
  /\ IF write # "none"
       THEN timer' = FALSE /\ deadlineExpired' = TRUE /\ UNCHANGED queue
       ELSE StartWrite("background")
  /\ UNCHANGED <<produced, store, startup, automaticPaused, continuing, drain, calls, ending>>

\* Faulty: the remembered deadline starts nothing.
ContinueAutomaticIdle ==
  /\ continuing /\ continuing' = FALSE
  /\ UNCHANGED <<queue, timer, deadlineExpired>>
  /\ UNCHANGED <<produced, store, startup, automaticPaused, drain, calls, ending>>

\* A background write is done: the tail's own window may have passed meanwhile.
ContinueAutomatic ==
  /\ continuing /\ continuing' = FALSE
  /\ IF drain = "off" /\ pending # <<>> /\ deadlineExpired
       THEN StartWrite("background")
       ELSE UNCHANGED <<queue, timer, deadlineExpired>>
  /\ UNCHANGED <<produced, store, startup, automaticPaused, drain, calls, ending>>

\* appendLiveBatch leaves out what the initialization stored already: the i-th
\* event of the filtered batch is the one with i kept positions up to its own.
Kept == {k \in DOMAIN batch : batch[k] >= cursor}
Fresh == [i \in 1..Cardinality(Kept) |->
            batch[CHOOSE k \in Kept : Cardinality({h \in Kept : h <= k}) = i]]

\* appendCore refuses a batch that does not continue the store.
Contiguous(events) == events = Events(cursor, cursor + Len(events))

\* Faulty: the cursor counts the events that were left out, too.
WriteSucceedsWhole ==
  /\ write # "none" /\ init = "ready" /\ Contiguous(Fresh)
  /\ stored' = stored \o Fresh /\ cursor' = cursor + Len(batch)
  /\ batch' = <<>> /\ write' = "none"
  /\ continuing' = (write = "background")
  /\ UNCHANGED <<produced, startup, pending, timer, deadlineExpired,
                 automaticPaused, drain, calls, ending>>

WriteSucceeds ==
  /\ write # "none" /\ init = "ready" /\ Contiguous(Fresh)
  /\ stored' = stored \o Fresh /\ cursor' = cursor + Len(Fresh)
  /\ batch' = <<>> /\ write' = "none"
  /\ continuing' = (write = "background")
  /\ UNCHANGED <<produced, startup, pending, timer, deadlineExpired,
                 automaticPaused, drain, calls, ending>>

\* The failed batch goes back in front of what was queued meanwhile.
Retain == pending' = batch \o pending

\* Faulty: a failed append leaves its events in the store.
WriteFailsTorn ==
  /\ write # "none" /\ init # "pending"
  /\ stored' = stored \o Fresh /\ UNCHANGED cursor
  /\ Retain
  /\ batch' = <<>> /\ write' = "none" /\ timer' = FALSE
  /\ deadlineExpired' = FALSE /\ automaticPaused' = TRUE
  /\ drain' = IF drain = "writing" THEN "rejecting" ELSE drain
  /\ UNCHANGED <<produced, startup, continuing, calls, ending>>

\* The write awaits the initialization first; it fails with it.
WriteFails ==
  /\ write # "none" /\ init # "pending"
  /\ Retain
  /\ batch' = <<>> /\ write' = "none" /\ timer' = FALSE
  /\ deadlineExpired' = FALSE /\ automaticPaused' = TRUE
  /\ drain' = IF drain = "writing" THEN "rejecting" ELSE drain
  /\ UNCHANGED <<produced, store, startup, continuing, calls, ending>>

-----------------------------------------------------------------------------
(* flush and its barrier.                                                  *)

Waiting == {c \in Callers : caller[c] = "barrier"}

Settle(cs, s) == caller' = [c \in Callers |-> IF c \in cs THEN s ELSE caller[c]]

\* Coordinator.flush up to its await of the initialization: the pending window
\* is cancelled, since the caller is about to drain the queue itself.
Flush(c) ==
  /\ InitFor(produced)
  /\ timer' = FALSE /\ deadlineExpired' = FALSE
  /\ caller' = [caller EXCEPT ![c] = "initializing"]
  /\ goal' = [goal EXCEPT ![c] = produced]
  /\ UNCHANGED <<produced, store, queue, automaticPaused, continuing, drain>>

CallFlush(c) ==
  /\ c # Retirement /\ ~released
  /\ caller[c] \in {"idle", "done", "rejected"}
  /\ Flush(c)
  /\ UNCHANGED ending

\* session/disposed: no further event is published, retirement drains.
Dispose ==
  /\ ~closed /\ init # "unattached"
  /\ closed' = TRUE
  /\ Flush(Retirement)
  /\ UNCHANGED released

FlushRejects(c) ==
  /\ caller[c] = "initializing" /\ init = "failed"
  /\ timer' = FALSE /\ deadlineExpired' = FALSE
  /\ Settle({c}, "rejected")
  /\ UNCHANGED <<produced, store, startup, queue, automaticPaused, continuing, drain,
                 goal, ending>>

\* drainBarrier, the loop head: write what is queued, or settle the barrier in
\* the job that saw the queue empty.
DrainHead(cs) ==
  IF pending = <<>>
    THEN /\ drain' = "off" /\ Settle(cs, "done")
         /\ UNCHANGED queue /\ timer' = FALSE /\ deadlineExpired' = FALSE
    ELSE /\ drain' = "writing" /\ Settle(cs, "barrier")
         /\ StartWrite("barrier")

\* SessionWriteBehind.flush: join the barrier, or raise one.
JoinBarrier(c) ==
  /\ caller[c] = "initializing" /\ init = "ready"
  /\ IF drain # "off"
       THEN /\ Settle({c}, "barrier")
            /\ UNCHANGED <<queue, timer, deadlineExpired, automaticPaused, drain>>
     ELSE /\ automaticPaused' = FALSE
          /\ IF write # "none"
               THEN /\ timer' = FALSE /\ deadlineExpired' = FALSE
                    /\ drain' = "overlapping" /\ Settle({c}, "barrier")
                    /\ UNCHANGED queue
               ELSE DrainHead({c})
  /\ UNCHANGED <<produced, store, startup, continuing, goal, ending>>

\* Faulty: the queue is not looked at again after the barrier's write.
DrainOnce ==
  /\ drain \in {"overlapping", "writing"} /\ write = "none"
  /\ automaticPaused' = FALSE
  /\ IF drain = "overlapping" THEN DrainHead(Waiting)
     ELSE drain' = "off" /\ Settle(Waiting, "done") /\ UNCHANGED <<queue, timer, deadlineExpired>>
  /\ UNCHANGED <<produced, store, startup, continuing, goal, ending>>

\* The awaited write is done, or the overlapping one settled either way.
Drain ==
  /\ drain \in {"overlapping", "writing"} /\ write = "none"
  /\ automaticPaused' = FALSE
  /\ DrainHead(Waiting)
  /\ UNCHANGED <<produced, store, startup, continuing, goal, ending>>

DrainRejects ==
  /\ drain = "rejecting"
  /\ drain' = "off" /\ Settle(Waiting, "rejected")
  /\ UNCHANGED <<produced, store, startup, queue, timer, flags, goal, ending>>

\* retireCore forgets the live state once its flush succeeded.
Release ==
  /\ caller[Retirement] = "done" /\ ~released
  /\ released' = TRUE
  /\ UNCHANGED <<produced, store, startup, queue, timer, flags, drain, calls, closed>>

-----------------------------------------------------------------------------
Initialize   == Attach \/ InitSucceeds \/ InitFails
WriteSettles == WriteSucceeds \/ WriteFails
FlushSteps   == \E c \in Callers : FlushRejects(c) \/ JoinBarrier(c)
DrainSteps   == Drain \/ DrainRejects

Next ==
  \/ Initialize \/ WriteSettles \/ FlushSteps \/ DrainSteps
  \/ OnDeadline \/ ContinueAutomatic \/ Release
  \/ Enqueue \/ Dispose
  \/ \E c \in Callers : CallFlush(c)

Spec == Init /\ [][Next]_vars

\* Timers fire, the store answers and promise jobs run; nobody has to append,
\* flush or dispose, and no write has to succeed.
FairSpec ==
  /\ Spec
  /\ WF_vars(Initialize) /\ WF_vars(WriteSettles) /\ WF_vars(DrainSteps)
  /\ WF_vars(OnDeadline) /\ WF_vars(ContinueAutomatic) /\ WF_vars(Release)
  /\ \A c \in Callers : WF_vars(FlushRejects(c) \/ JoinBarrier(c))

-----------------------------------------------------------------------------
(* What must hold.                                                         *)

Seqs == Seq(0..(MaxEvents - 1))

TypeOK ==
  /\ produced \in 0..MaxEvents /\ cursor \in 0..MaxEvents /\ seed \in 0..MaxEvents
  /\ stored \in Seqs /\ pending \in Seqs /\ batch \in Seqs
  /\ init \in {"unattached", "pending", "ready", "failed"}
  /\ write \in {"none", "background", "barrier"} /\ timer \in BOOLEAN
  /\ deadlineExpired \in BOOLEAN /\ automaticPaused \in BOOLEAN
  /\ continuing \in BOOLEAN
  /\ drain \in {"off", "overlapping", "writing", "rejecting"}
  /\ caller \in [Callers -> {"idle", "initializing", "barrier", "done", "rejected"}]
  /\ goal \in [Callers -> 0..MaxEvents]
  /\ closed \in BOOLEAN /\ released \in BOOLEAN

\* A queued event always has somebody to write it: a deadline, a barrier, a
\* write that remembers the deadline passed, or a flush about to start. Only a
\* failure, which is reported, leaves it until the next event or flush.
NoEventStranded ==
  pending # <<>> /\ init # "failed" /\ ~automaticPaused =>
    \/ timer \/ drain # "off"
    \/ deadlineExpired /\ (write # "none" \/ continuing)
    \/ \E c \in Callers : caller[c] = "initializing"

\* A flush that resolves has made durable everything the session had when it
\* was called, joined barriers included; a retired session is forgotten only
\* with its whole log stored.
FlushKeepsPromise ==
  /\ \A c \in Callers : caller[c] = "done" => goal[c] <= cursor
  /\ released => cursor = produced

\* The store always holds a growing prefix of the session's log, which is what
\* SessionRecovery takes from it at a crash.
Store == INSTANCE PrefixStore WITH log <- Events(0, produced), durable <- stored

ImplementsPrefixStore == Store!Spec

\* Every flush settles, and every event reaches the store unless a failure was
\* reported meanwhile.
EventuallyStored ==
  /\ \A c \in Callers :
       caller[c] \in {"initializing", "barrier"} ~> caller[c] \in {"done", "rejected"}
  /\ \A e \in 0..(MaxEvents - 1) :
       produced > e ~> (cursor > e \/ automaticPaused \/ init = "failed")
=============================================================================
