-------------------------- MODULE SessionOwnership --------------------------
(***************************************************************************)
(* Who owns one session id. Agents are created afresh or resumed from the  *)
(* stored log, each with a Session object of its own, and leave while      *)
(* their last events still drain; load reads the log cold. All of it goes  *)
(* through                                                                 *)
(*   packages/session/session-persistence/src/coordinator.ts and           *)
(*   preparations.ts: the shared cold read, its exclusive reservation, the *)
(*     commit of its repair, binding a live session, retirement;           *)
(*   packages/core/agent-loop/src/index.ts: resume, createAgent, setup,    *)
(*     publication, teardown, and their cancellation;                      *)
(*   packages/core/session/src/index.ts: the store, entered once per id.   *)
(*                                                                         *)
(* An attempt is one call of resume, createAgent or load, and stands for   *)
(* the agent and the Session it publishes, too. An event is the attempt    *)
(* that logged it and whether it opens or closes a turn; the stored log is *)
(* its own revision. Operations of the id go through one promise chain.    *)
(* How a live session's writes are batched is the subject of WriteBehind:  *)
(* here a write takes all that is not saved.                               *)
(***************************************************************************)
EXTENDS Naturals, Sequences, SequencesExt

CONSTANTS Resumers, Creators, Loaders, \* the calls of resume, createAgent, load
          Nobody,    \* no attempt
          MaxEvents, \* bound on the events an attempt logs
          MaxForeign \* bound on the events other processes append

Attempts == Resumers \cup Creators \cup Loaders

\* What an attempt sees of a preparation is told apart from who still reads it, and
\* its events from those of others.
ASSUME OwnershipAssumption ==
  /\ Nobody \notin Attempts
  /\ Attempts \cap {"none", "current", "stale", "error", "repair", "elsewhere"} = {}
  /\ MaxEvents \in Nat /\ MaxForeign \in Nat

VARIABLES
  stored,  \* the artifact: its events; no event, no artifact
  state,   \* SessionState of the id: tracked, owner, cursor
  entry,   \* its preparation: phase, source read, events of the Session made of
           \* it, attempt that reads or holds it
  chain,   \* operations of the id that are not over; the first one runs
  live,    \* the session store: the attempt whose Session is entered
  pc,      \* where each attempt stands
  seen,    \* the preparation an attempt waits on: "current", "stale", "error", or
           \* lost while the attempt named here still reads it
  awaited, \* the retirement an attempt waits for
  aborted, \* attempts whose signal is aborted
  log,     \* events of the attempt's Session
  saved,   \* how many of them need no write: the seed, then those written
  init,    \* LiveSessionState.init
  retired, \* retirement of the attempt's Session
  latest,  \* retirements of the id: the last one entered
  foreign  \* events appended by other processes

disk     == <<stored, state>>
pool     == <<entry, seen>>
calls    == <<live, pc, awaited, aborted>>
session  == <<log, saved, init>>
retiring == <<retired, latest>>
vars == <<disk, pool, chain, calls, session, retiring, foreign>>

-----------------------------------------------------------------------------
(* Logs                                                                    *)

Repair    == "repair"    \* the author of the closers of an interrupted turn
Elsewhere == "elsewhere" \* the author of events of other processes

Balanced(events) == events = <<>> \/ Last(events).turn = "closed"

\* The next event of a log closes its open turn or opens one.
Logged(events, who) ==
  Append(events, [by |-> who, turn |-> IF Balanced(events) THEN "open" ELSE "closed"])

Prefix(events, n) == SubSeq(events, 1, n)
Suffix(events, n) == SubSeq(events, n + 1, Len(events))

Unowned == [tracked |-> FALSE, owner |-> Nobody, cursor |-> 0]
NoEntry == [phase |-> "none", source |-> <<>>, session |-> <<>>, holder |-> Nobody]

\* A session starts without an artifact, with a closed one, or with one a crash
\* left in the middle of a turn.
Init ==
  /\ \E turn \in {0, 1, 2} :
       stored = Prefix(Logged(Logged(<<>>, Elsewhere), Elsewhere), turn)
  /\ state = Unowned /\ entry = NoEntry /\ chain = <<>>
  /\ live = Nobody
  /\ pc = [a \in Attempts |-> "idle"]
  /\ seen = [a \in Attempts |-> "none"]
  /\ awaited = [a \in Attempts |-> Nobody]
  /\ aborted = {}
  /\ log = [a \in Attempts |-> <<>>] /\ saved = [a \in Attempts |-> 0]
  /\ init = [a \in Attempts |-> "none"]
  /\ retired = [a \in Attempts |-> "no"] /\ latest = Nobody
  /\ foreign = 0

-----------------------------------------------------------------------------
(* serialize, the promise chain of the id                                  *)

Op(kind, a) == [op |-> kind, for |-> a]
Running(kind, a) == chain # <<>> /\ Head(chain) = Op(kind, a)
HasOp(a) == \E i \in 1..Len(chain) : chain[i].for = a
Enqueue(kind, a) == chain' = Append(chain, Op(kind, a))
EndOp == chain' = Tail(chain)
Advance(kind) == chain' = <<Op(kind, Head(chain).for)>> \o Tail(chain)

-----------------------------------------------------------------------------
(* The pool of preparations, one entry for the id                          *)

\* Faulty: who waits is not told.
WaitersForgotten(view) == seen

\* Everyone who waits on the present entry, as `view` from now on.
Waiters(view) == [b \in Attempts |-> IF seen[b] = "current" THEN view ELSE seen[b]]

Leave(a) == seen' = [seen EXCEPT ![a] = "none"]

\* remove: whoever waits on the entry finds another one, or none.
RemoveEntry(a) ==
  IF seen[a] = "current"
    THEN entry' = NoEntry /\ seen' = [Waiters("stale") EXCEPT ![a] = "none"]
    ELSE Leave(a) /\ UNCHANGED entry

Reserved(a) == entry.phase = "reserved" /\ entry.holder = a

\* Faulty: a source is good again, whatever the setup logged.
AlwaysReusable(a) == TRUE

\* release: a source that nobody owns or added events to may be used again.
Reusable(a) == state.owner = Nobody /\ log[a] = entry.source

Release(a) ==
  IF ~Reserved(a) THEN UNCHANGED pool
  ELSE IF ~Reusable(a) THEN RemoveEntry(a)
  ELSE /\ Leave(a)
       /\ entry' = [entry EXCEPT !.phase = "ready", !.holder = Nobody, !.session = log[a]]

\* invalidate: an append makes the source outdated. A read under way goes on for
\* those who wait on it.
Invalidate ==
  /\ entry' = NoEntry
  /\ seen' = Waiters(IF entry.phase = "loading" THEN entry.holder ELSE "stale")

\* assertWritable
Writable == entry.phase \notin {"committing", "reserved"}

-----------------------------------------------------------------------------
(* prepare and load: wait for the retirement, share the cold read, reserve *)
(* it, commit its repair; from the start again when the entry was lost.    *)

Move(a, place) ==
  pc' = [pc EXCEPT ![a] = place] /\ awaited' = [awaited EXCEPT ![a] = Nobody]
Goto(a, place) == Move(a, place) /\ UNCHANGED aborted
Over(a) == Move(a, "over") /\ aborted' = aborted \ {a}

\* waitForRetirement
Retiring == IF latest # Nobody /\ retired[latest] = "pending" THEN latest ELSE Nobody

Begin(a) ==
  /\ a \in Resumers \cup Loaders /\ pc[a] \in {"idle", "retry"}
  /\ awaited' = [awaited EXCEPT ![a] = Retiring]
  /\ pc' = [pc EXCEPT ![a] = "waiting"]
  /\ UNCHANGED <<disk, pool, chain, live, aborted, session, retiring, foreign>>

\* The retirement is over: a live session refuses prepare and answers load, else
\* entryFor joins the entry or starts the read.
Enter(a) ==
  /\ pc[a] = "waiting"
  /\ awaited[a] # Nobody => retired[awaited[a]] = "done"
  /\ IF live # Nobody
       THEN Over(a) /\ UNCHANGED <<pool, chain>>
       ELSE /\ Goto(a, "sharing")
            /\ seen' = [seen EXCEPT ![a] = "current"]
            /\ IF entry.phase = "none"
                 THEN entry' = [NoEntry EXCEPT !.phase = "loading", !.holder = a] /\ Enqueue("load", a)
                 ELSE UNCHANGED <<entry, chain>>
  /\ UNCHANGED <<disk, live, session, retiring, foreign>>

\* The retirement it waited for failed, and so does the attempt.
RetirementFailed(a) ==
  /\ pc[a] = "waiting" /\ awaited[a] # Nobody /\ retired[awaited[a]] = "failed"
  /\ Over(a)
  /\ UNCHANGED <<disk, pool, chain, live, session, retiring, foreign>>

\* prepareCore, and the entry's answer to it. sessions.prepare refuses a live id.
Load(a) ==
  /\ Running("load", a) /\ EndOp
  /\ \E read \in {"stale", "error"} :
       /\ read = "stale" => stored # <<>> /\ live = Nobody
       /\ IF entry.phase # "loading" \/ entry.holder # a
            THEN /\ seen' = [b \in Attempts |-> IF seen[b] = a THEN read ELSE seen[b]]
                 /\ UNCHANGED entry
          ELSE IF read = "error" THEN entry' = NoEntry /\ seen' = Waiters("error")
          ELSE /\ entry' = [phase |-> "ready", source |-> stored, session |-> stored, holder |-> Nobody]
               /\ UNCHANGED seen
  /\ UNCHANGED <<disk, calls, session, retiring, foreign>>

\* reserve: the first waiter to find the entry ready takes it.
Share(a) ==
  /\ pc[a] = "sharing"
  /\ \/ seen[a] = "error" /\ Over(a) /\ Leave(a) /\ UNCHANGED <<entry, chain>>
     \/ seen[a] = "stale" /\ Goto(a, "retry") /\ Leave(a) /\ UNCHANGED <<entry, chain>>
     \/ /\ seen[a] = "current" /\ entry.phase = "ready"
        /\ Goto(a, "committing")
        /\ entry' = [entry EXCEPT !.phase = "committing", !.holder = a]
        /\ Enqueue("commit", a)
        /\ UNCHANGED seen
  /\ UNCHANGED <<disk, live, session, retiring, foreign>>

\* readStoredRevision answers what it did when the source was read. The entry is
\* only taken from a committing attempt by an append, which changes the log.
IsPreparedSourceCurrent(a) == seen[a] = "current" /\ entry.source = stored

\* commitPrepared: the closers it writes, or the source it finds replaced, send
\* the attempt round again.
CommitPrepared(a) ==
  IF IsPreparedSourceCurrent(a) /\ Balanced(entry.source)
    THEN /\ state' = [tracked |-> TRUE, owner |-> Nobody, cursor |-> Len(entry.source)]
         /\ Goto(a, "committed")
         /\ UNCHANGED <<stored, pool>>
    ELSE /\ stored' = IF IsPreparedSourceCurrent(a) THEN Logged(stored, Repair) ELSE stored
         /\ Goto(a, "retry") /\ RemoveEntry(a)
         /\ UNCHANGED state

\* Faulty: nobody asks who owns the id.
CommitIgnoresOwner(a) ==
  IF pc[a] = "over"
    THEN UNCHANGED <<disk, pool, pc, awaited, aborted>>
    ELSE CommitPrepared(a) \/ (Over(a) /\ RemoveEntry(a) /\ UNCHANGED disk)

\* A commit whose caller left before it started does nothing. One that finds an
\* owner fails, as any may that reads or writes.
CommitOutcome(a) ==
  IF pc[a] = "over"
    THEN UNCHANGED <<disk, pool, pc, awaited, aborted>>
    ELSE \/ state.owner = Nobody /\ CommitPrepared(a)
         \/ Over(a) /\ RemoveEntry(a) /\ UNCHANGED disk

Commit(a) ==
  /\ Running("commit", a) /\ EndOp
  /\ CommitOutcome(a)
  /\ UNCHANGED <<live, session, retiring, foreign>>

\* Faulty: a preparation whose caller left stays held.
AbandonKept(a) == Leave(a) /\ UNCHANGED entry

\* makeReady: the next waiter may reserve the source.
Abandon(a) ==
  /\ Leave(a)
  /\ entry' = IF seen[a] = "current" THEN [entry EXCEPT !.phase = "ready", !.holder = Nobody]
                                     ELSE entry

\* The commit returned. A preparation whose caller left is ready again; load only
\* wanted the view.
Reserve(a) ==
  /\ pc[a] = "committed"
  /\ \/ a \in aborted /\ Over(a) /\ Abandon(a) /\ UNCHANGED log
     \/ /\ a \notin aborted /\ seen[a] # "current"
        /\ Goto(a, "retry") /\ Leave(a) /\ UNCHANGED <<entry, log>>
     \/ /\ a \notin aborted /\ seen[a] = "current" /\ (live # Nobody \/ a \in Loaders)
        /\ Over(a) /\ RemoveEntry(a) /\ UNCHANGED log
     \/ /\ a \in Resumers \ aborted /\ seen[a] = "current" /\ live = Nobody
        /\ Goto(a, "setup")
        /\ entry' = [entry EXCEPT !.phase = "reserved"]
        /\ log' = [log EXCEPT ![a] = entry.session]
        /\ UNCHANGED seen
  /\ UNCHANGED <<disk, chain, live, saved, init, retiring, foreign>>

\* createAgent starts from a seed of its own; sessions.prepare refuses a live id.
Create(a) ==
  /\ a \in Creators /\ pc[a] = "idle"
  /\ IF live # Nobody
       THEN Over(a) /\ UNCHANGED log
       ELSE /\ Goto(a, "setup")
            /\ \E seed \in {<<>>, Logged(<<>>, a)} : log' = [log EXCEPT ![a] = seed]
  /\ UNCHANGED <<disk, pool, chain, live, saved, init, retiring, foreign>>

\* The caller, the owner or the factory cancels. A queued wait ends at once, and
\* so does a commit that has not started; the rest sees the signal later.
Abort(a) ==
  /\ a \in (Resumers \cup Creators) \ aborted
  /\ pc[a] \in {"waiting", "retry", "sharing", "committing", "committed", "setup"}
  /\ \/ pc[a] \in {"waiting", "retry", "sharing"} /\ Over(a) /\ Leave(a) /\ UNCHANGED entry
     \/ pc[a] = "committing" /\ Over(a) /\ RemoveEntry(a)
     \/ /\ pc[a] \in {"committed", "setup"} /\ aborted' = aborted \cup {a}
        /\ UNCHANGED <<pc, awaited, pool>>
  /\ UNCHANGED <<disk, chain, live, session, retiring, foreign>>

-----------------------------------------------------------------------------
(* Setup, publication, teardown                                            *)

Forget(a) == log' = [log EXCEPT ![a] = <<>>]

\* setup failed or was cancelled, or another agent took the id: the Session is
\* dropped and its reservation released.
Unwind(a) ==
  /\ pc[a] = "setup"
  /\ Over(a) /\ Release(a) /\ Forget(a)
  /\ UNCHANGED <<disk, chain, live, saved, init, retiring, foreign>>

\* attachPrepared: the reservation is consumed, its Session owns the state, and
\* what setup logged is written first.
Attachable(a) == Reserved(a) /\ state.owner = Nobody /\ state.cursor = Len(entry.source)

Attach(a) ==
  /\ Attachable(a)
  /\ RemoveEntry(a)
  /\ state' = [state EXCEPT !.owner = a]
  /\ IF Len(log[a]) > state.cursor
       THEN init' = [init EXCEPT ![a] = "pending"] /\ Enqueue("init", a)
       ELSE init' = [init EXCEPT ![a] = "ready"] /\ UNCHANGED chain

\* initFor of a session that was not prepared from the log.
InitFor(a) ==
  /\ entry.phase = "none"
  /\ init' = [init EXCEPT ![a] = "pending"] /\ Enqueue("init", a)
  /\ UNCHANGED <<pool, state>>

\* publish enters the store and announces the session; the coordinator binds it
\* or refuses it, which leaves it in the store until the teardown gets there.
Publish(a) ==
  /\ pc[a] = "setup" /\ a \notin aborted /\ live = Nobody
  /\ live' = a
  /\ \/ /\ Attach(a) \/ InitFor(a)
        /\ Goto(a, "published")
        /\ saved' = [saved EXCEPT ![a] = Len(log[a])]
     \/ /\ entry.phase # "none" /\ ~Attachable(a)
        /\ Goto(a, "refused")
        /\ UNCHANGED <<pool, state, init, chain, saved>>
  /\ UNCHANGED <<stored, log, retiring, foreign>>

Rollback(a) ==
  /\ pc[a] = "refused"
  /\ live' = Nobody /\ Over(a) /\ Release(a) /\ Forget(a)
  /\ UNCHANGED <<disk, chain, saved, init, retiring, foreign>>

\* The agent, or its setup, logs the next event.
Log(a) ==
  /\ pc[a] \in {"setup", "published"}
  /\ Len(SelectSeq(log[a], LAMBDA e : e.by = a)) < MaxEvents
  /\ log' = [log EXCEPT ![a] = Logged(log[a], a)]
  /\ UNCHANGED <<disk, pool, chain, calls, saved, init, retiring, foreign>>

\* dispose left the registries: retire.
Detach(a) ==
  /\ pc[a] = "published"
  /\ live' = Nobody /\ Goto(a, "gone")
  /\ retired' = [retired EXCEPT ![a] = "pending"] /\ latest' = a
  /\ UNCHANGED <<disk, pool, chain, session, foreign>>

-----------------------------------------------------------------------------
(* Binding, writing and retiring a live session, on the chain of the id    *)

\* appendCore, once the backend has the batch.
AppendCore(events) ==
  /\ stored' = stored \o events
  /\ state' = [state EXCEPT !.cursor = Len(stored')]
  /\ Invalidate

HasWork(b) == b # Nobody /\ (Len(log[b]) > saved[b] \/ HasOp(b))

\* onCreated: a log that is not the beginning of the seed belongs to someone else,
\* and so does an id whose session still writes or whose log is being prepared.
Collides(a) ==
  \/ state.owner # Nobody /\ (stored # <<>> \/ HasWork(state.owner))
  \/ ~IsPrefix(stored, Prefix(log[a], saved[a]))
  \/ stored = <<>> /\ entry.phase # "none"

\* The session owns the id now, or did since attachPrepared; what it was published
\* with and is not stored yet follows, if a reservation does not forbid it.
Bind(a) ==
  /\ Running("init", a)
  /\ \/ /\ state.owner # a => ~Collides(a)
        /\ state' = [tracked |-> TRUE, owner |-> a, cursor |-> Len(stored)]
        /\ IF saved[a] = Len(stored) THEN EndOp /\ init' = [init EXCEPT ![a] = "ready"]
           ELSE IF Writable THEN Advance("seed") /\ UNCHANGED init
           ELSE EndOp /\ init' = [init EXCEPT ![a] = "failed"]
     \/ EndOp /\ init' = [init EXCEPT ![a] = "failed"] /\ UNCHANGED state
  /\ UNCHANGED <<stored, pool, calls, log, saved, retiring, foreign>>

Seed(a) ==
  /\ Running("seed", a) /\ EndOp
  /\ \/ /\ AppendCore(SubSeq(log[a], state.cursor + 1, saved[a]))
        /\ init' = [init EXCEPT ![a] = "ready"]
     \/ init' = [init EXCEPT ![a] = "failed"] /\ UNCHANGED <<disk, pool>>
  /\ UNCHANGED <<calls, log, saved, retiring, foreign>>

\* A window of the write-behind closes, or the retirement drains it.
StartWrite(a) ==
  /\ pc[a] = "published" \/ retired[a] = "pending"
  /\ init[a] = "ready" /\ Len(log[a]) > saved[a] /\ ~HasOp(a)
  /\ Enqueue(IF retired[a] = "pending" THEN "drain" ELSE "write", a)
  /\ UNCHANGED <<disk, pool, calls, session, retiring, foreign>>

\* appendLiveBatch passes the checks of appendCore.
Write(a) ==
  /\ Writable
  /\ \/ Running("write", a) /\ Advance("writing")
     \/ Running("drain", a) /\ Advance("draining")
  /\ UNCHANGED <<disk, pool, calls, session, retiring, foreign>>

Written(a) ==
  /\ Running("writing", a) \/ Running("draining", a)
  /\ EndOp
  /\ AppendCore(Suffix(log[a], state.cursor))
  /\ saved' = [saved EXCEPT ![a] = Len(log[a])]
  /\ UNCHANGED <<calls, log, init, retiring, foreign>>

\* The batch stays queued, and a retirement that drained it is lost.
WriteFails(a) ==
  /\ chain # <<>> /\ Head(chain).for = a
  /\ Head(chain).op \in {"write", "drain", "writing", "draining"}
  /\ EndOp
  /\ retired' = IF Head(chain).op \in {"drain", "draining"}
                  THEN [retired EXCEPT ![a] = "failed"] ELSE retired
  /\ UNCHANGED <<disk, pool, calls, session, latest, foreign>>

\* Faulty: the retirement waits for the initialization only.
Initialized(a) == init[a] = "ready"

\* retireCore: initialized, drained, then off the chain.
Drained(a) == init[a] = "ready" /\ Len(log[a]) = saved[a]

Retire(a) ==
  /\ retired[a] = "pending" /\ ~HasOp(a)
  /\ \/ init[a] = "failed" /\ retired' = [retired EXCEPT ![a] = "failed"] /\ UNCHANGED chain
     \/ Drained(a) /\ Enqueue("final", a) /\ UNCHANGED retired
  /\ UNCHANGED <<disk, pool, calls, session, latest, foreign>>

Final(a) ==
  /\ Running("final", a) /\ EndOp
  /\ state' = IF state.owner = a THEN Unowned ELSE state
  /\ retired' = [retired EXCEPT ![a] = "done"]
  /\ UNCHANGED <<stored, pool, calls, session, latest, foreign>>

\* Another process writes to the log while no session here is bound to it or
\* about to be; the revision is all that tells.
Foreign ==
  /\ foreign < MaxForeign /\ foreign' = foreign + 1
  /\ stored # <<>> /\ state.owner = Nobody
  /\ \A a \in Attempts : pc[a] \notin {"committed", "setup", "published", "refused"}
  /\ stored' = Logged(stored, Elsewhere)
  /\ UNCHANGED <<state, pool, chain, calls, session, retiring>>

-----------------------------------------------------------------------------

Waits(a)   == Begin(a) \/ Enter(a) \/ RetirementFailed(a) \/ Share(a) \/ Reserve(a)
Runs(a)    == Load(a) \/ Commit(a) \/ Bind(a) \/ Seed(a) \/ Write(a) \/ Written(a) \/ WriteFails(a) \/ Final(a)
Settles(a) == Unwind(a) \/ Publish(a) \/ Rollback(a)
Drains(a)  == StartWrite(a) \/ Retire(a)
Users(a)   == Create(a) \/ Abort(a) \/ Log(a) \/ Detach(a)

Next ==
  \/ \E a \in Attempts : Waits(a) \/ Runs(a) \/ Settles(a) \/ Drains(a) \/ Users(a)
  \/ Foreign

\* Promises settle, I/O answers, setup ends. Nobody has to start, cancel, log or
\* dispose anything.
Fairness ==
  \A a \in Attempts :
    /\ WF_vars(pc[a] # "idle" /\ Waits(a))
    /\ WF_vars(Runs(a)) /\ WF_vars(Settles(a)) /\ WF_vars(Drains(a))

Spec == Init /\ [][Next]_vars /\ Fairness

-----------------------------------------------------------------------------
(* Properties                                                              *)

Places == {"idle", "retry", "waiting", "sharing", "committing", "committed", "setup",
           "published", "refused", "gone", "over"}

\* Every attempt, the one entry of the pool and the session's lifecycle stay
\* within the phases their code knows; an entry is held exactly while it is
\* being committed or reserved, and by an attempt that still counts on it.
TypeOK ==
  /\ pc \in [Attempts -> Places]
  /\ seen \in [Attempts -> {"none", "current", "stale", "error"} \cup Attempts]
  /\ awaited \in [Attempts -> Attempts \cup {Nobody}]
  /\ init \in [Attempts -> {"none", "pending", "ready", "failed"}]
  /\ retired \in [Attempts -> {"no", "pending", "done", "failed"}]
  /\ entry.phase \in {"none", "loading", "ready", "committing", "reserved"}
  /\ entry.phase \in {"none", "ready"} <=> entry.holder = Nobody
  /\ entry.phase \in {"committing", "reserved"} =>
       pc[entry.holder] \in {"committing", "committed", "setup", "refused"}
  /\ live # Nobody => pc[live] \in {"published", "refused"}

\* Whoever holds the id continues its log: for a resumed agent in setup, and for
\* the session that owns the persistence state, live or draining, what is stored
\* is what its own log begins with, the cursor is where that ends, and nothing
\* after it comes from another agent's setup or session.
HolderContinuesLog ==
  \A a \in Attempts :
    (Reserved(a) /\ pc[a] = "setup") \/ state.owner = a =>
      /\ IsPrefix(stored, log[a]) /\ state.cursor = Len(stored)
      /\ \A i \in Len(stored) + 1 .. Len(log[a]) : log[a][i].by = a

\* A retirement that ended well left everything its session logged in the store,
\* where every later session and repair only appends.
RetiredIsStored ==
  \A a \in Attempts : retired[a] = "done" => IsPrefix(log[a], stored)

\* An interrupted turn is closed in the log only when no session here could still
\* close it itself: none that is bound to the id is live, or draining. (A session
\* that logged nothing and retires may lose the id meanwhile: it has no turn.)
BoundAndBusy(a) ==
  init[a] = "ready" /\ (live = a \/ (retired[a] = "pending" /\ log[a] # <<>>))

RepairsOnlyTheDead ==
  [][Len(stored') > Len(stored) /\ Last(stored').by = Repair
       => \A a \in Attempts : ~BoundAndBusy(a)]_vars

\* Whatever fails or is cancelled, everyone who asked for the id gets an answer and
\* every retirement ends: no reservation is left behind for others to wait on.
EveryoneAnswered ==
  \A a \in Attempts :
    /\ pc[a] \notin {"idle", "published", "gone", "over"} ~> pc[a] \in {"published", "gone", "over"}
    /\ retired[a] = "pending" ~> retired[a] # "pending"
=============================================================================
