------------------------------- MODULE Jobs -------------------------------
(***************************************************************************)
(* The background-job registry packages/jobs/jobs-local/src/index.ts and   *)
(* the completion notices of packages/jobs/tool-jobs/src/index.ts.         *)
(*                                                                         *)
(* A producer starts work for an owner (one exact Agent) or for nobody.    *)
(* The registry keeps a record until the owner's scope or the service is   *)
(* disposed; it cancels what is live, awaits the producers and drops the   *)
(* records. A completion is told once: by the wait, read or kill that      *)
(* reported it, or by a notice to the owner.                               *)
(*                                                                         *)
(* Owners are successive instances of one agent, all with one session id:  *)
(* every reader is in that session, so the access fence never refuses. A   *)
(* producer's outcome is not looked into. The plugin of the job tools is   *)
(* loaded as long as the service is: its controller admits starts and its  *)
(* listener sends notices, and both leave in the turn the service's        *)
(* disposal begins (cordis unloads dependents together with a service).    *)
(***************************************************************************)
EXTENDS Naturals, FiniteSets

CONSTANTS MaxJobs,   \* bound on the jobs started
          MaxOwners, \* bound on the instances of the owning agent
          Waits,     \* calls of wait()
          Limit      \* maxConcurrentJobsPerOwner

ASSUME JobsAssumption ==
  MaxJobs \in Nat \ {0} /\ MaxOwners \in Nat /\ Limit \in Nat \ {0}

Jobs   == 1..MaxJobs
Owners == 1..MaxOwners
\* A job without an owner lasts until the service is disposed.
Service == 0
Scopes == Owners \cup {Service}

VARIABLES
  owner,     \* TrackedTask.owner
  status,    \* TrackedTask.status, "absent" before start
  store,     \* the ids in the registry's map
  reported,  \* TrackedTask.reported
  work,      \* the producer: "none", "running", "over" (done settled, its
             \* continuation due) or "released" (the continuation ran)
  cancelled, \* jobs whose producer accepted a cancel and still runs
  orphaned,  \* jobs failed by force because cancel threw in a teardown
  wait,      \* where each call of wait() stands
  target,    \* the job it waits for
  phase,     \* lifecycle of each owner's scope, and of the service
  registered, \* the instance the agent registry holds
  attached,  \* owners in ownerCleanups
  draining,  \* the records a disposal took: disposeOwned's owned, disposeAll's all
  noticed,   \* jobs whose completion went out as a notice
  claimed    \* jobs whose completion a kill or a teardown answers for

record  == <<owner, status, store, reported>>
process == <<work, cancelled, orphaned>>
waiting == <<wait, target>>
scopes  == <<phase, registered, attached, draining>>
tellings == <<noticed, claimed>>
vars == <<owner, status, store, reported, work, cancelled, orphaned, wait,
          target, phase, registered, attached, draining, noticed, claimed>>

NoInstance == 0

IsTerminal(j) == status[j] \in {"settled", "failed"}

\* TrackedTask.waiters: a wait is counted until its continuation runs, or
\* until the moment its caller aborts it.
Counted(j) == {w \in Waits : target[w] = j /\ wait[w] \in {"waiting", "timedOut", "released"}}

Init ==
  /\ owner = [j \in Jobs |-> Service]
  /\ status = [j \in Jobs |-> "absent"]
  /\ store = {}
  /\ reported = [j \in Jobs |-> FALSE]
  /\ work = [j \in Jobs |-> "none"]
  /\ cancelled = {} /\ orphaned = {}
  /\ wait = [w \in Waits |-> "idle"]
  /\ target = [w \in Waits |-> 1]
  /\ phase = [t \in Scopes |-> IF t = Service THEN "live" ELSE "new"]
  /\ registered = NoInstance
  /\ attached = {}
  /\ draining = [t \in Scopes |-> {}]
  /\ noticed = {} /\ claimed = {}

-----------------------------------------------------------------------------
(* The agents that own jobs (agent registry and scopes, seen from here).   *)

Register(o) ==
  /\ registered = NoInstance /\ phase[o] = "new"
  /\ \A p \in 1..(o - 1) : phase[p] # "new"
  /\ registered' = o /\ phase' = [phase EXCEPT ![o] = "live"]
  /\ UNCHANGED <<record, process, waiting, attached, draining, tellings>>

Unregister ==
  /\ registered # NoInstance /\ phase[registered] # "live"
  /\ registered' = NoInstance
  /\ UNCHANGED <<record, process, waiting, phase, attached, draining, tellings>>

\* The scope begins to unload: it admits no effect from now on, and the
\* cleanups it has run in a later microtask.
Unload(o) ==
  /\ phase[o] = "live"
  /\ phase' = [phase EXCEPT ![o] = IF o \in attached THEN "unloading" ELSE "gone"]
  /\ UNCHANGED <<record, process, waiting, registered, attached, draining, tellings>>

-----------------------------------------------------------------------------
(* start                                                                   *)

\* Faulty: a stopping job gives its slot back at once.
ActiveRunningOnly(o) ==
  Cardinality({j \in store : owner[j] = o /\ status[j] = "running"})

ActiveTaskCount(o) ==
  Cardinality({j \in store : owner[j] = o /\ status[j] \in {"running", "stopping"}})

\* ensureOwnerCleanup: refuses an instance the registry does not hold, and a
\* scope that is unloading refuses the effect.
Attachable(o) == registered = o /\ (o \in attached \/ phase[o] = "live")

Admitted(o) ==
  /\ phase[Service] = "live"
  /\ o \in Owners => Attachable(o)
  /\ ActiveTaskCount(o) < Limit

\* Faulty: a job without an owner attaches a cleanup too.
EnsureAnyCleanup(o) == attached' = attached \cup {o}

EnsureOwnerCleanup(o) ==
  attached' = IF o \in Owners THEN attached \cup {o} ELSE attached

\* Ids are counted up.
Start(o, j) ==
  /\ status[j] = "absent" /\ \A i \in 1..(j - 1) : status[i] # "absent"
  /\ Admitted(o)
  /\ EnsureOwnerCleanup(o)
  /\ owner' = [owner EXCEPT ![j] = o]
  /\ status' = [status EXCEPT ![j] = "running"]
  /\ store' = store \cup {j}
  /\ work' = [work EXCEPT ![j] = "running"]
  /\ UNCHANGED <<reported, cancelled, orphaned, waiting, phase, registered, draining, tellings>>

\* The starter throws: the cleanup stays attached, nothing is registered.
StartThrows(o) ==
  /\ Admitted(o)
  /\ o \in Owners \ attached /\ EnsureOwnerCleanup(o)
  /\ UNCHANGED <<record, process, waiting, phase, registered, draining, tellings>>

-----------------------------------------------------------------------------
(* Settlement                                                              *)

\* settle releases the registered resolvers of the job.
Release(j) ==
  wait' = [w \in Waits |-> IF target[w] = j /\ wait[w] = "waiting" THEN "released" ELSE wait[w]]

\* The producer's promise settles: on its own, after a cancel, or by rejecting.
Finish(j) ==
  /\ work[j] = "running" /\ work' = [work EXCEPT ![j] = "over"]
  /\ cancelled' = cancelled \ {j}
  /\ UNCHANGED <<record, orphaned, waiting, scopes, tellings>>

\* settle: the first outcome wins, a pending wait reports it, and the notice
\* of tool-jobs goes out last unless the job is reported or has no owner.
Settle(j) ==
  /\ work[j] = "over" /\ work' = [work EXCEPT ![j] = "released"]
  /\ IF IsTerminal(j) THEN UNCHANGED <<record, wait, noticed>>
     ELSE /\ status' = [status EXCEPT ![j] = "settled"]
          /\ reported' = [reported EXCEPT ![j] = @ \/ Counted(j) # {}]
          /\ Release(j)
          /\ noticed' = IF phase[Service] = "live" /\ ~reported'[j] /\ owner[j] # Service
                        THEN noticed \cup {j} ELSE noticed
          /\ UNCHANGED <<owner, store>>
  /\ UNCHANGED <<cancelled, orphaned, target, scopes, claimed>>

-----------------------------------------------------------------------------
(* kill, read, wait                                                        *)

\* Producers of js accept a cancel: what still runs will settle.
Accepting(js) == cancelled \cup {j \in js : work[j] = "running"}

Kill(j) ==
  /\ j \in store /\ ~IsTerminal(j)
  /\ cancelled' = Accepting({j})
  /\ status' = [status EXCEPT ![j] = "stopping"]
  /\ reported' = [reported EXCEPT ![j] = TRUE]
  /\ claimed' = claimed \cup {j}
  /\ UNCHANGED <<owner, store, work, orphaned, waiting, scopes, noticed>>

\* read, or kill, of a terminal job (a live read changes nothing).
ReadTerminal(j) ==
  /\ j \in store /\ IsTerminal(j) /\ ~reported[j]
  /\ reported' = [reported EXCEPT ![j] = TRUE]
  /\ UNCHANGED <<owner, status, store, process, waiting, scopes, tellings>>

Wait(w, j) ==
  /\ wait[w] = "idle" /\ j \in store
  /\ target' = [target EXCEPT ![w] = j]
  /\ IF IsTerminal(j)
     THEN wait' = [wait EXCEPT ![w] = "ended"] /\ reported' = [reported EXCEPT ![j] = TRUE]
     ELSE wait' = [wait EXCEPT ![w] = "waiting"] /\ UNCHANGED reported
  /\ UNCHANGED <<owner, status, store, process, scopes, tellings>>

\* The deadline resolves the wait; its continuation is due.
TimeOut(w) ==
  /\ wait[w] = "waiting" /\ wait' = [wait EXCEPT ![w] = "timedOut"]
  /\ UNCHANGED <<record, process, target, scopes, tellings>>

\* The caller aborts: the wait is uncounted at once and rejects.
Abort(w) ==
  /\ wait[w] = "waiting" /\ wait' = [wait EXCEPT ![w] = "ended"]
  /\ UNCHANGED <<record, process, target, scopes, tellings>>

\* After the await: uncount, and report a job that is terminal by now.
Return(w) ==
  LET j == target[w] IN
  /\ wait[w] \in {"timedOut", "released"}
  /\ wait' = [wait EXCEPT ![w] = IF IsTerminal(j) THEN "answered" ELSE "ended"]
  /\ reported' = [reported EXCEPT ![j] = @ \/ IsTerminal(j)]
  /\ UNCHANGED <<owner, status, store, process, target, scopes, tellings>>

-----------------------------------------------------------------------------
(* Teardown                                                                *)

\* Cancels of live records, of which those of bad throw: the records of claims
\* are reported, those of fails become terminal and release their waits, those
\* of tells are announced.
CancelRecords(live, bad, claims, fails, tells) ==
  /\ reported' = [j \in Jobs |-> reported[j] \/ j \in claims]
  /\ claimed' = claimed \cup live
  /\ cancelled' = Accepting(live \ bad)
  /\ orphaned' = orphaned \cup fails
  /\ status' = [j \in Jobs |-> IF j \in fails THEN "failed"
                               ELSE IF j \in live THEN "stopping" ELSE status[j]]
  /\ wait' = [w \in Waits |-> IF target[w] \in fails /\ wait[w] = "waiting"
                              THEN "released" ELSE wait[w]]
  /\ noticed' = noticed \cup tells

Live(js) == {j \in js : ~IsTerminal(j)}

\* Faulty: the report is claimed after the producer's cancel returned, so a
\* cancel that throws announces the completion into the teardown.
CancelForTeardownLate(js, bad) ==
  /\ bad \subseteq Live(js)
  /\ CancelRecords(Live(js), bad, Live(js) \ bad, bad,
       {j \in bad : ~reported[j] /\ Counted(j) = {} /\ owner[j] # Service})

\* Faulty: a throwing cancel is only logged, and its record stays live.
CancelForTeardownLogged(js, bad) ==
  bad \subseteq Live(js) /\ CancelRecords(Live(js), bad, Live(js), {}, {})

\* cancelForTeardown over js, of which the cancels of bad throw: the report is
\* claimed before the producer runs, and a throwing cancel fails the record by
\* force (settle: its waits are released and no notice goes out).
CancelForTeardown(js, bad) ==
  bad \subseteq Live(js) /\ CancelRecords(Live(js), bad, Live(js), bad, {})

\* Faulty: the entry is dropped only when the cleanup is over.
CleanupKeepsEntry(o, bad) ==
  LET owned == {j \in store : owner[j] = o} IN
  /\ phase[o] = "unloading" /\ o \in attached
  /\ draining' = [draining EXCEPT ![o] = owned]
  /\ phase' = [phase EXCEPT ![o] = "draining"]
  /\ CancelForTeardown(owned, bad)
  /\ UNCHANGED <<owner, store, work, target, registered, attached>>

\* The owner's cleanup runs: disposeOwned up to its await.
Cleanup(o, bad) ==
  LET owned == {j \in store : owner[j] = o} IN
  /\ phase[o] = "unloading" /\ o \in attached
  /\ attached' = attached \ {o}
  /\ draining' = [draining EXCEPT ![o] = owned]
  /\ phase' = [phase EXCEPT ![o] = "draining"]
  /\ CancelForTeardown(owned, bad)
  /\ UNCHANGED <<owner, store, work, target, registered>>

\* The service's disposal has detached the cleanup: the scope has none left.
CleanupDetached(o) ==
  /\ phase[o] = "unloading" /\ o \notin attached
  /\ phase' = [phase EXCEPT ![o] = "gone"]
  /\ UNCHANGED <<record, process, waiting, registered, attached, draining, tellings>>

\* disposeAll up to its await; the controller is gone in the same turn.
DisposeAll(bad) ==
  /\ phase[Service] = "live"
  /\ draining' = [draining EXCEPT ![Service] = store]
  /\ phase' = [phase EXCEPT ![Service] = "draining"]
  /\ CancelForTeardown(store, bad)
  /\ UNCHANGED <<owner, store, work, target, registered, attached>>

Drained(t) == phase[t] = "draining" /\ \A j \in draining[t] : IsTerminal(j)

\* disposeOwned after its await: the records leave the store.
OwnedDropped(o) ==
  /\ o \in Owners /\ Drained(o)
  /\ store' = store \ draining[o]
  /\ phase' = [phase EXCEPT ![o] = "gone"]
  /\ draining' = [draining EXCEPT ![o] = {}]
  /\ UNCHANGED <<owner, status, reported, process, waiting, registered, attached, tellings>>

\* disposeAll after its await: the store is cleared, then every cleanup still
\* attached is detached, which runs it over no job.
ServiceClosed ==
  /\ Drained(Service)
  /\ store' = {}
  /\ attached' = {}
  /\ phase' = [phase EXCEPT ![Service] = "gone"]
  /\ draining' = [draining EXCEPT ![Service] = {}]
  /\ UNCHANGED <<owner, status, reported, process, waiting, registered, tellings>>

-----------------------------------------------------------------------------

Agents == Unregister \/ \E o \in Owners : Register(o) \/ Unload(o)
Producers == \E j \in Jobs :
  \/ \E o \in Scopes : Start(o, j)
  \/ Finish(j) \/ Settle(j)
FailedStart == \E o \in Owners : StartThrows(o)
Readers ==
  \/ \E j \in Jobs : Kill(j) \/ ReadTerminal(j)
  \/ \E w \in Waits : (\E j \in Jobs : Wait(w, j)) \/ TimeOut(w) \/ Abort(w) \/ Return(w)
Disposal ==
  \/ \E bad \in SUBSET store : DisposeAll(bad) \/ \E o \in Owners : Cleanup(o, bad)
  \/ \E o \in Owners : CleanupDetached(o) \/ OwnedDropped(o)
  \/ ServiceClosed

Next == Agents \/ Producers \/ FailedStart \/ Readers \/ Disposal

\* The continuations of settled promises and begun teardowns run; a producer
\* that accepted a cancel settles (JobHooks.cancel). Work that was never
\* cancelled, a deadline, a caller and a disposal owe nothing.
Fairness ==
  /\ \A j \in Jobs : WF_vars(j \in cancelled /\ Finish(j)) /\ WF_vars(Settle(j))
  /\ \A w \in Waits : WF_vars(Return(w))
  /\ \A o \in Owners :
       /\ WF_vars(\E bad \in SUBSET Jobs : Cleanup(o, bad))
       /\ WF_vars(CleanupDetached(o)) /\ WF_vars(OwnedDropped(o))
  /\ WF_vars(ServiceClosed)

Spec == Init /\ [][Next]_vars /\ Fairness

-----------------------------------------------------------------------------
(* Properties                                                              *)

\* Every variable has its type.
TypeOK ==
  /\ owner \in [Jobs -> Scopes]
  /\ status \in [Jobs -> {"absent", "running", "stopping", "settled", "failed"}]
  /\ store \subseteq Jobs
  /\ reported \in [Jobs -> BOOLEAN]
  /\ work \in [Jobs -> {"none", "running", "over", "released"}]
  /\ cancelled \subseteq Jobs /\ orphaned \subseteq Jobs
  /\ wait \in [Waits -> {"idle", "waiting", "timedOut", "released", "answered", "ended"}]
  /\ target \in [Waits -> Jobs]
  /\ phase \in [Scopes -> {"new", "live", "unloading", "draining", "gone"}]
  /\ registered \in Owners \cup {NoInstance}
  /\ attached \subseteq Owners
  /\ draining \in [Scopes -> SUBSET Jobs]
  /\ noticed \subseteq Jobs /\ claimed \subseteq Jobs

\* Someone who asked before the job settled answers for its completion: a kill,
\* a teardown, or a wait that returns, or is about to return, the final record.
Owed(j) ==
  \/ j \in claimed
  \/ \E w \in Waits : target[w] = j /\ wait[w] \in {"timedOut", "released", "answered"}

\* The completion of an owned job is told once: it goes out as a notice, or a
\* reader that was there when it settled has it, never both and never neither.
\* A wait that times out or aborts in the tick of the settlement must not
\* suppress the notice and then leave without the answer, and a teardown, whose
\* owner nobody reads for, must stay quiet even when its cancel throws.
CompletionToldOnce ==
  \A j \in Jobs : IsTerminal(j) /\ owner[j] # Service =>
    ((j \in noticed) <=> ~Owed(j))

\* A teardown leaves nothing behind: when an owner's scope, or the service, is
\* gone, none of its jobs is in the registry and none still runs, except work
\* whose cancel threw. Starts race the teardown's await: what keeps them out is
\* the entry cleanup drops first and the scope that refuses a new effect.
TeardownComplete ==
  \A j \in Jobs : status[j] # "absent" /\ "gone" \in {phase[owner[j]], phase[Service]} =>
    j \notin store /\ (work[j] = "running" => j \in orphaned)

\* The work an owner really has running, in whatever state its records are,
\* stays within the limit; only work orphaned by a throwing cancel is outside.
LiveWorkBounded ==
  \A o \in Scopes :
    Cardinality({j \in Jobs : owner[j] = o /\ work[j] = "running"} \ orphaned) <= Limit

\* A wait on a job that settles returns, and a begun teardown ends, whatever
\* cancels throw and although no deadline need ever fire.
Settles ==
  /\ \A w \in Waits : wait[w] = "waiting" /\ IsTerminal(target[w])
                        ~> wait[w] # "waiting"
  /\ \A w \in Waits : wait[w] = "released" ~> wait[w] = "answered"
  /\ \A t \in Scopes : phase[t] \in {"unloading", "draining"} ~> phase[t] = "gone"

=============================================================================
