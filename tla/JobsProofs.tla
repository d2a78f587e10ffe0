----------------------------- MODULE JobsProofs -----------------------------
(***************************************************************************)
(* Proofs about the job registry, for every number of jobs, owners and     *)
(* waits and every limit: the types, a completion told once, a teardown    *)
(* that leaves nothing behind, and live work within the limit.             *)
(*                                                                         *)
(* The inductive invariant says what the registry's code relies on and     *)
(* never checks. A record is in the store until it is terminal, and its    *)
(* producer is over when it is settled (Records). A job that is not        *)
(* terminal is reported only by whoever answers for it (Claims). Waits are *)
(* released by settlements only (Asked). An owner with a record has its    *)
(* cleanup attached until a teardown took the record (Entries).            *)
(***************************************************************************)
EXTENDS Jobs, FiniteSetTheorems, TLAPS

\* A started job is in the store until it is terminal. It is terminal when its
\* producer's continuation ran; before that only a cancel that threw fails it.
Records ==
  /\ \A j \in Jobs : status[j] = "absent" <=> work[j] = "none"
  /\ \A j \in store : status[j] # "absent"
  /\ \A j \in Jobs : status[j] \in {"running", "stopping"} => j \in store
  /\ \A j \in Jobs : status[j] = "settled" => work[j] = "released"
  /\ \A j \in Jobs : work[j] = "released" => IsTerminal(j)
  /\ \A j \in Jobs : j \in orphaned <=> status[j] = "failed"
  /\ orphaned \subseteq claimed

\* A wait is pending on a live job only, and is released by its settlement.
Asked ==
  \A w \in Waits :
    /\ wait[w] \in {"waiting", "timedOut"} => status[target[w]] # "absent"
    /\ wait[w] = "waiting" => ~IsTerminal(target[w])
    /\ wait[w] \in {"released", "answered"} => IsTerminal(target[w])

\* Before the settlement the report is claimed by a kill or a teardown, and by
\* nothing else; the disposal of the service claims every record.
Claims ==
  \A j \in Jobs : ~IsTerminal(j) =>
    /\ reported[j] <=> j \in claimed
    /\ j \notin noticed
    /\ status[j] # "absent" /\ phase[Service] # "live" => j \in claimed

\* Records of an owner are covered: by the attached cleanup, then by the
\* teardown that took them. A scope that is gone has none.
Entries ==
  /\ phase[Service] \in {"live", "draining", "gone"}
  /\ phase[Service] = "draining" => store \subseteq draining[Service]
  /\ phase[Service] = "gone" => store = {}
  /\ registered \in Owners => phase[registered] # "new"
  /\ \A o \in attached : phase[o] \in {"live", "unloading"}
  /\ \A j \in store : owner[j] \in Owners =>
       /\ phase[owner[j]] \in {"live", "unloading"} => owner[j] \in attached
       /\ phase[owner[j]] = "draining" => j \in draining[owner[j]]
       /\ phase[owner[j]] \notin {"new", "gone"}

\* The records an owner has live, the stopping ones included.
Active(o) == {j \in store : owner[j] = o /\ status[j] \in {"running", "stopping"}}

Bounded == \A o \in Scopes : Cardinality(Active(o)) <= Limit

IInv == TypeOK /\ Records /\ Asked /\ Claims /\ Entries /\ Bounded /\ CompletionToldOnce

\* What a settlement that wins does: the record is settled, its waits are
\* released, a wait that is still counted reports it, and otherwise the notice
\* goes out when there is an owner and the service is live.
Wins(j) ==
  /\ work[j] = "over" /\ work' = [work EXCEPT ![j] = "released"]
  /\ status' = [status EXCEPT ![j] = "settled"]
  /\ wait' = [w \in Waits |-> IF target[w] = j /\ wait[w] = "waiting"
                              THEN "released" ELSE wait[w]]
  /\ reported' \in [Jobs -> BOOLEAN]
  /\ \A i \in Jobs \ {j} : reported'[i] <=> reported[i]
  /\ reported'[j] <=> reported[j] \/ Counted(j) # {}
  /\ noticed' \subseteq Jobs
  /\ \A i \in Jobs \ {j} : i \in noticed' <=> i \in noticed
  /\ j \in noticed' <=> \/ j \in noticed
                        \/ phase[Service] = "live" /\ ~reported'[j] /\ owner[j] # Service
  /\ UNCHANGED <<owner, store, cancelled, orphaned, target, scopes, claimed>>

\* A settlement that comes second changes no record.
Loses(j) ==
  /\ work[j] = "over" /\ work' = [work EXCEPT ![j] = "released"]
  /\ UNCHANGED <<record, wait, noticed, cancelled, orphaned, target, scopes, claimed>>

\* settle: the first outcome wins.
LEMMA SettleOnce ==
  ASSUME TypeOK, NEW j \in Jobs, Settle(j)
  PROVE  \/ IsTerminal(j) /\ Loses(j)
         \/ ~IsTerminal(j) /\ Wins(j)
<1>1. CASE IsTerminal(j)
  BY <1>1 DEF Settle, Loses
<1>2. CASE ~IsTerminal(j)
  <2> DEFINE r == reported[j] \/ Counted(j) # {}
  <2>1. /\ work[j] = "over" /\ work' = [work EXCEPT ![j] = "released"]
        /\ status' = [status EXCEPT ![j] = "settled"]
        /\ wait' = [w \in Waits |-> IF target[w] = j /\ wait[w] = "waiting"
                                    THEN "released" ELSE wait[w]]
        /\ UNCHANGED <<owner, store, cancelled, orphaned, target, scopes, claimed>>
    BY <1>2 DEF Settle, Release
  <2>2. r \in BOOLEAN /\ reported' = [reported EXCEPT ![j] = r]
    BY <1>2 DEF Settle
  <2>3. noticed' = IF phase[Service] = "live" /\ ~reported'[j] /\ owner[j] # Service
                   THEN noticed \cup {j} ELSE noticed
    BY <1>2 DEF Settle
  <2>4. r <=> reported[j] \/ Counted(j) # {}
    OBVIOUS
  <2> HIDE DEF r
  <2>5. /\ reported' \in [Jobs -> BOOLEAN]
        /\ \A i \in Jobs \ {j} : reported'[i] = reported[i]
        /\ reported'[j] = r
    BY <2>2 DEF TypeOK
  <2>6. /\ noticed' \subseteq Jobs
        /\ \A i \in Jobs \ {j} : i \in noticed' <=> i \in noticed
        /\ j \in noticed' <=> \/ j \in noticed
                              \/ phase[Service] = "live" /\ ~reported'[j] /\ owner[j] # Service
    BY <2>3 DEF TypeOK
  <2> QED
    BY <1>2, <2>1, <2>4, <2>5, <2>6 DEF Wins
<1> QED
  BY <1>1, <1>2

\* No step of the registry leaves the types.
LEMMA TypeStep ==
  ASSUME TypeOK, [Next]_vars
  PROVE  TypeOK'
<1> USE DEF record, process, waiting, scopes, tellings, IsTerminal, Jobs, Owners, Scopes, Service, NoInstance
<1>1. ASSUME NEW o \in Owners, Register(o)
      PROVE  TypeOK'
  BY <1>1 DEF TypeOK, Register
<1>2. CASE Unregister
  BY <1>2 DEF TypeOK, Unregister
<1>3. ASSUME NEW o \in Owners, Unload(o)
      PROVE  TypeOK'
  BY <1>3 DEF TypeOK, Unload
<1>4. ASSUME NEW j \in Jobs, NEW o \in Scopes, Start(o, j)
      PROVE  TypeOK'
  BY <1>4 DEF TypeOK, Start, Admitted, Attachable, EnsureOwnerCleanup
<1>5. ASSUME NEW j \in Jobs, Finish(j)
      PROVE  TypeOK'
  BY <1>5 DEF TypeOK, Finish
<1>6. ASSUME NEW j \in Jobs, Settle(j)
      PROVE  TypeOK'
  <2>1. CASE IsTerminal(j) /\ Loses(j)
    BY <2>1 DEF TypeOK, Loses
  <2>2. CASE ~IsTerminal(j) /\ Wins(j)
    BY <2>2 DEF TypeOK, Wins
  <2> QED
    BY <1>6, <2>1, <2>2, SettleOnce
<1>7. ASSUME NEW o \in Owners, StartThrows(o)
      PROVE  TypeOK'
  BY <1>7 DEF TypeOK, StartThrows, Admitted, Attachable, EnsureOwnerCleanup
<1>8. ASSUME NEW j \in Jobs, Kill(j)
      PROVE  TypeOK'
  BY <1>8 DEF TypeOK, Kill, Accepting
<1>9. ASSUME NEW j \in Jobs, ReadTerminal(j)
      PROVE  TypeOK'
  BY <1>9 DEF TypeOK, ReadTerminal
<1>10. ASSUME NEW w \in Waits, NEW j \in Jobs, Wait(w, j)
      PROVE  TypeOK'
  BY <1>10 DEF TypeOK, Wait
<1>11. ASSUME NEW w \in Waits, TimeOut(w)
      PROVE  TypeOK'
  BY <1>11 DEF TypeOK, TimeOut
<1>12. ASSUME NEW w \in Waits, Abort(w)
      PROVE  TypeOK'
  BY <1>12 DEF TypeOK, Abort
<1>13. ASSUME NEW w \in Waits, Return(w)
      PROVE  TypeOK'
  BY <1>13 DEF TypeOK, Return
<1>14. ASSUME NEW bad \in SUBSET store, DisposeAll(bad)
      PROVE  TypeOK'
  BY <1>14 DEF TypeOK, DisposeAll, CancelForTeardown, CancelRecords, Accepting, Live
<1>15. ASSUME NEW bad \in SUBSET store, NEW o \in Owners, Cleanup(o, bad)
      PROVE  TypeOK'
  BY <1>15 DEF TypeOK, Cleanup, CancelForTeardown, CancelRecords, Accepting, Live
<1>16. ASSUME NEW o \in Owners, CleanupDetached(o)
      PROVE  TypeOK'
  BY <1>16 DEF TypeOK, CleanupDetached
<1>17. ASSUME NEW o \in Owners, OwnedDropped(o)
      PROVE  TypeOK'
  BY <1>17 DEF TypeOK, OwnedDropped, Drained
<1>18. CASE ServiceClosed
  BY <1>18 DEF TypeOK, ServiceClosed, Drained
<1>19. CASE UNCHANGED vars
  BY <1>19 DEF TypeOK, vars
<1> QED
  BY <1>1, <1>2, <1>3, <1>4, <1>5, <1>6, <1>7, <1>8, <1>9, <1>10, <1>11,
     <1>12, <1>13, <1>14, <1>15, <1>16, <1>17, <1>18, <1>19
  DEF Next, Agents, Producers, FailedStart, Readers, Disposal

\* Every step keeps the records covered: what leaves the store is terminal.
LEMMA RecordsStep ==
  ASSUME TypeOK, Records, Entries, [Next]_vars
  PROVE  Records'
<1> USE DEF record, process, waiting, scopes, tellings, IsTerminal, Jobs, Owners, Scopes, Service
<1>1. ASSUME NEW o \in Owners, Register(o)
      PROVE  Records'
  BY <1>1 DEF TypeOK, Records, Entries, Register
<1>2. CASE Unregister
  BY <1>2 DEF TypeOK, Records, Entries, Unregister
<1>3. ASSUME NEW o \in Owners, Unload(o)
      PROVE  Records'
  BY <1>3 DEF TypeOK, Records, Entries, Unload
<1>4. ASSUME NEW j \in Jobs, NEW o \in Scopes, Start(o, j)
      PROVE  Records'
  BY <1>4 DEF TypeOK, Records, Entries, Start, Admitted, Attachable, EnsureOwnerCleanup
<1>5. ASSUME NEW j \in Jobs, Finish(j)
      PROVE  Records'
  BY <1>5 DEF TypeOK, Records, Entries, Finish
<1>6. ASSUME NEW j \in Jobs, Settle(j)
      PROVE  Records'
  <2>1. CASE IsTerminal(j) /\ Loses(j)
    BY <2>1 DEF TypeOK, Records, Entries, Loses
  <2>2. CASE ~IsTerminal(j) /\ Wins(j)
    BY <2>2 DEF TypeOK, Records, Entries, Wins
  <2> QED
    BY <1>6, <2>1, <2>2, SettleOnce
<1>7. ASSUME NEW o \in Owners, StartThrows(o)
      PROVE  Records'
  BY <1>7 DEF TypeOK, Records, Entries, StartThrows, Admitted, Attachable, EnsureOwnerCleanup
<1>8. ASSUME NEW j \in Jobs, Kill(j)
      PROVE  Records'
  BY <1>8 DEF TypeOK, Records, Entries, Kill, Accepting
<1>9. ASSUME NEW j \in Jobs, ReadTerminal(j)
      PROVE  Records'
  BY <1>9 DEF TypeOK, Records, Entries, ReadTerminal
<1>10. ASSUME NEW w \in Waits, NEW j \in Jobs, Wait(w, j)
      PROVE  Records'
  BY <1>10 DEF TypeOK, Records, Entries, Wait
<1>11. ASSUME NEW w \in Waits, TimeOut(w)
      PROVE  Records'
  BY <1>11 DEF TypeOK, Records, Entries, TimeOut
<1>12. ASSUME NEW w \in Waits, Abort(w)
      PROVE  Records'
  BY <1>12 DEF TypeOK, Records, Entries, Abort
<1>13. ASSUME NEW w \in Waits, Return(w)
      PROVE  Records'
  BY <1>13 DEF TypeOK, Records, Entries, Return
<1>14. ASSUME NEW bad \in SUBSET store, DisposeAll(bad)
      PROVE  Records'
  BY <1>14 DEF TypeOK, Records, Entries, DisposeAll, CancelForTeardown, CancelRecords, Accepting, Live
<1>15. ASSUME NEW bad \in SUBSET store, NEW o \in Owners, Cleanup(o, bad)
      PROVE  Records'
  BY <1>15 DEF TypeOK, Records, Entries, Cleanup, CancelForTeardown, CancelRecords, Accepting, Live
<1>16. ASSUME NEW o \in Owners, CleanupDetached(o)
      PROVE  Records'
  BY <1>16 DEF TypeOK, Records, Entries, CleanupDetached
<1>17. ASSUME NEW o \in Owners, OwnedDropped(o)
      PROVE  Records'
  BY <1>17 DEF TypeOK, Records, Entries, OwnedDropped, Drained
<1>18. CASE ServiceClosed
  BY <1>18 DEF TypeOK, Records, Entries, ServiceClosed, Drained
<1>19. CASE UNCHANGED vars
  BY <1>19 DEF TypeOK, Records, Entries, vars
<1> QED
  BY <1>1, <1>2, <1>3, <1>4, <1>5, <1>6, <1>7, <1>8, <1>9, <1>10, <1>11,
     <1>12, <1>13, <1>14, <1>15, <1>16, <1>17, <1>18, <1>19
  DEF Next, Agents, Producers, FailedStart, Readers, Disposal

\* Every step keeps the waits with live jobs, or releases them.
LEMMA AskedStep ==
  ASSUME TypeOK, Records, Asked, [Next]_vars
  PROVE  Asked'
<1> USE DEF record, process, waiting, scopes, tellings, IsTerminal, Jobs, Owners, Scopes, Service
<1>1. ASSUME NEW o \in Owners, Register(o)
      PROVE  Asked'
  BY <1>1 DEF TypeOK, Records, Asked, Register
<1>2. CASE Unregister
  BY <1>2 DEF TypeOK, Records, Asked, Unregister
<1>3. ASSUME NEW o \in Owners, Unload(o)
      PROVE  Asked'
  BY <1>3 DEF TypeOK, Records, Asked, Unload
<1>4. ASSUME NEW j \in Jobs, NEW o \in Scopes, Start(o, j)
      PROVE  Asked'
  BY <1>4 DEF TypeOK, Records, Asked, Start, Admitted, Attachable, EnsureOwnerCleanup
<1>5. ASSUME NEW j \in Jobs, Finish(j)
      PROVE  Asked'
  BY <1>5 DEF TypeOK, Records, Asked, Finish
<1>6. ASSUME NEW j \in Jobs, Settle(j)
      PROVE  Asked'
  <2>1. CASE IsTerminal(j) /\ Loses(j)
    BY <2>1 DEF TypeOK, Records, Asked, Loses
  <2>2. CASE ~IsTerminal(j) /\ Wins(j)
    BY <2>2 DEF TypeOK, Records, Asked, Wins
  <2> QED
    BY <1>6, <2>1, <2>2, SettleOnce
<1>7. ASSUME NEW o \in Owners, StartThrows(o)
      PROVE  Asked'
  BY <1>7 DEF TypeOK, Records, Asked, StartThrows, Admitted, Attachable, EnsureOwnerCleanup
<1>8. ASSUME NEW j \in Jobs, Kill(j)
      PROVE  Asked'
  BY <1>8 DEF TypeOK, Records, Asked, Kill, Accepting
<1>9. ASSUME NEW j \in Jobs, ReadTerminal(j)
      PROVE  Asked'
  BY <1>9 DEF TypeOK, Records, Asked, ReadTerminal
<1>10. ASSUME NEW w \in Waits, NEW j \in Jobs, Wait(w, j)
      PROVE  Asked'
  BY <1>10 DEF TypeOK, Records, Asked, Wait
<1>11. ASSUME NEW w \in Waits, TimeOut(w)
      PROVE  Asked'
  BY <1>11 DEF TypeOK, Records, Asked, TimeOut
<1>12. ASSUME NEW w \in Waits, Abort(w)
      PROVE  Asked'
  BY <1>12 DEF TypeOK, Records, Asked, Abort
<1>13. ASSUME NEW w \in Waits, Return(w)
      PROVE  Asked'
  BY <1>13 DEF TypeOK, Records, Asked, Return
<1>14. ASSUME NEW bad \in SUBSET store, DisposeAll(bad)
      PROVE  Asked'
  BY <1>14 DEF TypeOK, Records, Asked, DisposeAll, CancelForTeardown, CancelRecords, Accepting, Live
<1>15. ASSUME NEW bad \in SUBSET store, NEW o \in Owners, Cleanup(o, bad)
      PROVE  Asked'
  BY <1>15 DEF TypeOK, Records, Asked, Cleanup, CancelForTeardown, CancelRecords, Accepting, Live
<1>16. ASSUME NEW o \in Owners, CleanupDetached(o)
      PROVE  Asked'
  BY <1>16 DEF TypeOK, Records, Asked, CleanupDetached
<1>17. ASSUME NEW o \in Owners, OwnedDropped(o)
      PROVE  Asked'
  BY <1>17 DEF TypeOK, Records, Asked, OwnedDropped, Drained
<1>18. CASE ServiceClosed
  BY <1>18 DEF TypeOK, Records, Asked, ServiceClosed, Drained
<1>19. CASE UNCHANGED vars
  BY <1>19 DEF TypeOK, Records, Asked, vars
<1> QED
  BY <1>1, <1>2, <1>3, <1>4, <1>5, <1>6, <1>7, <1>8, <1>9, <1>10, <1>11,
     <1>12, <1>13, <1>14, <1>15, <1>16, <1>17, <1>18, <1>19
  DEF Next, Agents, Producers, FailedStart, Readers, Disposal

\* Every step keeps the report of a live job with the one who claimed it.
LEMMA ClaimsStep ==
  ASSUME TypeOK, Records, Claims, Entries, [Next]_vars
  PROVE  Claims'
<1> USE DEF record, process, waiting, scopes, tellings, IsTerminal, Jobs, Owners, Scopes, Service
<1>1. ASSUME NEW o \in Owners, Register(o)
      PROVE  Claims'
  BY <1>1 DEF TypeOK, Records, Claims, Entries, Register
<1>2. CASE Unregister
  BY <1>2 DEF TypeOK, Records, Claims, Entries, Unregister
<1>3. ASSUME NEW o \in Owners, Unload(o)
      PROVE  Claims'
  BY <1>3 DEF TypeOK, Records, Claims, Entries, Unload
<1>4. ASSUME NEW j \in Jobs, NEW o \in Scopes, Start(o, j)
      PROVE  Claims'
  BY <1>4 DEF TypeOK, Records, Claims, Entries, Start, Admitted, Attachable, EnsureOwnerCleanup
<1>5. ASSUME NEW j \in Jobs, Finish(j)
      PROVE  Claims'
  BY <1>5 DEF TypeOK, Records, Claims, Entries, Finish
<1>6. ASSUME NEW j \in Jobs, Settle(j)
      PROVE  Claims'
  <2>1. CASE IsTerminal(j) /\ Loses(j)
    BY <2>1 DEF TypeOK, Records, Claims, Entries, Loses
  <2>2. CASE ~IsTerminal(j) /\ Wins(j)
    BY <2>2 DEF TypeOK, Records, Claims, Entries, Wins
  <2> QED
    BY <1>6, <2>1, <2>2, SettleOnce
<1>7. ASSUME NEW o \in Owners, StartThrows(o)
      PROVE  Claims'
  BY <1>7 DEF TypeOK, Records, Claims, Entries, StartThrows, Admitted, Attachable, EnsureOwnerCleanup
<1>8. ASSUME NEW j \in Jobs, Kill(j)
      PROVE  Claims'
  BY <1>8 DEF TypeOK, Records, Claims, Entries, Kill, Accepting
<1>9. ASSUME NEW j \in Jobs, ReadTerminal(j)
      PROVE  Claims'
  BY <1>9 DEF TypeOK, Records, Claims, Entries, ReadTerminal
<1>10. ASSUME NEW w \in Waits, NEW j \in Jobs, Wait(w, j)
      PROVE  Claims'
  <2>1. \A i \in Jobs : ~IsTerminal(i) => (reported'[i] <=> reported[i])
    BY <1>10 DEF TypeOK, Wait
  <2> QED
    BY <1>10, <2>1 DEF Claims, Wait
<1>11. ASSUME NEW w \in Waits, TimeOut(w)
      PROVE  Claims'
  BY <1>11 DEF TypeOK, Records, Claims, Entries, TimeOut
<1>12. ASSUME NEW w \in Waits, Abort(w)
      PROVE  Claims'
  BY <1>12 DEF TypeOK, Records, Claims, Entries, Abort
<1>13. ASSUME NEW w \in Waits, Return(w)
      PROVE  Claims'
  BY <1>13 DEF TypeOK, Records, Claims, Entries, Return
<1>14. ASSUME NEW bad \in SUBSET store, DisposeAll(bad)
      PROVE  Claims'
  BY <1>14 DEF TypeOK, Records, Claims, Entries, DisposeAll, CancelForTeardown, CancelRecords, Accepting, Live
<1>15. ASSUME NEW bad \in SUBSET store, NEW o \in Owners, Cleanup(o, bad)
      PROVE  Claims'
  BY <1>15 DEF TypeOK, Records, Claims, Entries, Cleanup, CancelForTeardown, CancelRecords, Accepting, Live
<1>16. ASSUME NEW o \in Owners, CleanupDetached(o)
      PROVE  Claims'
  BY <1>16 DEF TypeOK, Records, Claims, Entries, CleanupDetached
<1>17. ASSUME NEW o \in Owners, OwnedDropped(o)
      PROVE  Claims'
  BY <1>17 DEF TypeOK, Records, Claims, Entries, OwnedDropped, Drained
<1>18. CASE ServiceClosed
  BY <1>18 DEF TypeOK, Records, Claims, Entries, ServiceClosed, Drained
<1>19. CASE UNCHANGED vars
  BY <1>19 DEF TypeOK, Records, Claims, Entries, vars
<1> QED
  BY <1>1, <1>2, <1>3, <1>4, <1>5, <1>6, <1>7, <1>8, <1>9, <1>10, <1>11,
     <1>12, <1>13, <1>14, <1>15, <1>16, <1>17, <1>18, <1>19
  DEF Next, Agents, Producers, FailedStart, Readers, Disposal

\* Every step keeps an owner's records under its cleanup or its teardown.
LEMMA EntriesStep ==
  ASSUME TypeOK, Records, Entries, [Next]_vars
  PROVE  Entries'
<1> USE DEF record, process, waiting, scopes, tellings, IsTerminal, Jobs, Owners, Scopes, Service, NoInstance
<1>1. ASSUME NEW o \in Owners, Register(o)
      PROVE  Entries'
  BY <1>1 DEF TypeOK, Records, Entries, Register
<1>2. CASE Unregister
  BY <1>2 DEF TypeOK, Records, Entries, Unregister
<1>3. ASSUME NEW o \in Owners, Unload(o)
      PROVE  Entries'
  BY <1>3 DEF TypeOK, Records, Entries, Unload
<1>4. ASSUME NEW j \in Jobs, NEW o \in Scopes, Start(o, j)
      PROVE  Entries'
  BY <1>4 DEF TypeOK, Records, Entries, Start, Admitted, Attachable, EnsureOwnerCleanup
<1>5. ASSUME NEW j \in Jobs, Finish(j)
      PROVE  Entries'
  BY <1>5 DEF TypeOK, Records, Entries, Finish
<1>6. ASSUME NEW j \in Jobs, Settle(j)
      PROVE  Entries'
  BY <1>6 DEF TypeOK, Records, Entries, Settle, Release, Counted
<1>7. ASSUME NEW o \in Owners, StartThrows(o)
      PROVE  Entries'
  BY <1>7 DEF TypeOK, Records, Entries, StartThrows, Admitted, Attachable, EnsureOwnerCleanup
<1>8. ASSUME NEW j \in Jobs, Kill(j)
      PROVE  Entries'
  BY <1>8 DEF TypeOK, Records, Entries, Kill, Accepting
<1>9. ASSUME NEW j \in Jobs, ReadTerminal(j)
      PROVE  Entries'
  BY <1>9 DEF TypeOK, Records, Entries, ReadTerminal
<1>10. ASSUME NEW w \in Waits, NEW j \in Jobs, Wait(w, j)
      PROVE  Entries'
  BY <1>10 DEF TypeOK, Records, Entries, Wait
<1>11. ASSUME NEW w \in Waits, TimeOut(w)
      PROVE  Entries'
  BY <1>11 DEF TypeOK, Records, Entries, TimeOut
<1>12. ASSUME NEW w \in Waits, Abort(w)
      PROVE  Entries'
  BY <1>12 DEF TypeOK, Records, Entries, Abort
<1>13. ASSUME NEW w \in Waits, Return(w)
      PROVE  Entries'
  BY <1>13 DEF TypeOK, Records, Entries, Return
<1>14. ASSUME NEW bad \in SUBSET store, DisposeAll(bad)
      PROVE  Entries'
  BY <1>14 DEF TypeOK, Records, Entries, DisposeAll, CancelForTeardown, CancelRecords, Accepting, Live
<1>15. ASSUME NEW bad \in SUBSET store, NEW o \in Owners, Cleanup(o, bad)
      PROVE  Entries'
  BY <1>15 DEF TypeOK, Records, Entries, Cleanup, CancelForTeardown, CancelRecords, Accepting, Live
<1>16. ASSUME NEW o \in Owners, CleanupDetached(o)
      PROVE  Entries'
  BY <1>16 DEF TypeOK, Records, Entries, CleanupDetached
<1>17. ASSUME NEW o \in Owners, OwnedDropped(o)
      PROVE  Entries'
  <2>1. /\ store' = store \ draining[o] /\ phase[o] = "draining"
        /\ phase' = [phase EXCEPT ![o] = "gone"]
        /\ draining' = [draining EXCEPT ![o] = {}]
        /\ UNCHANGED <<owner, registered, attached>>
    BY <1>17 DEF OwnedDropped, Drained
  <2>2. o # Service /\ o \in Scopes /\ Service \in Scopes
    BY <1>17
  <2>3. phase'[Service] = phase[Service] /\ draining'[Service] = draining[Service]
    BY <2>1, <2>2 DEF TypeOK
  <2>4. \A p \in Owners : p # o => phase'[p] = phase[p] /\ draining'[p] = draining[p]
    BY <2>1, <2>2 DEF TypeOK
  <2>5. phase'[o] = "gone"
    BY <2>1, <2>2 DEF TypeOK
  <2>6. o \notin attached
    BY <2>1 DEF Entries
  <2>7. \A j \in store' : owner[j] # o
    BY <2>1 DEF Entries
  <2>8. \A j \in store' : owner'[j] \in Owners =>
       /\ phase'[owner'[j]] \in {"live", "unloading"} => owner'[j] \in attached'
       /\ phase'[owner'[j]] = "draining" => j \in draining'[owner'[j]]
       /\ phase'[owner'[j]] \notin {"new", "gone"}
    BY <2>1, <2>4, <2>7 DEF Entries
  <2>9. \A p \in attached' : phase'[p] \in {"live", "unloading"}
    BY <2>1, <2>4, <2>6 DEF Entries, TypeOK
  <2>10. registered' \in Owners => phase'[registered'] # "new"
    BY <2>1, <2>4, <2>5 DEF Entries, TypeOK
  <2>11. /\ phase'[Service] \in {"live", "draining", "gone"}
         /\ phase'[Service] = "draining" => store' \subseteq draining'[Service]
         /\ phase'[Service] = "gone" => store' = {}
    BY <2>1, <2>3 DEF Entries
  <2> QED
    BY <2>8, <2>9, <2>10, <2>11 DEF Entries
<1>18. CASE ServiceClosed
  BY <1>18 DEF TypeOK, Records, Entries, ServiceClosed, Drained
<1>19. CASE UNCHANGED vars
  BY <1>19 DEF TypeOK, Records, Entries, vars
<1> QED
  BY <1>1, <1>2, <1>3, <1>4, <1>5, <1>6, <1>7, <1>8, <1>9, <1>10, <1>11,
     <1>12, <1>13, <1>14, <1>15, <1>16, <1>17, <1>18, <1>19
  DEF Next, Agents, Producers, FailedStart, Readers, Disposal

\* Every step keeps a completion told once.
LEMMA ToldStep ==
  ASSUME TypeOK, Records, Asked, Claims, CompletionToldOnce, [Next]_vars
  PROVE  CompletionToldOnce'
<1> USE DEF record, process, waiting, scopes, tellings, IsTerminal, Jobs, Owners, Scopes, Service
<1>1. ASSUME NEW o \in Owners, Register(o)
      PROVE  CompletionToldOnce'
  BY <1>1 DEF TypeOK, Records, Asked, Claims, CompletionToldOnce, Owed, Register
<1>2. CASE Unregister
  BY <1>2 DEF TypeOK, Records, Asked, Claims, CompletionToldOnce, Owed, Unregister
<1>3. ASSUME NEW o \in Owners, Unload(o)
      PROVE  CompletionToldOnce'
  BY <1>3 DEF TypeOK, Records, Asked, Claims, CompletionToldOnce, Owed, Unload
<1>4. ASSUME NEW j \in Jobs, NEW o \in Scopes, Start(o, j)
      PROVE  CompletionToldOnce'
  BY <1>4 DEF TypeOK, Records, Asked, Claims, CompletionToldOnce, Owed, Start, Admitted, Attachable, EnsureOwnerCleanup
<1>5. ASSUME NEW j \in Jobs, Finish(j)
      PROVE  CompletionToldOnce'
  BY <1>5 DEF TypeOK, Records, Asked, Claims, CompletionToldOnce, Owed, Finish
<1>6. ASSUME NEW j \in Jobs, Settle(j)
      PROVE  CompletionToldOnce'
  <2>1. CASE IsTerminal(j) /\ Loses(j)
    BY <2>1 DEF TypeOK, Records, Asked, Claims, CompletionToldOnce, Owed, Counted, Loses
  <2>2. CASE ~IsTerminal(j) /\ Wins(j)
    BY <2>2 DEF TypeOK, Records, Asked, Claims, CompletionToldOnce, Owed, Counted, Wins
  <2> QED
    BY <1>6, <2>1, <2>2, SettleOnce
<1>7. ASSUME NEW o \in Owners, StartThrows(o)
      PROVE  CompletionToldOnce'
  BY <1>7 DEF TypeOK, Records, Asked, Claims, CompletionToldOnce, Owed, StartThrows, Admitted, Attachable, EnsureOwnerCleanup
<1>8. ASSUME NEW j \in Jobs, Kill(j)
      PROVE  CompletionToldOnce'
  BY <1>8 DEF TypeOK, Records, Asked, Claims, CompletionToldOnce, Owed, Kill, Accepting
<1>9. ASSUME NEW j \in Jobs, ReadTerminal(j)
      PROVE  CompletionToldOnce'
  BY <1>9 DEF TypeOK, Records, Asked, Claims, CompletionToldOnce, Owed, ReadTerminal
<1>10. ASSUME NEW w \in Waits, NEW j \in Jobs, Wait(w, j)
      PROVE  CompletionToldOnce'
  <2>1. wait[w] = "idle" /\ wait'[w] \in {"waiting", "ended"}
    BY <1>10 DEF Wait, TypeOK
  <2>2. \A v \in Waits \ {w} : wait'[v] = wait[v] /\ target'[v] = target[v]
    BY <1>10 DEF Wait, TypeOK
  <2>3. \A i \in Jobs : Owed(i)' <=> Owed(i)
    BY <1>10, <2>1, <2>2 DEF Owed, Wait
  <2> QED
    BY <1>10, <2>3 DEF CompletionToldOnce, Wait
<1>11. ASSUME NEW w \in Waits, TimeOut(w)
      PROVE  CompletionToldOnce'
  BY <1>11 DEF TypeOK, Records, Asked, Claims, CompletionToldOnce, Owed, TimeOut
<1>12. ASSUME NEW w \in Waits, Abort(w)
      PROVE  CompletionToldOnce'
  BY <1>12 DEF TypeOK, Records, Asked, Claims, CompletionToldOnce, Owed, Abort
<1>13. ASSUME NEW w \in Waits, Return(w)
      PROVE  CompletionToldOnce'
  BY <1>13 DEF TypeOK, Records, Asked, Claims, CompletionToldOnce, Owed, Return
<1>14. ASSUME NEW bad \in SUBSET store, DisposeAll(bad)
      PROVE  CompletionToldOnce'
  BY <1>14 DEF TypeOK, Records, Asked, Claims, CompletionToldOnce, Owed, DisposeAll, CancelForTeardown, CancelRecords, Accepting, Live
<1>15. ASSUME NEW bad \in SUBSET store, NEW o \in Owners, Cleanup(o, bad)
      PROVE  CompletionToldOnce'
  BY <1>15 DEF TypeOK, Records, Asked, Claims, CompletionToldOnce, Owed, Cleanup, CancelForTeardown, CancelRecords, Accepting, Live
<1>16. ASSUME NEW o \in Owners, CleanupDetached(o)
      PROVE  CompletionToldOnce'
  BY <1>16 DEF TypeOK, Records, Asked, Claims, CompletionToldOnce, Owed, CleanupDetached
<1>17. ASSUME NEW o \in Owners, OwnedDropped(o)
      PROVE  CompletionToldOnce'
  BY <1>17 DEF TypeOK, Records, Asked, Claims, CompletionToldOnce, Owed, OwnedDropped, Drained
<1>18. CASE ServiceClosed
  BY <1>18 DEF TypeOK, Records, Asked, Claims, CompletionToldOnce, Owed, ServiceClosed, Drained
<1>19. CASE UNCHANGED vars
  BY <1>19 DEF TypeOK, Records, Asked, Claims, CompletionToldOnce, Owed, vars
<1> QED
  BY <1>1, <1>2, <1>3, <1>4, <1>5, <1>6, <1>7, <1>8, <1>9, <1>10, <1>11,
     <1>12, <1>13, <1>14, <1>15, <1>16, <1>17, <1>18, <1>19
  DEF Next, Agents, Producers, FailedStart, Readers, Disposal

\* No step but a start adds live work to an owner: a stopping job counts as before.
LEMMA ActiveStep ==
  ASSUME TypeOK, Records, [Next]_vars, ~\E o \in Scopes, j \in Jobs : Start(o, j)
  PROVE  \A p \in Scopes : Active(p)' \subseteq Active(p)
<1> USE DEF record, process, waiting, scopes, tellings, IsTerminal
<1>1. ASSUME NEW o \in Owners, Register(o)
      PROVE  \A p \in Scopes : Active(p)' \subseteq Active(p)
  BY <1>1 DEF TypeOK, Records, Active, Register
<1>2. CASE Unregister
  BY <1>2 DEF TypeOK, Records, Active, Unregister
<1>3. ASSUME NEW o \in Owners, Unload(o)
      PROVE  \A p \in Scopes : Active(p)' \subseteq Active(p)
  BY <1>3 DEF TypeOK, Records, Active, Unload
<1>4. ASSUME NEW j \in Jobs, Finish(j)
      PROVE  \A p \in Scopes : Active(p)' \subseteq Active(p)
  BY <1>4 DEF TypeOK, Records, Active, Finish
<1>5. ASSUME NEW j \in Jobs, Settle(j)
      PROVE  \A p \in Scopes : Active(p)' \subseteq Active(p)
  <2>1. CASE IsTerminal(j) /\ Loses(j)
    BY <2>1 DEF TypeOK, Active, Loses
  <2>2. CASE ~IsTerminal(j) /\ Wins(j)
    BY <2>2 DEF TypeOK, Active, Wins
  <2> QED
    BY <1>5, <2>1, <2>2, SettleOnce
<1>6. ASSUME NEW o \in Owners, StartThrows(o)
      PROVE  \A p \in Scopes : Active(p)' \subseteq Active(p)
  BY <1>6 DEF TypeOK, Records, Active, StartThrows, Admitted, Attachable, EnsureOwnerCleanup
<1>7. ASSUME NEW j \in Jobs, Kill(j)
      PROVE  \A p \in Scopes : Active(p)' \subseteq Active(p)
  BY <1>7 DEF TypeOK, Records, Active, Kill, Accepting
<1>8. ASSUME NEW j \in Jobs, ReadTerminal(j)
      PROVE  \A p \in Scopes : Active(p)' \subseteq Active(p)
  BY <1>8 DEF TypeOK, Records, Active, ReadTerminal
<1>9. ASSUME NEW w \in Waits, NEW j \in Jobs, Wait(w, j)
      PROVE  \A p \in Scopes : Active(p)' \subseteq Active(p)
  BY <1>9 DEF TypeOK, Records, Active, Wait
<1>10. ASSUME NEW w \in Waits, TimeOut(w)
      PROVE  \A p \in Scopes : Active(p)' \subseteq Active(p)
  BY <1>10 DEF TypeOK, Records, Active, TimeOut
<1>11. ASSUME NEW w \in Waits, Abort(w)
      PROVE  \A p \in Scopes : Active(p)' \subseteq Active(p)
  BY <1>11 DEF TypeOK, Records, Active, Abort
<1>12. ASSUME NEW w \in Waits, Return(w)
      PROVE  \A p \in Scopes : Active(p)' \subseteq Active(p)
  BY <1>12 DEF TypeOK, Records, Active, Return
<1>13. ASSUME NEW bad \in SUBSET store, DisposeAll(bad)
      PROVE  \A p \in Scopes : Active(p)' \subseteq Active(p)
  BY <1>13 DEF TypeOK, Records, Active, DisposeAll, CancelForTeardown, CancelRecords, Accepting, Live
<1>14. ASSUME NEW bad \in SUBSET store, NEW o \in Owners, Cleanup(o, bad)
      PROVE  \A p \in Scopes : Active(p)' \subseteq Active(p)
  BY <1>14 DEF TypeOK, Records, Active, Cleanup, CancelForTeardown, CancelRecords, Accepting, Live
<1>15. ASSUME NEW o \in Owners, CleanupDetached(o)
      PROVE  \A p \in Scopes : Active(p)' \subseteq Active(p)
  BY <1>15 DEF TypeOK, Records, Active, CleanupDetached
<1>16. ASSUME NEW o \in Owners, OwnedDropped(o)
      PROVE  \A p \in Scopes : Active(p)' \subseteq Active(p)
  BY <1>16 DEF TypeOK, Records, Active, OwnedDropped, Drained
<1>17. CASE ServiceClosed
  BY <1>17 DEF TypeOK, Records, Active, ServiceClosed, Drained
<1>18. CASE UNCHANGED vars
  BY <1>18 DEF TypeOK, Records, Active, vars
<1> QED
  BY <1>1, <1>2, <1>3, <1>4, <1>5, <1>6, <1>7, <1>8, <1>9, <1>10,
     <1>11, <1>12, <1>13, <1>14, <1>15, <1>16, <1>17, <1>18
  DEF Next, Agents, Producers, FailedStart, Readers, Disposal

\* The live records of an owner are finitely many.
LEMMA ActiveFinite ==
  ASSUME TypeOK, NEW o
  PROVE  IsFiniteSet(Active(o)) /\ Cardinality(Active(o)) \in Nat
<1>1. IsFiniteSet(Jobs)
  BY FS_Interval, JobsAssumption DEF Jobs
<1>2. Active(o) \subseteq Jobs
  BY DEF Active, TypeOK
<1> QED
  BY <1>1, <1>2, FS_Subset, FS_CardinalityType

\* A start is admitted below the limit only, so no step exceeds it.
LEMMA BoundedStep ==
  ASSUME TypeOK, TypeOK', Records, Bounded, [Next]_vars
  PROVE  Bounded'
<1>1. Limit \in Nat
  BY JobsAssumption
<1>2. ASSUME NEW o \in Scopes, NEW j \in Jobs, Start(o, j)
      PROVE  Bounded'
  <2>1. /\ j \notin store /\ Cardinality(Active(o)) < Limit
        /\ store' = store \cup {j}
        /\ owner' = [owner EXCEPT ![j] = o] /\ status' = [status EXCEPT ![j] = "running"]
    BY <1>2 DEF Start, Admitted, ActiveTaskCount, Active, Records
  <2>2. \A p \in Scopes : p # o => Active(p)' = Active(p)
    BY <2>1 DEF Active, TypeOK
  <2>3. Active(o)' = Active(o) \cup {j} /\ j \notin Active(o)
    BY <2>1 DEF Active, TypeOK
  <2>4. IsFiniteSet(Active(o)) /\ Cardinality(Active(o)) \in Nat
    BY ActiveFinite
  <2>5. Cardinality(Active(o)') = Cardinality(Active(o)) + 1
    BY <2>3, <2>4, FS_AddElement
  <2>6. Cardinality(Active(o)') <= Limit
    BY <1>1, <2>1, <2>4, <2>5
  <2> QED
    BY <2>2, <2>6 DEF Bounded
<1>3. CASE ~\E o \in Scopes, j \in Jobs : Start(o, j)
  <2> SUFFICES ASSUME NEW p \in Scopes
               PROVE  Cardinality(Active(p)') <= Limit
    BY DEF Bounded
  <2>1. Active(p)' \subseteq Active(p)
    BY <1>3, ActiveStep
  <2>2. IsFiniteSet(Active(p)) /\ Cardinality(Active(p)) \in Nat
    BY ActiveFinite
  <2>3. IsFiniteSet(Active(p)') /\ Cardinality(Active(p)') <= Cardinality(Active(p))
    BY <2>1, <2>2, FS_Subset
  <2>4. Cardinality(Active(p)') \in Nat
    BY <2>3, FS_CardinalityType
  <2>5. Cardinality(Active(p)) <= Limit
    BY DEF Bounded
  <2> QED
    BY <1>1, <2>2, <2>3, <2>4, <2>5
<1> QED
  BY <1>2, <1>3

\* A registry that starts has no job, no owner and no wait.
LEMMA InvInit == Init => IInv
<1> SUFFICES ASSUME Init
             PROVE  IInv
  OBVIOUS
<1> USE DEF Init, Jobs, Owners, Scopes, Service
<1>1. TypeOK
  BY JobsAssumption DEF TypeOK, NoInstance
<1>2. Records /\ Asked /\ Claims /\ CompletionToldOnce
  BY JobsAssumption DEF Records, Asked, Claims, CompletionToldOnce, IsTerminal
<1>3. Entries
  BY DEF Entries, NoInstance
<1>4. Bounded
  <2>1. \A o \in Scopes : Active(o) = {}
    BY DEF Active
  <2> QED
    <3>1. Cardinality({}) = 0 /\ Limit \in Nat
      BY FS_EmptySet, JobsAssumption
    <3>2. \A o \in Scopes : Cardinality(Active(o)) = Cardinality({})
      BY <2>1
    <3>3. \A o \in Scopes : Cardinality(Active(o)) <= Limit
      BY <3>1, <3>2
    <3> QED
      BY <3>3 DEF Bounded
<1> QED
  BY <1>1, <1>2, <1>3, <1>4 DEF IInv

\* Every step of the registry keeps the invariant.
LEMMA InvStep == IInv /\ [Next]_vars => IInv'
<1> SUFFICES ASSUME IInv, [Next]_vars
             PROVE  IInv'
  OBVIOUS
<1> USE DEF IInv
<1>1. TypeOK'
  BY TypeStep
<1> QED
  BY <1>1, RecordsStep, AskedStep, ClaimsStep, EntriesStep, ToldStep, BoundedStep

\* Every run of the registry keeps the invariant.
LEMMA InvHolds == Spec => []IInv
  BY InvInit, InvStep, PTL DEF Spec

-----------------------------------------------------------------------------

\* The registry's state has its types: no call, however it interleaves with a
\* teardown, records an owner, a status or a waiter that does not exist.
THEOREM TypeCorrect == Spec => []TypeOK
<1>1. IInv => TypeOK
  BY DEF IInv
<1> QED
  BY <1>1, InvHolds, PTL

\* The completion of an owned job is told once, for every number of readers:
\* settle counts the pending waits before it resolves them, and whoever claims
\* the report of a live job answers for it.
THEOREM ToldOnce == Spec => []CompletionToldOnce
<1>1. IInv => CompletionToldOnce
  BY DEF IInv
<1> QED
  BY <1>1, InvHolds, PTL

\* A teardown leaves nothing behind: disposeOwned and disposeAll drop the records
\* they took before the await, and no start adds one meanwhile.
THEOREM TeardownCorrect == Spec => []TeardownComplete
<1>1. IInv => TeardownComplete
  <2> SUFFICES ASSUME IInv, NEW j \in Jobs, status[j] # "absent",
                      "gone" \in {phase[owner[j]], phase[Service]}
               PROVE  j \notin store /\ (work[j] = "running" => j \in orphaned)
    BY DEF TeardownComplete
  <2>1. j \notin store
    <3>1. owner[j] \in Owners \/ owner[j] = Service
      BY DEF IInv, TypeOK, Scopes
    <3> QED
      BY <3>1 DEF IInv, Entries
  <2>2. status[j] \in {"settled", "failed"}
    BY <2>1 DEF IInv, TypeOK, Records
  <2> QED
    BY <2>1, <2>2 DEF IInv, Records
<1> QED
  BY <1>1, InvHolds, PTL

\* The work an owner really has running is within maxConcurrentJobsPerOwner:
\* whatever runs and is not orphaned has a live record, and start counts those.
THEOREM WorkBounded == Spec => []LiveWorkBounded
<1>1. IInv => LiveWorkBounded
  <2> SUFFICES ASSUME IInv, NEW o \in Scopes
               PROVE  Cardinality({j \in Jobs : owner[j] = o /\ work[j] = "running"}
                                  \ orphaned) <= Limit
    BY DEF LiveWorkBounded
  <2> DEFINE R == {j \in Jobs : owner[j] = o /\ work[j] = "running"} \ orphaned
  <2>1. R \subseteq Active(o)
    BY DEF IInv, TypeOK, Records, Active
  <2>2. IsFiniteSet(Active(o)) /\ Cardinality(Active(o)) \in Nat
    BY ActiveFinite DEF IInv
  <2>3. IsFiniteSet(R) /\ Cardinality(R) <= Cardinality(Active(o))
    BY <2>1, <2>2, FS_Subset
  <2>4. Cardinality(R) \in Nat
    BY <2>3, FS_CardinalityType
  <2>5. Cardinality(Active(o)) <= Limit /\ Limit \in Nat
    BY JobsAssumption DEF IInv, Bounded
  <2>6. Cardinality(R) <= Limit
    BY <2>2, <2>3, <2>4, <2>5
  <2> QED
    BY <2>6
<1> QED
  BY <1>1, InvHolds, PTL

=============================================================================
