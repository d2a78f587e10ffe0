----------------------- MODULE SessionOwnershipProofs -----------------------
(***************************************************************************)
(* Proofs about the ownership of a session id, for any attempts and any    *)
(* number of events: the types, that whoever holds the id continues its    *)
(* log, that a retirement that ended well left its session stored, and     *)
(* that a repair is only written when no session is bound to the id.       *)
(*                                                                         *)
(* The inductive invariant is about who may still append. An attempt has   *)
(* at most one operation on the chain, of the kind its place calls for     *)
(* (OneOp, OpFits). A source is taken from the pool only when no session   *)
(* waits to be bound (Held, Sources, NoneUnbound), and a bound session     *)
(* keeps the id as long as it has anything to write (Owners, Saved).       *)
(*                                                                         *)
(* The file goes from what an action does, attempt by attempt and          *)
(* position by position (EnterIs and the others, gathered in Does), over   *)
(* lemmas about the chain and the logs, to one lemma per conjunct of the   *)
(* invariant, with a step per action, and the theorems.                    *)
(***************************************************************************)
EXTENDS SessionOwnership, TLAPS

Event  == [by : Attempts \cup {Repair, Elsewhere}, turn : {"open", "closed"}]
Events == Seq(Event)
Ops    == {"load", "commit", "init", "seed", "write", "writing", "drain", "draining", "final"}
Someone == Attempts \cup {Nobody}

\* The shapes TypeOK leaves open.
Shapes ==
  /\ stored \in Events
  /\ state \in [tracked : BOOLEAN, owner : Someone, cursor : Nat]
  /\ entry \in [phase : {"none", "loading", "ready", "committing", "reserved"},
                source : Events, session : Events, holder : Someone]
  /\ chain \in Seq([op : Ops, for : Attempts])
  /\ live \in Someone /\ aborted \subseteq Attempts
  /\ log \in [Attempts -> Events] /\ saved \in [Attempts -> Nat]
  /\ latest \in Someone /\ foreign \in Nat

\* An attempt has one operation on the chain; what runs beyond its first await is
\* at its head.
OneOp ==
  /\ \A i, j \in 1..Len(chain) : chain[i].for = chain[j].for => i = j
  /\ \A i \in 1..Len(chain) : chain[i].op \in {"seed", "writing", "draining"} => i = 1

\* An operation belongs to the place of its attempt. A cold read that was lost
\* blocks who started it until it is over.
Fits(op, a) ==
  /\ op = "load" =>
       \/ pc[a] = "over"
       \/ /\ pc[a] = "sharing"
          /\ \/ seen[a] = a
             \/ seen[a] = "current" /\ entry.phase = "loading" /\ entry.holder = a
  /\ op = "commit" => pc[a] \in {"committing", "over"}
  /\ op \in {"init", "seed"} => pc[a] \in {"published", "gone"} /\ init[a] = "pending"
  /\ op \in {"write", "writing"} => pc[a] \in {"published", "gone"} /\ init[a] = "ready"
  /\ op \in {"drain", "draining"} => retired[a] = "pending" /\ init[a] = "ready"
  /\ op = "final" => retired[a] = "pending" /\ init[a] = "ready" /\ Len(log[a]) = saved[a]

On(op, a) == \E i \in 1..Len(chain) : chain[i] = Op(op, a)

OpFits == \A op \in Ops, a \in Attempts : On(op, a) => Fits(op, a)

\* Where a Session is in its life.
Lived(a) ==
  /\ pc[a] \in {"published", "refused"} => live = a
  /\ retired[a] # "no" <=> pc[a] = "gone"
  /\ pc[a] \notin {"published", "gone"} => init[a] = "none" /\ saved[a] = 0
  /\ pc[a] \in {"published", "gone"} => init[a] # "none"
  /\ saved[a] <= Len(log[a])

Lives == \A a \in Attempts : Lived(a)

\* Whoever counts on an entry beyond sharing it holds it.
Counts(a) ==
  /\ seen[a] # "none" => pc[a] \in {"sharing", "committing", "committed", "setup"}
  /\ pc[a] \in {"committing", "committed"} /\ seen[a] = "current" =>
       entry.phase = "committing" /\ entry.holder = a
  /\ pc[a] = "setup" => seen[a] = "none" \/ (seen[a] = "current" /\ Reserved(a))

Held ==
  /\ \A a \in Attempts : Counts(a)
  /\ entry.phase = "committing" =>
       pc[entry.holder] \in {"committing", "committed"} /\ seen[entry.holder] = "current"
  /\ entry.phase = "reserved" => pc[entry.holder] = "setup" /\ seen[entry.holder] = "current"

\* The read of h is on the chain, and no session to be bound behind it.
ReadsLast(h) ==
  \E i \in 1..Len(chain) : /\ chain[i] = Op("load", h)
                           /\ \A j \in i + 1..Len(chain) : chain[j].op # "init"

\* No session waits to be bound once a source was read.
NoneUnbound ==
  /\ entry.phase \in {"ready", "committing", "reserved"} =>
       \A a \in Attempts : ~On("init", a) /\ ~On("seed", a)
  /\ \A h \in Attempts : entry.phase = "loading" /\ entry.holder = h => ReadsLast(h)

\* A committed source is the stored log, and nobody owns the id.
Settled == \/ entry.phase = "committing" /\ pc[entry.holder] = "committed"
           \/ entry.phase = "reserved"

Sources ==
  /\ entry.phase \in {"ready", "committing", "reserved"} => entry.session = entry.source
  /\ Settled => /\ entry.source = stored
                /\ state.owner = Nobody /\ state.cursor = Len(stored)

\* s is what t begins with; from position n on, the log of a is its own.
Begins(s, t) == Len(s) <= Len(t) /\ \A i \in 1..Len(s) : s[i] = t[i]
Own(a, n) == \A i \in 1..Len(log[a]) : i > n => log[a][i].by = a

\* A log continues the source it was resumed from, and is all its own otherwise.
Continues(a) ==
  /\ Reserved(a) => Begins(entry.source, log[a]) /\ Own(a, Len(entry.source))
  /\ pc[a] = "setup" /\ ~Reserved(a) => Own(a, 0)
  /\ init[a] = "pending" /\ state.owner # a => Own(a, 0)

Logs == \A a \in Attempts : Continues(a)

\* The owner of the id is bound to it and continues the stored log; a session that
\* is bound owns the id as long as it may write; and behind every session to be
\* bound comes the one that is published.
Continued(a) ==
  state.owner = a => /\ pc[a] \in {"published", "gone"}
                     /\ Begins(stored, log[a]) /\ state.cursor = Len(stored)
                     /\ Own(a, Len(stored))
                     /\ init[a] = "pending" => Len(stored) <= saved[a]

Busy(a) == pc[a] = "published" \/ (log[a] # <<>> /\ retired[a] # "done")

Owned(a) ==
  /\ init[a] = "ready" /\ Busy(a) => state.owner = a
  /\ \A op \in {"seed", "write", "writing", "drain", "draining"} : On(op, a) => state.owner = a

Behind(a) ==
  \A j \in 1..Len(chain) : chain[j].op = "init" /\ chain[j].for # a =>
    \E i \in j + 1..Len(chain) : chain[i] = Op("init", a)

BoundLast(a) == pc[a] = "published" => Behind(a)

Owners == \A a \in Attempts : Continued(a) /\ Owned(a) /\ BoundLast(a)

\* What needs no write is stored, and all that a session which retired well logged.
Kept(a) ==
  /\ init[a] = "ready" => /\ saved[a] <= Len(stored)
                          /\ \A i \in 1..saved[a] : log[a][i] = stored[i]
  /\ retired[a] = "done" => Begins(log[a], stored)

Saved == \A a \in Attempts : Kept(a)

IInv == /\ TypeOK /\ Shapes /\ OneOp /\ OpFits /\ Lives /\ Held /\ NoneUnbound /\ Sources
        /\ Logs /\ Owners /\ Saved

-----------------------------------------------------------------------------
(* Sequences                                                               *)

\* A prefix, position by position.
LEMMA PrefixAt ==
  ASSUME NEW s \in Events, NEW t \in Events
  PROVE  IsPrefix(s, t) <=> /\ Len(s) <= Len(t)
                            /\ \A i \in 1..Len(s) : s[i] = t[i]
<1>1. Len(s) \in Nat /\ Len(t) \in Nat
  BY DEF Events
<1>2. IsPrefix(s, t) <=> Len(s) <= Len(t) /\ SubSeq(s, 1, Len(s)) = SubSeq(t, 1, Len(s))
  BY DEF IsPrefix
<1> QED
  BY <1>1, <1>2 DEF Events

\* The first n events of a log.
LEMMA PrefixIs ==
  ASSUME NEW s \in Events, NEW n \in Nat, n <= Len(s)
  PROVE  /\ Prefix(s, n) \in Events /\ Len(Prefix(s, n)) = n
         /\ \A i \in 1..n : Prefix(s, n)[i] = s[i]
BY DEF Prefix, Events

\* The next event of a log, at its end.
LEMMA LoggedIs ==
  ASSUME NEW s \in Events, NEW who \in Attempts \cup {Repair, Elsewhere}
  PROVE  /\ Logged(s, who) \in Events /\ Len(Logged(s, who)) = Len(s) + 1
         /\ \A i \in 1..Len(s) : Logged(s, who)[i] = s[i]
         /\ Logged(s, who)[Len(s) + 1].by = who
<1> DEFINE e == [by |-> who, turn |-> IF Balanced(s) THEN "open" ELSE "closed"]
<1>1. e \in Event /\ e.by = who
  BY DEF Event
<1>2. Logged(s, who) = Append(s, e)
  BY DEF Logged
<1> HIDE DEF e
<1> QED
  BY <1>1, <1>2 DEF Events

\* The empty log is a log.
LEMMA EmptyLog == <<>> \in Events /\ Len(<<>>) = 0
  BY DEF Events

\* The length of a log is a number.
LEMMA LogLen == \A s \in Events : Len(s) \in Nat
  BY DEF Events

\* What is appended to a log, behind it.
LEMMA AppendedIs ==
  ASSUME NEW s \in Events, NEW t \in Events
  PROVE  /\ s \o t \in Events /\ Len(s \o t) = Len(s) + Len(t)
         /\ \A i \in 1..Len(s) : (s \o t)[i] = s[i]
         /\ \A i \in 1..Len(t) : (s \o t)[Len(s) + i] = t[i]
BY DEF Events

\* The events after the first m, up to the n-th.
LEMMA SliceIs ==
  ASSUME NEW s \in Events, NEW m \in Nat, NEW n \in Nat, n <= Len(s)
  PROVE  /\ SubSeq(s, m + 1, n) \in Events
         /\ Len(SubSeq(s, m + 1, n)) = IF m <= n THEN n - m ELSE 0
         /\ m <= n => \A i \in 1..(n - m) : SubSeq(s, m + 1, n)[i] = s[m + i]
BY DEF Events

-----------------------------------------------------------------------------
(* What the actions do, attempt by attempt and position by position        *)

Views == {"none", "current", "stale", "error"} \cup Attempts

Moves(a, place) == /\ pc' \in [Attempts -> Places] /\ pc'[a] = place
                   /\ \A b \in Attempts \ {a} : pc'[b] = pc[b]
Sees(a, view) == /\ seen' \in [Attempts -> Views] /\ seen'[a] = view
                 /\ \A b \in Attempts \ {a} : seen'[b] = seen[b]
EntryIs(phase, source, events, holder) ==
  entry' = [phase |-> phase, source |-> source, session |-> events, holder |-> holder]
NoEntryLeft == EntryIs("none", <<>>, <<>>, Nobody)

\* Who leaves an entry it waits on, or holds, takes it along.
Leaves(a) == Sees(a, "none") /\ UNCHANGED entry
Drops(a) == /\ NoEntryLeft
            /\ seen' \in [Attempts -> Views] /\ seen[a] = "current" /\ seen'[a] = "none"
            /\ \A b \in Attempts \ {a} :
                 /\ seen[b] = "current" => seen'[b] = "stale"
                 /\ seen[b] # "current" => seen'[b] = seen[b]
Removes(a) == Drops(a) \/ (seen[a] # "current" /\ Leaves(a))

\* A source nobody holds any more.
Frees(a, events) == Sees(a, "none") /\ EntryIs("ready", entry.source, events, Nobody)

\* release
Releases(a) ==
  \/ ~Reserved(a) /\ UNCHANGED <<entry, seen>>
  \/ Reserved(a) /\ ~Reusable(a) /\ Removes(a)
  \/ Reserved(a) /\ Reusable(a) /\ Frees(a, log[a])

\* invalidate
Invalidates ==
  /\ NoEntryLeft /\ seen' \in [Attempts -> Views]
  /\ \A b \in Attempts : /\ seen[b] # "current" => seen'[b] = seen[b]
                         /\ seen[b] = "current" /\ entry.phase = "loading" => seen'[b] = entry.holder
                         /\ seen[b] = "current" /\ entry.phase # "loading" => seen'[b] = "stale"

\* The chain of the id.
Chains == Seq([op : Ops, for : Attempts])
Queued(kind, a) == /\ chain' \in Chains /\ Len(chain') = Len(chain) + 1
                   /\ \A i \in 1..Len(chain) : chain'[i] = chain[i]
                   /\ chain'[Len(chain) + 1] = Op(kind, a)
Ended == /\ chain' \in Chains /\ Len(chain') = Len(chain) - 1
         /\ \A i \in 1..Len(chain) - 1 : chain'[i] = chain[i + 1]
Advanced(kind, a) == /\ chain' \in Chains /\ Len(chain') = Len(chain)
                     /\ chain'[1] = Op(kind, a)
                     /\ \A i \in 2..Len(chain) : chain'[i] = chain[i]
Runs1(kind, a) == Len(chain) > 0 /\ chain[1] = Op(kind, a)

\* Move changes the place of one attempt.
LEMMA MoveDoes ==
  ASSUME TypeOK, NEW a \in Attempts, NEW place \in Places, Move(a, place)
  PROVE  Moves(a, place)
BY DEF TypeOK, Move, Moves

\* Who leaves an entry waits on none.
LEMMA LeaveDoes ==
  ASSUME TypeOK, NEW a \in Attempts, Leave(a)
  PROVE  Sees(a, "none")
BY DEF TypeOK, Leave, Sees, Views

\* RemoveEntry leaves the others who waited on the entry a stale one.
LEMMA RemoveDoes ==
  ASSUME TypeOK, NEW a \in Attempts, RemoveEntry(a)
  PROVE  Removes(a)
<1>1. CASE seen[a] = "current"
  <2>1. /\ entry' = [phase |-> "none", source |-> <<>>, session |-> <<>>, holder |-> Nobody]
        /\ seen' = [Waiters("stale") EXCEPT ![a] = "none"]
    BY <1>1 DEF RemoveEntry, NoEntry
  <2>2. NoEntryLeft
    BY <2>1 DEF NoEntryLeft, EntryIs
  <2> QED
    BY <1>1, <2>1, <2>2 DEF Removes, Drops, Waiters, Views, TypeOK
<1>2. CASE seen[a] # "current"
  BY <1>2, LeaveDoes DEF RemoveEntry, Removes, Leaves
<1> QED
  BY <1>1, <1>2

\* Release gives up a reservation, and keeps the source if nobody added to it.
LEMMA ReleaseDoes ==
  ASSUME TypeOK, Shapes, NEW a \in Attempts, Release(a)
  PROVE  Releases(a)
<1>1. CASE ~Reserved(a)
  BY <1>1 DEF Release, Releases, pool
<1>2. CASE Reserved(a) /\ ~Reusable(a)
  BY <1>2, RemoveDoes DEF Release, Releases
<1>3. CASE Reserved(a) /\ Reusable(a)
  <2>1. Leave(a) /\ entry' = [entry EXCEPT !.phase = "ready", !.holder = Nobody, !.session = log[a]]
    BY <1>3 DEF Release
  <2>2. EntryIs("ready", entry.source, log[a], Nobody)
    BY <2>1 DEF EntryIs, Shapes
  <2> QED
    BY <1>3, <2>1, <2>2, LeaveDoes DEF Releases, Frees
<1> QED
  BY <1>1, <1>2, <1>3

\* Invalidate leaves no entry, and those who waited on it without one.
LEMMA InvalidateDoes ==
  ASSUME TypeOK, Shapes, Invalidate
  PROVE  Invalidates
<1>1. NoEntryLeft
  BY DEF Invalidate, NoEntry, NoEntryLeft, EntryIs
<1>2. entry.phase = "loading" => entry.holder \in Attempts
  BY DEF TypeOK, Shapes, Someone
<1> QED
  BY <1>1, <1>2 DEF Invalidate, Waiters, Invalidates, TypeOK, Views

\* Enqueue appends one operation to the chain.
LEMMA QueueDoes ==
  ASSUME Shapes, NEW a \in Attempts, NEW kind \in Ops, Enqueue(kind, a)
  PROVE  Queued(kind, a)
<1>1. Op(kind, a) \in [op : Ops, for : Attempts]
  BY DEF Op
<1> QED
  BY <1>1 DEF Shapes, Enqueue, Queued, Chains

\* EndOp takes the first operation off the chain.
LEMMA EndDoes ==
  ASSUME Shapes, chain # <<>>, EndOp
  PROVE  Ended /\ Len(chain) \in Nat /\ Len(chain) > 0
BY DEF Shapes, EndOp, Ended, Chains

\* The operation that runs is the first of the chain.
LEMMA RunningIs ==
  ASSUME Shapes, NEW a \in Attempts, NEW kind \in Ops, Running(kind, a)
  PROVE  Runs1(kind, a) /\ chain # <<>>
BY DEF Shapes, Running, Runs1

\* Advance replaces the first operation by its next part.
LEMMA AdvanceDoes ==
  ASSUME Shapes, NEW a \in Attempts, NEW kind \in Ops, chain # <<>>, Head(chain).for = a,
         Advance(kind)
  PROVE  Advanced(kind, a)
<1>1. Op(kind, a) \in [op : Ops, for : Attempts]
  BY DEF Op
<1>2. chain' = <<Op(kind, a)>> \o Tail(chain)
  BY DEF Advance
<1> HIDE DEF Op
<1> QED
  BY <1>1, <1>2 DEF Shapes, Advanced, Chains

\* What Enter changes, attempt by attempt.
EnterIs(a) ==
  /\ pc[a] = "waiting" /\ aborted' \subseteq aborted
  /\ awaited' \in [Attempts -> Someone]
  /\ UNCHANGED <<stored, state, live, log, saved, init, retired, latest, foreign>>
  /\ \/ live # Nobody /\ Moves(a, "over") /\ UNCHANGED <<entry, seen, chain>>
     \/ /\ live = Nobody /\ Moves(a, "sharing") /\ Sees(a, "current")
        /\ \/ entry.phase # "none" /\ UNCHANGED <<entry, chain>>
           \/ /\ entry.phase = "none" /\ EntryIs("loading", <<>>, <<>>, a)
              /\ Queued("load", a)

\* Enter does what EnterIs says.
LEMMA EnterDoes ==
  ASSUME TypeOK, Shapes, NEW a \in Attempts, Enter(a)
  PROVE  EnterIs(a)
<1> USE DEF EnterIs
<1> USE DEF Goto, Over, disk, session, retiring
<1>1. /\ pc[a] = "waiting" /\ aborted' \subseteq aborted
      /\ UNCHANGED <<stored, state, live, log, saved, init, retired, latest, foreign>>
  BY DEF Enter
<1>2. awaited' \in [Attempts -> Someone]
  BY DEF Enter, Move, TypeOK, Someone
<1>3. CASE live # Nobody
  <2>1. Move(a, "over") /\ UNCHANGED <<entry, seen, chain>>
    BY <1>3 DEF Enter, pool
  <2> QED
    BY <1>1, <1>2, <1>3, <2>1, MoveDoes DEF Places
<1>4. CASE live = Nobody
  <2>1. Move(a, "sharing") /\ seen' = [seen EXCEPT ![a] = "current"]
    BY <1>4 DEF Enter
  <2>2. Moves(a, "sharing") /\ Sees(a, "current")
    BY <2>1, MoveDoes DEF Places, Sees, Views, TypeOK
  <2>3. CASE entry.phase # "none"
    BY <1>1, <1>2, <1>4, <2>2, <2>3 DEF Enter
  <2>4. CASE entry.phase = "none"
    <3>1. /\ entry' = [phase |-> "loading", source |-> <<>>, session |-> <<>>, holder |-> a]
          /\ Enqueue("load", a)
      BY <1>4, <2>4 DEF Enter, NoEntry
    <3>2. EntryIs("loading", <<>>, <<>>, a) /\ Queued("load", a)
      BY <3>1, QueueDoes DEF EntryIs, Ops
    <3> QED
      BY <1>1, <1>2, <1>4, <2>2, <2>4, <3>2
  <2> QED
    BY <2>3, <2>4
<1> QED
  BY <1>3, <1>4

\* What Load changes, attempt by attempt.
LoadIs(a) ==
  /\ Runs1("load", a) /\ Ended
  /\ UNCHANGED <<stored, state, live, pc, awaited, aborted, log, saved, init, retired,
                 latest, foreign>>
  /\ \/ /\ entry.phase # "loading" \/ entry.holder # a
        /\ UNCHANGED entry /\ seen' \in [Attempts -> Views]
        /\ \A b \in Attempts : seen[b] # a => seen'[b] = seen[b]
        /\ \A b \in Attempts : seen[b] = a => seen'[b] \in {"stale", "error"}
     \/ /\ entry.phase = "loading" /\ entry.holder = a
        /\ NoEntryLeft /\ seen' \in [Attempts -> Views]
        /\ \A b \in Attempts : seen[b] # "current" => seen'[b] = seen[b]
        /\ \A b \in Attempts : seen[b] = "current" => seen'[b] = "error"
     \/ /\ entry.phase = "loading" /\ entry.holder = a /\ live = Nobody
        /\ EntryIs("ready", stored, stored, Nobody) /\ UNCHANGED seen

\* Load does what LoadIs says.
LEMMA LoadDoes ==
  ASSUME TypeOK, Shapes, NEW a \in Attempts, Load(a)
  PROVE  LoadIs(a)
<1> USE DEF LoadIs
<1>1. Runs1("load", a) /\ Ended
  BY RunningIs, EndDoes DEF Load, Ops
<1>2. UNCHANGED <<stored, state, live, pc, awaited, aborted, log, saved, init, retired,
                  latest, foreign>>
  BY DEF Load, disk, calls, session, retiring
<1>3. PICK read \in {"stale", "error"} :
        /\ read = "stale" => stored # <<>> /\ live = Nobody
        /\ IF entry.phase # "loading" \/ entry.holder # a
             THEN /\ seen' = [b \in Attempts |-> IF seen[b] = a THEN read ELSE seen[b]]
                  /\ UNCHANGED entry
           ELSE IF read = "error" THEN entry' = NoEntry /\ seen' = Waiters("error")
           ELSE /\ entry' = [phase |-> "ready", source |-> stored, session |-> stored,
                             holder |-> Nobody]
                /\ UNCHANGED seen
  BY DEF Load
<1>4. CASE entry.phase # "loading" \/ entry.holder # a
  BY <1>1, <1>2, <1>3, <1>4 DEF TypeOK, Views
<1>5. CASE entry.phase = "loading" /\ entry.holder = a /\ read = "error"
  <2>1. entry' = NoEntry /\ seen' = Waiters("error")
    BY <1>3, <1>5
  <2>2. NoEntryLeft
    BY <2>1 DEF NoEntry, NoEntryLeft, EntryIs
  <2> QED
    BY <1>1, <1>2, <1>5, <2>1, <2>2 DEF Waiters, TypeOK, Views
<1>6. CASE entry.phase = "loading" /\ entry.holder = a /\ read = "stale"
  <2>1. /\ entry' = [phase |-> "ready", source |-> stored, session |-> stored, holder |-> Nobody]
        /\ live = Nobody /\ UNCHANGED seen
    BY <1>3, <1>6
  <2>2. EntryIs("ready", stored, stored, Nobody)
    BY <2>1 DEF EntryIs
  <2> QED
    BY <1>1, <1>2, <1>6, <2>1, <2>2
<1> QED
  BY <1>4, <1>5, <1>6

\* What Share changes, attempt by attempt.
ShareIs(a) ==
  /\ pc[a] = "sharing" /\ aborted' \subseteq aborted
  /\ awaited' \in [Attempts -> Someone]
  /\ UNCHANGED <<stored, state, live, log, saved, init, retired, latest, foreign>>
  /\ \/ /\ seen[a] \in {"stale", "error"} /\ Leaves(a) /\ UNCHANGED chain
        /\ Moves(a, "over") \/ Moves(a, "retry")
     \/ /\ seen[a] = "current" /\ entry.phase = "ready" /\ Moves(a, "committing")
        /\ EntryIs("committing", entry.source, entry.session, a)
        /\ Queued("commit", a) /\ UNCHANGED seen

\* Share does what ShareIs says.
LEMMA ShareDoes ==
  ASSUME TypeOK, Shapes, NEW a \in Attempts, Share(a)
  PROVE  ShareIs(a)
<1> USE DEF ShareIs
<1>1. /\ pc[a] = "sharing" /\ aborted' \subseteq aborted
      /\ UNCHANGED <<stored, state, live, log, saved, init, retired, latest, foreign>>
  BY DEF Share, Goto, Over, disk, session, retiring
<1>2. awaited' \in [Attempts -> Someone]
  BY DEF Share, Goto, Over, Move, TypeOK, Someone
<1>3. CASE seen[a] = "error" /\ Over(a) /\ Leave(a) /\ UNCHANGED <<entry, chain>>
  BY <1>1, <1>2, <1>3, MoveDoes, LeaveDoes DEF Over, Places, Leaves
<1>4. CASE seen[a] = "stale" /\ Goto(a, "retry") /\ Leave(a) /\ UNCHANGED <<entry, chain>>
  BY <1>1, <1>2, <1>4, MoveDoes, LeaveDoes DEF Goto, Places, Leaves
<1>5. CASE /\ seen[a] = "current" /\ entry.phase = "ready" /\ Goto(a, "committing")
           /\ entry' = [entry EXCEPT !.phase = "committing", !.holder = a]
           /\ Enqueue("commit", a) /\ UNCHANGED seen
  <2>1. EntryIs("committing", entry.source, entry.session, a)
    BY <1>5 DEF EntryIs, Shapes
  <2>2. Moves(a, "committing") /\ Queued("commit", a)
    BY <1>5, MoveDoes, QueueDoes DEF Goto, Places, Ops
  <2> QED
    BY <1>1, <1>2, <1>5, <2>1, <2>2
<1> QED
  BY <1>3, <1>4, <1>5 DEF Share

\* What Commit changes, attempt by attempt.
CommitIs(a) ==
  /\ Runs1("commit", a) /\ Ended /\ aborted' \subseteq aborted
  /\ awaited' \in [Attempts -> Someone]
  /\ UNCHANGED <<live, log, saved, init, retired, latest, foreign>>
  /\ \/ pc[a] = "over" /\ UNCHANGED <<stored, state, entry, seen, pc>>
     \/ /\ pc[a] # "over" /\ state.owner = Nobody
        /\ seen[a] = "current" /\ entry.source = stored
        /\ state' = [tracked |-> TRUE, owner |-> Nobody, cursor |-> Len(entry.source)]
        /\ Moves(a, "committed") /\ UNCHANGED <<stored, entry, seen>>
     \/ /\ pc[a] # "over" /\ state.owner = Nobody
        /\ seen[a] = "current" /\ entry.source = stored
        /\ stored' = Logged(stored, Repair)
        /\ Moves(a, "retry") /\ Drops(a) /\ UNCHANGED state
     \/ /\ pc[a] # "over" /\ (Moves(a, "over") \/ Moves(a, "retry"))
        /\ Removes(a) /\ UNCHANGED <<stored, state>>

\* Commit does what CommitIs says.
LEMMA CommitDoes ==
  ASSUME TypeOK, Shapes, NEW a \in Attempts, Commit(a)
  PROVE  CommitIs(a)
<1> USE DEF CommitIs
<1>1. /\ Running("commit", a) /\ EndOp /\ CommitOutcome(a)
      /\ UNCHANGED <<live, log, saved, init, retired, latest, foreign>>
  BY DEF Commit, session, retiring
<1>2. Runs1("commit", a) /\ Ended
  BY <1>1, RunningIs, EndDoes DEF Ops
<1> USE <1>1, <1>2
<1>3. CASE pc[a] = "over"
  BY <1>3 DEF CommitOutcome, disk, pool, TypeOK, Someone
<1>4. CASE pc[a] # "over" /\ Over(a) /\ RemoveEntry(a) /\ UNCHANGED disk
  <2>1. awaited' \in [Attempts -> Someone] /\ aborted' \subseteq aborted
    BY <1>4 DEF Over, Move, TypeOK, Someone
  <2> QED
    BY <1>4, <2>1, MoveDoes, RemoveDoes DEF Over, Places, disk
<1>5. CASE pc[a] # "over" /\ state.owner = Nobody /\ CommitPrepared(a)
  <2>1. CASE IsPreparedSourceCurrent(a) /\ Balanced(entry.source)
    <3>1. /\ state' = [tracked |-> TRUE, owner |-> Nobody, cursor |-> Len(entry.source)]
          /\ Goto(a, "committed") /\ UNCHANGED <<stored, pool>>
      BY <1>5, <2>1 DEF CommitPrepared
    <3>2. awaited' \in [Attempts -> Someone] /\ aborted' \subseteq aborted
      BY <3>1 DEF Goto, Move, TypeOK, Someone
    <3> QED
      BY <1>5, <2>1, <3>1, <3>2, MoveDoes DEF Goto, Places, pool, IsPreparedSourceCurrent
  <2>2. CASE ~(IsPreparedSourceCurrent(a) /\ Balanced(entry.source))
    <3>1. /\ stored' = IF IsPreparedSourceCurrent(a) THEN Logged(stored, Repair) ELSE stored
          /\ Goto(a, "retry") /\ RemoveEntry(a) /\ UNCHANGED state
      BY <1>5, <2>2 DEF CommitPrepared
    <3>2. awaited' \in [Attempts -> Someone] /\ aborted' \subseteq aborted
      BY <3>1 DEF Goto, Move, TypeOK, Someone
    <3>3. Moves(a, "retry") /\ Removes(a)
      BY <3>1, MoveDoes, RemoveDoes DEF Goto, Places
    <3>4. seen[a] = "current" => Drops(a)
      BY <3>3 DEF Removes
    <3> QED
      BY <1>5, <3>1, <3>2, <3>3, <3>4 DEF IsPreparedSourceCurrent
  <2> QED
    BY <2>1, <2>2
<1> QED
  BY <1>3, <1>4, <1>5 DEF CommitOutcome

\* What Reserve changes, attempt by attempt.
ReserveIs(a) ==
  /\ pc[a] = "committed" /\ aborted' \subseteq aborted
  /\ awaited' \in [Attempts -> Someone]
  /\ UNCHANGED <<stored, state, chain, live, saved, init, retired, latest, foreign>>
  /\ \/ /\ Moves(a, "over") /\ seen[a] = "current" /\ Frees(a, entry.session)
        /\ UNCHANGED log
     \/ /\ Moves(a, "over") \/ Moves(a, "retry")
        /\ Removes(a) /\ UNCHANGED log
     \/ /\ Moves(a, "setup") /\ seen[a] = "current" /\ UNCHANGED seen /\ live = Nobody
        /\ EntryIs("reserved", entry.source, entry.session, entry.holder)
        /\ log' = [log EXCEPT ![a] = entry.session]

\* Reserve does what ReserveIs says.
LEMMA ReserveDoes ==
  ASSUME TypeOK, Shapes, NEW a \in Attempts, Reserve(a)
  PROVE  ReserveIs(a)
<1> USE DEF ReserveIs
<1>1. /\ pc[a] = "committed" /\ aborted' \subseteq aborted
      /\ UNCHANGED <<stored, state, chain, live, saved, init, retired, latest, foreign>>
  BY DEF Reserve, Goto, Over, disk, retiring
<1>2. awaited' \in [Attempts -> Someone]
  BY DEF Reserve, Goto, Over, Move, TypeOK, Someone
<1> USE <1>1, <1>2
<1>3. CASE a \in aborted /\ Over(a) /\ Abandon(a) /\ UNCHANGED log
  <2>1. Moves(a, "over") /\ Sees(a, "none")
    BY <1>3, MoveDoes, LeaveDoes DEF Over, Places, Abandon
  <2>2. CASE seen[a] = "current"
    <3>1. entry' = [entry EXCEPT !.phase = "ready", !.holder = Nobody]
      BY <1>3, <2>2 DEF Abandon
    <3>2. EntryIs("ready", entry.source, entry.session, Nobody)
      BY <3>1 DEF EntryIs, Shapes
    <3> QED
      BY <1>3, <2>1, <2>2, <3>2 DEF Frees
  <2>3. CASE seen[a] # "current"
    BY <1>3, <2>1, <2>3 DEF Abandon, Removes, Leaves
  <2> QED
    BY <2>2, <2>3
<1>4. CASE a \notin aborted /\ seen[a] # "current" /\ Goto(a, "retry") /\ Leave(a) /\ UNCHANGED log
           /\ UNCHANGED entry
  BY <1>4, MoveDoes, LeaveDoes DEF Goto, Places, Removes, Leaves
<1>5. CASE Over(a) /\ RemoveEntry(a) /\ UNCHANGED log
  BY <1>5, MoveDoes, RemoveDoes DEF Over, Places
<1>6. CASE /\ seen[a] = "current" /\ live = Nobody /\ Goto(a, "setup")
           /\ entry' = [entry EXCEPT !.phase = "reserved"]
           /\ log' = [log EXCEPT ![a] = entry.session] /\ UNCHANGED seen
  <2>1. EntryIs("reserved", entry.source, entry.session, entry.holder)
    BY <1>6 DEF EntryIs, Shapes
  <2> QED
    BY <1>6, <2>1, MoveDoes DEF Goto, Places
<1> QED
  BY <1>3, <1>4, <1>5, <1>6 DEF Reserve

\* What Create changes, attempt by attempt.
CreateIs(a) ==
  /\ pc[a] = "idle" /\ aborted' \subseteq aborted
  /\ awaited' \in [Attempts -> Someone]
  /\ UNCHANGED <<stored, state, entry, seen, chain, live, saved, init, retired, latest,
                 foreign>>
  /\ \/ Moves(a, "over") /\ UNCHANGED log
     \/ /\ Moves(a, "setup")
        /\ \E seed \in Events : /\ \A i \in 1..Len(seed) : seed[i].by = a
                                /\ log' = [log EXCEPT ![a] = seed]

\* Create does what CreateIs says.
LEMMA CreateDoes ==
  ASSUME TypeOK, Shapes, NEW a \in Attempts, Create(a)
  PROVE  CreateIs(a)
<1> USE DEF CreateIs
<1>1. /\ pc[a] = "idle" /\ aborted' \subseteq aborted
      /\ UNCHANGED <<stored, state, entry, seen, chain, live, saved, init, retired, latest,
                     foreign>>
  BY DEF Create, Goto, Over, disk, pool, retiring
<1>2. awaited' \in [Attempts -> Someone]
  BY DEF Create, Goto, Over, Move, TypeOK, Someone
<1>3. CASE Over(a) /\ UNCHANGED log
  BY <1>1, <1>2, <1>3, MoveDoes DEF Over, Places
<1>4. CASE Goto(a, "setup") /\ \E seed \in {<<>>, Logged(<<>>, a)} : log' = [log EXCEPT ![a] = seed]
  <2>1. <<>> \in Events /\ Len(<<>>) = 0
    BY DEF Events
  <2>2. /\ Logged(<<>>, a) \in Events /\ Len(Logged(<<>>, a)) = 0 + 1
        /\ Logged(<<>>, a)[0 + 1].by = a
    BY <2>1, LoggedIs
  <2>3. \A seed \in {<<>>, Logged(<<>>, a)} :
          seed \in Events /\ \A i \in 1..Len(seed) : seed[i].by = a
    BY <2>1, <2>2
  <2>4. PICK seed \in {<<>>, Logged(<<>>, a)} : log' = [log EXCEPT ![a] = seed]
    BY <1>4
  <2>5. Moves(a, "setup")
    BY <1>4, MoveDoes DEF Goto, Places
  <2> QED
    BY <1>1, <1>2, <2>3, <2>4, <2>5
<1> QED
  BY <1>3, <1>4 DEF Create

\* What Abort changes, attempt by attempt.
AbortIs(a) ==
  /\ awaited' \in [Attempts -> Someone] /\ aborted' \subseteq Attempts
  /\ UNCHANGED <<stored, state, chain, live, log, saved, init, retired, latest, foreign>>
  /\ \/ pc[a] \in {"waiting", "retry", "sharing"} /\ Moves(a, "over") /\ Leaves(a)
     \/ pc[a] = "committing" /\ Moves(a, "over") /\ Removes(a)
     \/ pc[a] \in {"committed", "setup"} /\ UNCHANGED <<pc, entry, seen>>

\* Abort does what AbortIs says.
LEMMA AbortDoes ==
  ASSUME TypeOK, Shapes, NEW a \in Attempts, Abort(a)
  PROVE  AbortIs(a)
<1> USE DEF AbortIs
<1>1. /\ aborted' \subseteq Attempts
      /\ UNCHANGED <<stored, state, chain, live, log, saved, init, retired, latest, foreign>>
  BY DEF Abort, Over, disk, session, retiring, Shapes
<1>2. awaited' \in [Attempts -> Someone]
  BY DEF Abort, Over, Move, TypeOK, Someone
<1>3. CASE pc[a] \in {"waiting", "retry", "sharing"} /\ Over(a) /\ Leave(a) /\ UNCHANGED entry
  BY <1>1, <1>2, <1>3, MoveDoes, LeaveDoes DEF Over, Places, Leaves
<1>4. CASE pc[a] = "committing" /\ Over(a) /\ RemoveEntry(a)
  BY <1>1, <1>2, <1>4, MoveDoes, RemoveDoes DEF Over, Places
<1>5. CASE pc[a] \in {"committed", "setup"} /\ UNCHANGED <<pc, awaited, pool>>
  BY <1>1, <1>2, <1>5 DEF pool
<1> QED
  BY <1>3, <1>4, <1>5 DEF Abort

\* What Unwind changes, attempt by attempt.
UnwindIs(a) ==
  /\ Moves(a, "over") /\ Releases(a) /\ log' = [log EXCEPT ![a] = <<>>]
  /\ awaited' \in [Attempts -> Someone] /\ aborted' \subseteq aborted
  /\ UNCHANGED <<stored, state, chain, saved, init, retired, latest, foreign>>
  /\ \/ pc[a] = "setup" /\ live' = live
     \/ pc[a] = "refused" /\ live' = Nobody

\* Unwind does what UnwindIs says.
LEMMA UnwindDoes ==
  ASSUME TypeOK, Shapes, NEW a \in Attempts, Unwind(a) \/ Rollback(a)
  PROVE  UnwindIs(a)
<1> USE DEF UnwindIs
<1>1. /\ Over(a) /\ Release(a)
      /\ UNCHANGED <<stored, state, chain, saved, init, retired, latest, foreign>>
      /\ log' = [log EXCEPT ![a] = <<>>]
      /\ \/ pc[a] = "setup" /\ live' = live
         \/ pc[a] = "refused" /\ live' = Nobody
  BY DEF Unwind, Rollback, Forget, disk, retiring
<1>2. Moves(a, "over") /\ Releases(a)
  BY <1>1, MoveDoes, ReleaseDoes DEF Over, Places
<1>3. awaited' \in [Attempts -> Someone] /\ aborted' \subseteq aborted
  BY <1>1 DEF Over, Move, TypeOK, Someone
<1> QED
  BY <1>1, <1>2, <1>3

\* What Publish changes, attempt by attempt.
PublishIs(a) ==
  /\ pc[a] = "setup" /\ live = Nobody /\ live' = a /\ UNCHANGED aborted
  /\ awaited' \in [Attempts -> Someone]
  /\ UNCHANGED <<stored, log, retired, latest, foreign>>
  /\ \/ /\ Attachable(a) /\ Moves(a, "published") /\ Removes(a)
        /\ saved' = [saved EXCEPT ![a] = Len(log[a])]
        /\ state' = [state EXCEPT !.owner = a]
        /\ \/ /\ Len(log[a]) > state.cursor
              /\ init' = [init EXCEPT ![a] = "pending"] /\ Queued("init", a)
           \/ /\ ~(Len(log[a]) > state.cursor)
              /\ init' = [init EXCEPT ![a] = "ready"] /\ UNCHANGED chain
     \/ /\ entry.phase = "none" /\ Moves(a, "published")
        /\ saved' = [saved EXCEPT ![a] = Len(log[a])]
        /\ init' = [init EXCEPT ![a] = "pending"] /\ Queued("init", a)
        /\ UNCHANGED <<entry, seen, state>>
     \/ /\ entry.phase # "none" /\ ~Attachable(a) /\ Moves(a, "refused")
        /\ UNCHANGED <<entry, seen, state, init, chain, saved>>

\* Publish does what PublishIs says.
LEMMA PublishDoes ==
  ASSUME TypeOK, Shapes, NEW a \in Attempts, Publish(a)
  PROVE  PublishIs(a)
<1> USE DEF PublishIs
<1>1. /\ pc[a] = "setup" /\ live = Nobody /\ live' = a /\ UNCHANGED aborted
      /\ UNCHANGED <<stored, log, retired, latest, foreign>>
  BY DEF Publish, Goto, retiring
<1>2. awaited' \in [Attempts -> Someone]
  BY DEF Publish, Goto, Move, TypeOK, Someone
<1>3. CASE Attach(a) /\ Goto(a, "published") /\ saved' = [saved EXCEPT ![a] = Len(log[a])]
  <2>1. Moves(a, "published") /\ Removes(a) /\ Attachable(a) /\ state' = [state EXCEPT !.owner = a]
    BY <1>3, MoveDoes, RemoveDoes DEF Attach, Goto, Places
  <2>2. CASE Len(log[a]) > state.cursor
    BY <1>1, <1>2, <1>3, <2>1, <2>2, QueueDoes DEF Attach, Ops
  <2>3. CASE ~(Len(log[a]) > state.cursor)
    BY <1>1, <1>2, <1>3, <2>1, <2>3 DEF Attach
  <2> QED
    BY <2>2, <2>3
<1>4. CASE InitFor(a) /\ Goto(a, "published") /\ saved' = [saved EXCEPT ![a] = Len(log[a])]
  BY <1>1, <1>2, <1>4, MoveDoes, QueueDoes DEF InitFor, Goto, Places, Ops, pool
<1>5. CASE /\ entry.phase # "none" /\ ~Attachable(a) /\ Goto(a, "refused")
           /\ UNCHANGED <<pool, state, init, chain, saved>>
  BY <1>1, <1>2, <1>5, MoveDoes DEF Goto, Places, pool
<1> QED
  BY <1>3, <1>4, <1>5 DEF Publish

\* What Bind changes, attempt by attempt.
BindIs(a) ==
  /\ Runs1("init", a) /\ UNCHANGED <<stored, entry, seen, live, pc, awaited, aborted, log,
                                    saved, retired, latest, foreign>>
  /\ \/ /\ state.owner # a => ~Collides(a)
        /\ state' = [tracked |-> TRUE, owner |-> a, cursor |-> Len(stored)]
        /\ \/ /\ saved[a] = Len(stored) /\ Ended
              /\ init' = [init EXCEPT ![a] = "ready"]
           \/ /\ saved[a] # Len(stored) /\ Writable /\ Advanced("seed", a)
              /\ UNCHANGED init
           \/ /\ saved[a] # Len(stored) /\ Ended
              /\ init' = [init EXCEPT ![a] = "failed"]
     \/ Ended /\ init' = [init EXCEPT ![a] = "failed"] /\ UNCHANGED state

\* Bind does what BindIs says.
LEMMA BindDoes ==
  ASSUME TypeOK, Shapes, NEW a \in Attempts, Bind(a)
  PROVE  BindIs(a)
<1> USE DEF BindIs
<1>1. /\ Runs1("init", a) /\ chain # <<>> /\ Head(chain).for = a
      /\ UNCHANGED <<stored, entry, seen, live, pc, awaited, aborted, log, saved, retired,
                     latest, foreign>>
  BY RunningIs DEF Bind, Ops, pool, calls, retiring, Running, Op
<1>2. EndOp => Ended
  BY <1>1, EndDoes
<1>3. Advance("seed") => Advanced("seed", a)
  BY <1>1, AdvanceDoes DEF Ops
<1> QED
  BY <1>1, <1>2, <1>3 DEF Bind

\* appendCore
Appends(events) == /\ stored' = stored \o events
                   /\ state' = [state EXCEPT !.cursor = Len(stored')]
                   /\ Invalidates

\* What Seed changes, attempt by attempt.
SeedIs(a) ==
  /\ Runs1("seed", a) /\ Ended
  /\ UNCHANGED <<live, pc, awaited, aborted, log, saved, retired, latest, foreign>>
  /\ \/ /\ Appends(SubSeq(log[a], state.cursor + 1, saved[a]))
        /\ init' = [init EXCEPT ![a] = "ready"]
     \/ /\ init' = [init EXCEPT ![a] = "failed"]
        /\ UNCHANGED <<stored, state, entry, seen>>

\* Seed does what SeedIs says.
LEMMA SeedDoes ==
  ASSUME TypeOK, Shapes, NEW a \in Attempts, Seed(a)
  PROVE  SeedIs(a)
BY RunningIs, EndDoes, InvalidateDoes
DEF SeedIs, Seed, Ops, calls, retiring, disk, pool, AppendCore, Appends

\* What Write changes, attempt by attempt.
WriteIs(a) ==
  /\ Writable
  /\ UNCHANGED <<stored, state, entry, seen, live, pc, awaited, aborted, log, saved, init,
                 retired, latest, foreign>>
  /\ \/ Runs1("write", a) /\ Advanced("writing", a)
     \/ Runs1("drain", a) /\ Advanced("draining", a)

\* Write does what WriteIs says.
LEMMA WriteDoes ==
  ASSUME TypeOK, Shapes, NEW a \in Attempts, Write(a)
  PROVE  WriteIs(a)
<1> USE DEF WriteIs
<1>1. ASSUME NEW kind \in {"write", "drain"}, Running(kind, a)
      PROVE  Runs1(kind, a) /\ chain # <<>> /\ Head(chain).for = a
  BY <1>1, RunningIs DEF Ops, Running, Op
<1> QED
  BY <1>1, AdvanceDoes DEF Write, Ops, disk, pool, calls, session, retiring

\* What Written changes, attempt by attempt.
WrittenIs(a) ==
  /\ Runs1("writing", a) \/ Runs1("draining", a)
  /\ Ended /\ Appends(Suffix(log[a], state.cursor))
  /\ saved' = [saved EXCEPT ![a] = Len(log[a])]
  /\ UNCHANGED <<live, pc, awaited, aborted, log, init, retired, latest, foreign>>

\* Written does what WrittenIs says.
LEMMA WrittenDoes ==
  ASSUME TypeOK, Shapes, NEW a \in Attempts, Written(a)
  PROVE  WrittenIs(a)
BY RunningIs, EndDoes, InvalidateDoes DEF WrittenIs, Written, Ops, calls, retiring, AppendCore, Appends

\* What WriteFails changes, attempt by attempt.
WriteFailsIs(a) ==
  /\ Len(chain) > 0 /\ chain[1].for = a /\ Ended
  /\ UNCHANGED <<stored, state, entry, seen, live, pc, awaited, aborted, log, saved, init,
                 latest, foreign>>
  /\ \/ chain[1].op \in {"write", "writing"} /\ UNCHANGED retired
     \/ /\ chain[1].op \in {"drain", "draining"}
        /\ retired' = [retired EXCEPT ![a] = "failed"]

\* WriteFails does what WriteFailsIs says.
LEMMA WriteFailsDoes ==
  ASSUME TypeOK, Shapes, NEW a \in Attempts, WriteFails(a)
  PROVE  WriteFailsIs(a)
<1> USE DEF WriteFailsIs
<1>1. Ended /\ Len(chain) > 0 /\ Head(chain) = chain[1]
  BY EndDoes DEF WriteFails, Shapes
<1> QED
  BY <1>1 DEF WriteFails, disk, pool, calls, session

\* What StartWrite changes, attempt by attempt.
StartWriteIs(a) ==
  /\ pc[a] = "published" \/ retired[a] = "pending"
  /\ init[a] = "ready" /\ Len(log[a]) > saved[a] /\ ~HasOp(a)
  /\ \/ retired[a] = "pending" /\ Queued("drain", a)
     \/ retired[a] # "pending" /\ Queued("write", a)
  /\ UNCHANGED <<stored, state, entry, seen, live, pc, awaited, aborted, log, saved, init,
                 retired, latest, foreign>>

\* StartWrite does what StartWriteIs says.
LEMMA StartWriteDoes ==
  ASSUME TypeOK, Shapes, NEW a \in Attempts, StartWrite(a)
  PROVE  StartWriteIs(a)
BY QueueDoes DEF StartWriteIs, StartWrite, Ops, disk, pool, calls, session, retiring

\* What Retire changes, attempt by attempt.
RetireIs(a) ==
  /\ retired[a] = "pending" /\ ~HasOp(a)
  /\ \/ /\ init[a] = "failed" /\ retired' = [retired EXCEPT ![a] = "failed"]
        /\ UNCHANGED chain
     \/ /\ init[a] = "ready" /\ Len(log[a]) = saved[a] /\ Queued("final", a)
        /\ UNCHANGED retired
  /\ UNCHANGED <<stored, state, entry, seen, live, pc, awaited, aborted, log, saved, init,
                 latest, foreign>>

\* Retire does what RetireIs says.
LEMMA RetireDoes ==
  ASSUME TypeOK, Shapes, NEW a \in Attempts, Retire(a)
  PROVE  RetireIs(a)
BY QueueDoes DEF RetireIs, Retire, Drained, Ops, disk, pool, calls, session

\* What Final changes, attempt by attempt.
FinalIs(a) ==
  /\ Runs1("final", a) /\ Ended
  /\ \/ state.owner = a /\ state' = Unowned
     \/ state.owner # a /\ UNCHANGED state
  /\ retired' = [retired EXCEPT ![a] = "done"]
  /\ UNCHANGED <<stored, entry, seen, live, pc, awaited, aborted, log, saved, init, latest,
                 foreign>>

\* Final does what FinalIs says.
LEMMA FinalDoes ==
  ASSUME TypeOK, Shapes, NEW a \in Attempts, Final(a)
  PROVE  FinalIs(a)
BY RunningIs, EndDoes DEF FinalIs, Final, Ops, pool, calls, session

\* What Log changes, attempt by attempt.
LogIs(a) ==
  /\ pc[a] \in {"setup", "published"} /\ log' \in [Attempts -> Events]
  /\ Begins(log[a], log'[a]) /\ Len(log'[a]) = Len(log[a]) + 1
  /\ log'[a][Len(log[a]) + 1].by = a
  /\ \A b \in Attempts \ {a} : log'[b] = log[b]
  /\ UNCHANGED <<stored, state, entry, seen, chain, live, pc, awaited, aborted, saved, init,
                 retired, latest, foreign>>

\* Log does what LogIs says.
LEMMA LogDoes ==
  ASSUME TypeOK, Shapes, NEW a \in Attempts, Log(a)
  PROVE  LogIs(a)
<1>1. log' = [log EXCEPT ![a] = Logged(log[a], a)] /\ log \in [Attempts -> Events]
  BY DEF Log, Shapes
<1>2. /\ Logged(log[a], a) \in Events /\ Len(Logged(log[a], a)) = Len(log[a]) + 1
      /\ \A i \in 1..Len(log[a]) : Logged(log[a], a)[i] = log[a][i]
      /\ Logged(log[a], a)[Len(log[a]) + 1].by = a /\ Len(log[a]) \in Nat
  BY <1>1, LoggedIs, LogLen
<1>3. /\ log' \in [Attempts -> Events] /\ log'[a] = Logged(log[a], a)
      /\ \A b \in Attempts \ {a} : log'[b] = log[b]
  BY <1>1, <1>2
<1>4. Begins(log[a], log'[a])
  BY <1>2, <1>3 DEF Begins
<1> QED
  BY <1>2, <1>3, <1>4 DEF Log, LogIs, disk, pool, calls, retiring

\* The operation that runs fits.
LEMMA HeadFits ==
  ASSUME Shapes, OpFits, NEW a \in Attempts, NEW kind \in Ops, Runs1(kind, a)
  PROVE  Fits(kind, a)
BY DEF Shapes, OpFits, On, Runs1

\* Who writes owns the id.
LEMMA OwnerRuns ==
  ASSUME Shapes, Owners, NEW a \in Attempts,
         NEW kind \in {"seed", "write", "writing", "drain", "draining"}, Runs1(kind, a)
  PROVE  state.owner = a
BY DEF Shapes, Owners, Owned, On, Runs1

\* The next-state relation, action by action.
LEMMA Does ==
  ASSUME TypeOK, Shapes, [Next]_vars
  PROVE  \/ \E a \in Attempts :
              \/ Begin(a) \/ EnterIs(a) \/ RetirementFailed(a) \/ LoadIs(a) \/ ShareIs(a)
              \/ CommitIs(a) \/ ReserveIs(a) \/ CreateIs(a) \/ AbortIs(a) \/ UnwindIs(a)
              \/ PublishIs(a) \/ LogIs(a) \/ Detach(a) \/ BindIs(a) \/ SeedIs(a)
              \/ StartWriteIs(a) \/ WriteIs(a) \/ WrittenIs(a) \/ WriteFailsIs(a)
              \/ RetireIs(a) \/ FinalIs(a)
         \/ Foreign
         \/ UNCHANGED vars
<1>1. ASSUME NEW a \in Attempts, Waits(a) \/ Users(a)
      PROVE  \/ Begin(a) \/ EnterIs(a) \/ RetirementFailed(a) \/ ShareIs(a) \/ ReserveIs(a)
             \/ CreateIs(a) \/ AbortIs(a) \/ LogIs(a) \/ Detach(a)
  BY <1>1, EnterDoes, ShareDoes, ReserveDoes, CreateDoes, AbortDoes, LogDoes DEF Waits, Users
<1>2. ASSUME NEW a \in Attempts, Runs(a)
      PROVE  \/ LoadIs(a) \/ CommitIs(a) \/ BindIs(a) \/ SeedIs(a) \/ WriteIs(a)
             \/ WrittenIs(a) \/ WriteFailsIs(a) \/ FinalIs(a)
  BY <1>2, LoadDoes, CommitDoes, BindDoes, SeedDoes, WriteDoes, WrittenDoes, WriteFailsDoes,
     FinalDoes DEF Runs
<1>3. ASSUME NEW a \in Attempts, Settles(a) \/ Drains(a)
      PROVE  UnwindIs(a) \/ PublishIs(a) \/ StartWriteIs(a) \/ RetireIs(a)
  BY <1>3, UnwindDoes, PublishDoes, StartWriteDoes, RetireDoes DEF Settles, Drains
<1> QED
  BY <1>1, <1>2, <1>3 DEF Next

-----------------------------------------------------------------------------
(* The chain                                                               *)

\* Each operation of the chain is of a known kind, for some attempt.
LEMMA ChainType ==
  ASSUME Shapes
  PROVE  /\ Len(chain) \in Nat
         /\ \A i \in 1..Len(chain) :
              /\ chain[i].op \in Ops /\ chain[i].for \in Attempts
              /\ chain[i] = Op(chain[i].op, chain[i].for)
<1> DEFINE R == [op : Ops, for : Attempts]
<1>1. chain \in Seq(R)
  BY DEF Shapes
<1>2. \A r \in R : r.op \in Ops /\ r.for \in Attempts /\ r = Op(r.op, r.for)
  BY DEF Op
<1> HIDE DEF R
<1>3. Len(chain) \in Nat /\ \A i \in 1..Len(chain) : chain[i] \in R
  BY <1>1
<1> QED
  BY <1>2, <1>3

\* Who has an operation on the chain.
LEMMA HasOpOn ==
  ASSUME Shapes, NEW a \in Attempts
  PROVE  HasOp(a) <=> \E op \in Ops : On(op, a)
<1>1. ASSUME NEW i \in 1..Len(chain), chain[i].for = a
      PROVE  \E op \in Ops : On(op, a)
  BY <1>1, ChainType DEF On
<1>2. ASSUME NEW op \in Ops, On(op, a)
      PROVE  HasOp(a)
  BY <1>2 DEF On, Op, HasOp
<1> QED
  BY <1>1, <1>2 DEF HasOp

\* An attempt that still negotiates for the id has nothing on the chain, and who
\* shares a read has at most that read.
LEMMA NothingQueued ==
  ASSUME TypeOK, Shapes, OpFits, Lives, NEW a \in Attempts,
         \/ pc[a] \in {"idle", "retry", "waiting", "committed", "setup", "refused"}
         \/ pc[a] = "sharing" /\ seen[a] = "current" /\ entry.phase # "loading"
  PROVE  ~HasOp(a)
<1>1. ASSUME NEW op \in Ops, On(op, a)
      PROVE  FALSE
  <2>1. Fits(op, a)
    BY <1>1 DEF OpFits
  <2>2. retired[a] # "pending"
    BY DEF Lives, Lived
  <2> QED
    BY <2>1, <2>2, OwnershipAssumption DEF Fits, Ops
<1> QED
  BY <1>1, HasOpOn

\* An attempt without an operation may queue one.
LEMMA OneOpQueued ==
  ASSUME Shapes, OneOp, NEW a \in Attempts, ~HasOp(a),
         NEW kind \in Ops \ {"seed", "writing", "draining"}, Queued(kind, a)
  PROVE  OneOp'
<1>1. Len(chain) \in Nat /\ \A i \in 1..Len(chain) : chain[i].for # a
  BY ChainType DEF HasOp
<1>2. /\ Len(chain') = Len(chain) + 1 /\ \A i \in 1..Len(chain) : chain'[i] = chain[i]
      /\ chain'[Len(chain) + 1].op = kind /\ chain'[Len(chain) + 1].for = a
  BY DEF Queued, Op
<1>3. \A i \in 1..Len(chain') : i \in 1..Len(chain) \/ i = Len(chain) + 1
  BY <1>1, <1>2
<1> QED
  BY <1>1, <1>2, <1>3 DEF OneOp

\* The end of an operation leaves one for each attempt.
LEMMA OneOpEnded ==
  ASSUME Shapes, OneOp, Len(chain) > 0, Ended
  PROVE  OneOp'
<1>1. Len(chain) \in Nat
  BY DEF Shapes
<1>2. \A i \in 1..Len(chain') : i + 1 \in 1..Len(chain) /\ chain'[i] = chain[i + 1] /\ i + 1 # 1
  BY <1>1 DEF Ended
<1>3. \A i, j \in 1..Len(chain') : chain'[i].for = chain'[j].for => i + 1 = j + 1
  BY <1>2 DEF OneOp
<1> QED
  BY <1>1, <1>2, <1>3 DEF OneOp

\* An operation that advances is still the only one of its attempt.
LEMMA OneOpAdvanced ==
  ASSUME Shapes, OneOp, NEW a \in Attempts, NEW kind \in Ops, Len(chain) > 0,
         chain[1].for = a, Advanced(kind, a)
  PROVE  OneOp'
<1>1. \A i \in 1..Len(chain) : chain'[i].for = chain[i].for /\ (i # 1 => chain'[i] = chain[i])
  BY DEF Shapes, Advanced, Op
<1> QED
  BY <1>1 DEF OneOp, Advanced

\* A chain that stays the same holds the same operations.
LEMMA OnSame ==
  ASSUME UNCHANGED chain
  PROVE  \A op \in Ops, b \in Attempts : On(op, b)' <=> On(op, b)
BY DEF On

\* Which operations an append leaves, the end of an operation, and its advance.
LEMMA OnQueued ==
  ASSUME Shapes, NEW a \in Attempts, NEW kind \in Ops, Queued(kind, a)
  PROVE  \A op \in Ops, b \in Attempts : On(op, b)' => On(op, b) \/ (op = kind /\ b = a)
<1>1. Len(chain) \in Nat
  BY ChainType
<1>2. ASSUME NEW op \in Ops, NEW b \in Attempts, NEW i \in 1..Len(chain'), chain'[i] = Op(op, b)
      PROVE  On(op, b) \/ (op = kind /\ b = a)
  <2>1. CASE i \in 1..Len(chain)
    BY <1>2, <2>1 DEF Queued, On
  <2>2. CASE i = Len(chain) + 1
    BY <1>2, <2>2 DEF Queued, Op
  <2> QED
    BY <1>1, <2>1, <2>2 DEF Queued
<1> QED
  BY <1>2 DEF On

\* Each operation behind the one that runs is of another attempt, and has not
\* begun.
LEMMA EndedAt ==
  ASSUME Shapes, OneOp, Len(chain) > 0, Ended
  PROVE  \A i \in 1..Len(chain') : /\ i + 1 \in 1..Len(chain) /\ chain'[i] = chain[i + 1]
                                   /\ chain[i + 1].for # chain[1].for
                                   /\ chain[i + 1].op \notin {"seed", "writing", "draining"}
<1>1. Len(chain) \in Nat
  BY ChainType
<1>2. \A i \in 1..Len(chain') : /\ i + 1 \in 1..Len(chain) /\ chain'[i] = chain[i + 1]
                                /\ i + 1 # 1 /\ 1 \in 1..Len(chain)
  BY <1>1 DEF Ended
<1> QED
  BY <1>2 DEF OneOp

\* The end of an operation leaves those of the other attempts.
LEMMA OnEnded ==
  ASSUME Shapes, OneOp, Len(chain) > 0, Ended
  PROVE  \A op \in Ops, b \in Attempts :
           On(op, b)' => /\ On(op, b) /\ b # chain[1].for
                         /\ op \notin {"seed", "writing", "draining"}
BY EndedAt DEF On, Op

\* An advance leaves those of the other attempts, and the new part.
LEMMA OnAdvanced ==
  ASSUME Shapes, OneOp, Len(chain) > 0, NEW a \in Attempts, chain[1].for = a,
         NEW kind \in Ops, Advanced(kind, a)
  PROVE  \A op \in Ops, b \in Attempts :
           On(op, b)' => (On(op, b) /\ b # a) \/ (op = kind /\ b = a)
<1>1. Len(chain) \in Nat
  BY ChainType
<1>2. ASSUME NEW op \in Ops, NEW b \in Attempts, NEW i \in 1..Len(chain'), chain'[i] = Op(op, b)
      PROVE  (On(op, b) /\ b # a) \/ (op = kind /\ b = a)
  <2>1. CASE i = 1
    BY <1>2, <2>1 DEF Advanced, Op
  <2>2. CASE i # 1
    <3>1. i \in 1..Len(chain) /\ 1 \in 1..Len(chain) /\ chain[i] = Op(op, b)
      BY <1>1, <1>2, <2>2 DEF Advanced
    <3>2. chain[i].for # a
      BY <2>2, <3>1 DEF OneOp
    <3> QED
      BY <3>1, <3>2 DEF On, Op
  <2> QED
    BY <2>1, <2>2
<1> QED
  BY <1>2 DEF On

\* A read stays behind the sessions to be bound.
LEMMA ReadQueued ==
  ASSUME Shapes, NEW a \in Attempts, NEW kind \in Ops \ {"init"}, Queued(kind, a)
  PROVE  /\ kind = "load" => ReadsLast(a)'
         /\ \A h \in Attempts : ReadsLast(h) => ReadsLast(h)'
<1>1. Len(chain) \in Nat
  BY ChainType
<1>2. /\ Len(chain') = Len(chain) + 1 /\ \A i \in 1..Len(chain) : chain'[i] = chain[i]
      /\ chain'[Len(chain) + 1] = Op(kind, a) /\ Op(kind, a).op # "init"
  BY DEF Queued, Op
<1>3. CASE kind = "load"
  BY <1>1, <1>2, <1>3 DEF ReadsLast
<1>4. ASSUME NEW h \in Attempts, ReadsLast(h)
      PROVE  ReadsLast(h)'
  <2>1. PICK i \in 1..Len(chain) : /\ chain[i] = Op("load", h)
                                   /\ \A j \in i + 1..Len(chain) : chain[j].op # "init"
    BY <1>4 DEF ReadsLast
  <2>2. \A j \in i + 1..Len(chain') :
          (j \in i + 1..Len(chain) /\ j \in 1..Len(chain)) \/ j = Len(chain) + 1
    BY <1>1, <1>2
  <2>3. \A j \in i + 1..Len(chain') : chain'[j].op # "init"
    BY <1>2, <2>1, <2>2
  <2>4. i \in 1..Len(chain') /\ chain'[i] = Op("load", h)
    BY <1>1, <1>2, <2>1
  <2> QED
    BY <2>3, <2>4 DEF ReadsLast, Op
<1> QED
  BY <1>3, <1>4

\* A read keeps its place when another operation ends,
LEMMA ReadEnded ==
  ASSUME Shapes, Len(chain) > 0, Ended
  PROVE  \A h \in Attempts :
           (chain[1].op # "load" \/ chain[1].for # h) /\ ReadsLast(h) => ReadsLast(h)'
<1>1. Len(chain) \in Nat
  BY ChainType
<1>2. ASSUME NEW h \in Attempts, chain[1].op # "load" \/ chain[1].for # h, ReadsLast(h)
      PROVE  ReadsLast(h)'
  <2>1. PICK i \in 1..Len(chain) : /\ chain[i] = Op("load", h)
                                   /\ \A j \in i + 1..Len(chain) : chain[j].op # "init"
    BY <1>2 DEF ReadsLast
  <2>2. i # 1 /\ i - 1 \in 1..Len(chain')
    <3>1. i # 1
      BY <1>2, <2>1 DEF Op
    <3> QED
      BY <1>1, <3>1 DEF Ended
  <2>3. chain'[i - 1] = Op("load", h)
    <3>1. chain'[i - 1] = chain[(i - 1) + 1] /\ (i - 1) + 1 = i
      BY <1>1, <2>2 DEF Ended
    <3> QED
      BY <2>1, <3>1
  <2>4. ASSUME NEW j \in (i - 1) + 1..Len(chain')
        PROVE  chain'[j].op # "init"
    <3>1. chain'[j] = chain[j + 1] /\ j + 1 \in i + 1..Len(chain)
      BY <1>1, <2>2 DEF Ended
    <3> QED
      BY <2>1, <3>1
  <2> QED
    BY <2>2, <2>3, <2>4 DEF ReadsLast, Op
<1> QED
  BY <1>2

\* and when another one advances.
LEMMA ReadAdvanced ==
  ASSUME Shapes, Len(chain) > 0, chain[1].op # "load", NEW a \in Attempts,
         NEW kind \in Ops \ {"init"}, Advanced(kind, a)
  PROVE  \A h \in Attempts : ReadsLast(h) => ReadsLast(h)'
<1>1. Len(chain) \in Nat
  BY ChainType
<1>2. ASSUME NEW h \in Attempts, ReadsLast(h)
      PROVE  ReadsLast(h)'
  <2>1. PICK i \in 1..Len(chain) : /\ chain[i] = Op("load", h)
                                   /\ \A j \in i + 1..Len(chain) : chain[j].op # "init"
    BY <1>2 DEF ReadsLast
  <2>2. i # 1
    BY <2>1 DEF Op
  <2>3. i \in 1..Len(chain') /\ chain'[i] = Op("load", h)
    BY <1>1, <2>1, <2>2 DEF Advanced
  <2>4. \A j \in i + 1..Len(chain') : chain'[j].op # "init"
    BY <1>1, <2>1, <2>2 DEF Advanced
  <2> QED
    BY <2>3, <2>4 DEF ReadsLast, Op
<1> QED
  BY <1>2

\* When a read ends that is behind them, no session waits to be bound.
LEMMA ReadOver ==
  ASSUME Shapes, OneOp, NEW a \in Attempts, Runs1("load", a), Ended, ReadsLast(a)
  PROVE  \A b \in Attempts : ~On("init", b)' /\ ~On("seed", b)'
<1>1. Len(chain) \in Nat /\ Len(chain) > 0
  BY ChainType DEF Runs1
<1>2. PICK i \in 1..Len(chain) : /\ chain[i] = Op("load", a)
                                 /\ \A j \in i + 1..Len(chain) : chain[j].op # "init"
  BY DEF ReadsLast
<1>3. i = 1
  BY <1>1, <1>2 DEF OneOp, Runs1, Op
<1>4. ASSUME NEW k \in 1..Len(chain')
      PROVE  chain'[k].op \notin {"init", "seed"}
  <2>1. k + 1 \in 2..Len(chain) /\ chain'[k] = chain[k + 1]
    BY <1>1 DEF Ended
  <2>2. chain[k + 1].op # "init"
    BY <1>1, <1>2, <1>3, <2>1
  <2>3. chain[k + 1].op # "seed"
    BY <1>1, <2>1 DEF OneOp
  <2> QED
    BY <2>1, <2>2, <2>3
<1> QED
  BY <1>4 DEF On, Op

-----------------------------------------------------------------------------
(* The logs                                                                *)

\* To begin with is transitive.
LEMMA BeginsTrans ==
  ASSUME NEW s \in Events, NEW t \in Events, NEW u \in Events, Begins(s, t), Begins(t, u)
  PROVE  Begins(s, u)
BY LogLen DEF Begins

\* A session to be bound stays behind the others, whatever else the chain does.
LEMMA BehindQueued ==
  ASSUME Shapes, NEW a \in Attempts, NEW kind \in Ops \ {"init"}, Queued(kind, a)
  PROVE  \A b \in Attempts : Behind(b) => Behind(b)'
<1>1. Len(chain) \in Nat
  BY ChainType
<1>2. ASSUME NEW b \in Attempts, Behind(b), NEW j \in 1..Len(chain'),
             chain'[j].op = "init", chain'[j].for # b
      PROVE  \E i \in j + 1..Len(chain') : chain'[i] = Op("init", b)
  <2>1. j \in 1..Len(chain) /\ chain'[j] = chain[j]
    BY <1>1, <1>2 DEF Queued, Op
  <2>2. PICK i \in j + 1..Len(chain) : chain[i] = Op("init", b)
    BY <1>2, <2>1 DEF Behind
  <2>3. i \in j + 1..Len(chain') /\ chain'[i] = chain[i]
    BY <1>1, <2>1, <2>2 DEF Queued
  <2> QED
    BY <2>2, <2>3
<1> QED
  BY <1>2 DEF Behind, Op

\* It stays so when an operation ends,
LEMMA BehindEnded ==
  ASSUME Shapes, Len(chain) > 0, Ended
  PROVE  \A b \in Attempts : Behind(b) => Behind(b)'
<1>1. Len(chain) \in Nat
  BY ChainType
<1>2. ASSUME NEW b \in Attempts, Behind(b), NEW j \in 1..Len(chain'),
             chain'[j].op = "init", chain'[j].for # b
      PROVE  \E i \in j + 1..Len(chain') : chain'[i] = Op("init", b)
  <2>1. j + 1 \in 1..Len(chain) /\ chain'[j] = chain[j + 1]
    BY <1>1, <1>2 DEF Ended
  <2>2. PICK i \in (j + 1) + 1..Len(chain) : chain[i] = Op("init", b)
    BY <1>2, <2>1 DEF Behind
  <2>3. i - 1 \in j + 1..Len(chain') /\ chain'[i - 1] = chain[(i - 1) + 1] /\ (i - 1) + 1 = i
    BY <1>1, <2>1, <2>2 DEF Ended
  <2> QED
    BY <2>2, <2>3
<1> QED
  BY <1>2 DEF Behind, Op

\* and when one advances.
LEMMA BehindAdvanced ==
  ASSUME Shapes, Len(chain) > 0, NEW a \in Attempts, NEW kind \in Ops \ {"init"},
         Advanced(kind, a)
  PROVE  \A b \in Attempts : Behind(b) => Behind(b)'
<1>1. Len(chain) \in Nat
  BY ChainType
<1>2. ASSUME NEW b \in Attempts, Behind(b), NEW j \in 1..Len(chain'),
             chain'[j].op = "init", chain'[j].for # b
      PROVE  \E i \in j + 1..Len(chain') : chain'[i] = Op("init", b)
  <2>1. j \in 2..Len(chain) /\ chain'[j] = chain[j]
    BY <1>1, <1>2 DEF Advanced, Op
  <2>2. PICK i \in j + 1..Len(chain) : chain[i] = Op("init", b)
    BY <1>2, <2>1 DEF Behind
  <2>3. i \in j + 1..Len(chain') /\ chain'[i] = chain[i]
    BY <1>1, <2>1, <2>2 DEF Advanced
  <2> QED
    BY <2>2, <2>3
<1> QED
  BY <1>2 DEF Behind, Op

\* A log of which the store has the first part, once it was appended to.
LEMMA Grown ==
  ASSUME Shapes, NEW a \in Attempts, NEW n \in Nat, n <= Len(log[a]), Len(stored) <= n,
         Begins(stored, log[a]), state.cursor = Len(stored),
         stored' = stored \o SubSeq(log[a], state.cursor + 1, n)
  PROVE  Len(stored') = n /\ Begins(stored', log[a])
<1> DEFINE rest == SubSeq(log[a], state.cursor + 1, n)
<1>1. /\ stored \in Events /\ log[a] \in Events
      /\ Len(stored) \in Nat /\ Len(log[a]) \in Nat
  BY LogLen DEF Shapes
<1>2. /\ rest \in Events /\ Len(rest) = n - Len(stored)
      /\ \A i \in 1..n - Len(stored) : rest[i] = log[a][Len(stored) + i]
  BY <1>1, SliceIs
<1>3. stored' = stored \o rest
  OBVIOUS
<1> HIDE DEF rest
<1>4. /\ Len(stored') = n /\ \A i \in 1..Len(stored) : stored'[i] = stored[i]
      /\ \A i \in 1..Len(rest) : stored'[Len(stored) + i] = rest[i]
  BY <1>1, <1>2, <1>3, AppendedIs
<1>5. ASSUME NEW i \in 1..n
      PROVE  stored'[i] = log[a][i]
  <2>1. CASE i <= Len(stored)
    BY <1>1, <1>4, <2>1 DEF Begins
  <2>2. CASE i > Len(stored)
    <3>1. i - Len(stored) \in 1..n - Len(stored) /\ Len(stored) + (i - Len(stored)) = i
      BY <1>1, <2>2
    <3> QED
      BY <1>2, <1>4, <3>1
  <2> QED
    BY <1>1, <2>1, <2>2
<1> QED
  BY <1>4, <1>5 DEF Begins

\* Who owns the id stores the rest of its log.
LEMMA OwnerGrows ==
  ASSUME Shapes, Lives, Owners, NEW a \in Attempts, state.owner = a
  PROVE  /\ stored' = stored \o Suffix(log[a], state.cursor) =>
              Len(stored') = Len(log[a]) /\ Begins(stored', log[a])
         /\ /\ init[a] = "pending"
            /\ stored' = stored \o SubSeq(log[a], state.cursor + 1, saved[a])
            => Len(stored') = saved[a] /\ Begins(stored', log[a])
<1>1. /\ Begins(stored, log[a]) /\ state.cursor = Len(stored)
      /\ init[a] = "pending" => Len(stored) <= saved[a]
  BY DEF Owners, Continued
<1>2. /\ Len(log[a]) \in Nat /\ Len(log[a]) <= Len(log[a]) /\ Len(stored) <= Len(log[a])
      /\ saved[a] \in Nat /\ saved[a] <= Len(log[a])
  BY <1>1, LogLen DEF Shapes, Lives, Lived, Begins
<1>3. ASSUME stored' = stored \o SubSeq(log[a], state.cursor + 1, Len(log[a]))
      PROVE  Len(stored') = Len(log[a]) /\ Begins(stored', log[a])
  BY <1>1, <1>2, <1>3, Grown, Zenon
<1>4. ASSUME init[a] = "pending", stored' = stored \o SubSeq(log[a], state.cursor + 1, saved[a])
      PROVE  Len(stored') = saved[a] /\ Begins(stored', log[a])
  BY <1>1, <1>2, <1>4, Grown, Zenon
<1> QED
  BY <1>3, <1>4 DEF Suffix

\* A session that may be bound continues the stored log.
LEMMA Bindable ==
  ASSUME Shapes, Lives, NEW a \in Attempts, ~Collides(a)
  PROVE  /\ Len(stored) <= saved[a] /\ Begins(stored, log[a])
         /\ state.owner # Nobody => stored = <<>> /\ ~HasWork(state.owner)
<1>1. /\ stored \in Events /\ log[a] \in Events /\ saved[a] \in Nat
      /\ saved[a] <= Len(log[a]) /\ Len(stored) \in Nat
  BY LogLen DEF Shapes, Lives, Lived
<1>2. /\ Prefix(log[a], saved[a]) \in Events /\ Len(Prefix(log[a], saved[a])) = saved[a]
      /\ \A i \in 1..saved[a] : Prefix(log[a], saved[a])[i] = log[a][i]
  BY <1>1, PrefixIs
<1>3. IsPrefix(stored, Prefix(log[a], saved[a]))
  BY DEF Collides
<1>4. /\ Len(stored) <= saved[a]
      /\ \A i \in 1..Len(stored) : stored[i] = Prefix(log[a], saved[a])[i]
  BY <1>1, <1>2, <1>3, PrefixAt
<1> QED
  BY <1>1, <1>2, <1>4 DEF Begins, Collides

\* What was stored stays so, when the log grows.
LEMMA KeptGrows ==
  ASSUME Shapes, Shapes', Begins(stored, stored'), NEW b \in Attempts, Kept(b),
         init'[b] = "ready" => init[b] = "ready" /\ saved'[b] = saved[b],
         retired'[b] = "done" => retired[b] = "done",
         init[b] = "ready" \/ retired[b] = "done" => log'[b] = log[b]
  PROVE  Kept(b)'
<1>1. /\ stored \in Events /\ stored' \in Events /\ log[b] \in Events
      /\ saved[b] \in Nat /\ Len(stored) \in Nat /\ Len(stored') \in Nat
  BY LogLen DEF Shapes
<1>2. ASSUME init'[b] = "ready"
      PROVE  /\ saved'[b] <= Len(stored')
             /\ \A i \in 1..saved'[b] : log'[b][i] = stored'[i]
  BY <1>1, <1>2 DEF Kept, Begins
<1>3. ASSUME retired'[b] = "done"
      PROVE  Begins(log'[b], stored')
  BY <1>1, <1>3, BeginsTrans DEF Kept
<1> QED
  BY <1>2, <1>3 DEF Kept, Begins

\* A log that is its own from one position is so from every later one.
LEMMA OwnLess ==
  ASSUME Shapes, NEW a \in Attempts, NEW m \in Nat, NEW n \in Nat, m <= n, Own(a, m)
  PROVE  Own(a, n)
<1>1. Len(log[a]) \in Nat
  BY LogLen DEF Shapes
<1> QED
  BY <1>1 DEF Own

\* No step leaves the phases the code knows.
LEMMA TypeStep ==
  ASSUME TypeOK, Shapes, OpFits, Held, Lives, Held', [Next]_vars
  PROVE  TypeOK'
<1> USE OwnershipAssumption
<1>1. ASSUME NEW a \in Attempts, Begin(a)
      PROVE  TypeOK'
  BY <1>1 DEF TypeOK, Shapes, Held, Lives, Lived, Counts, Someone, Views, Places, Begin,
     Retiring, disk, pool, session, retiring
<1>2. ASSUME NEW a \in Attempts, EnterIs(a)
      PROVE  TypeOK'
  BY <1>2 DEF TypeOK, Shapes, Held, Lives, Lived, Counts, Someone, Views, Places, EnterIs,
     Moves, Sees, EntryIs
<1>3. ASSUME NEW a \in Attempts, RetirementFailed(a)
      PROVE  TypeOK'
  BY <1>3 DEF TypeOK, Shapes, Held, Lives, Lived, Counts, Someone, Views, Places,
     RetirementFailed, Over, Move, disk, pool, session, retiring
<1>4. ASSUME NEW a \in Attempts, LoadIs(a)
      PROVE  TypeOK'
  BY <1>4 DEF TypeOK, Shapes, Held, Lives, Lived, Counts, Someone, Views, Places, LoadIs,
     NoEntryLeft, EntryIs
<1>5. ASSUME NEW a \in Attempts, ShareIs(a)
      PROVE  TypeOK'
  BY <1>5 DEF TypeOK, Shapes, Held, Lives, Lived, Counts, Someone, Views, Places, ShareIs,
     Moves, Leaves, Sees, EntryIs
<1>6. ASSUME NEW a \in Attempts, CommitIs(a)
      PROVE  TypeOK'
  <2>0. Fits("commit", a)
    BY <1>6, HeadFits DEF CommitIs, Ops
  <2>1. /\ pc' \in [Attempts -> Places]
        /\ awaited' \in [Attempts -> Attempts \cup {Nobody}]
    BY <1>6, <2>0 DEF TypeOK, Someone, Places, CommitIs, Moves, Fits
  <2>2. seen' \in [Attempts -> {"none", "current", "stale", "error"} \cup Attempts]
    BY <1>6, <2>0 DEF TypeOK, Views, CommitIs, Removes, Drops, Leaves, Sees, NoEntryLeft,
       EntryIs, Fits
  <2>3. /\ init' \in [Attempts -> {"none", "pending", "ready", "failed"}]
        /\ retired' \in [Attempts -> {"no", "pending", "done", "failed"}]
    BY <1>6, <2>0 DEF TypeOK, CommitIs, Fits
  <2>4. /\ entry'.phase \in {"none", "loading", "ready", "committing", "reserved"}
        /\ entry'.phase \in {"none", "ready"} <=> entry'.holder = Nobody
    BY <1>6, <2>0 DEF TypeOK, Shapes, Someone, CommitIs, Removes, Drops, Leaves, Sees,
       NoEntryLeft, EntryIs, Fits
  <2>5. entry'.phase \in {"committing", "reserved"} =>
          pc'[entry'.holder] \in {"committing", "committed", "setup", "refused"}
    BY <1>6, <2>0 DEF TypeOK, Held, CommitIs, Fits
  <2>6. live' # Nobody => pc'[live'] \in {"published", "refused"}
    BY <1>6, <2>0 DEF TypeOK, Shapes, Someone, CommitIs, Moves, Fits
  <2> QED
    BY <2>1, <2>2, <2>3, <2>4, <2>5, <2>6 DEF TypeOK
<1>7. ASSUME NEW a \in Attempts, ReserveIs(a)
      PROVE  TypeOK'
  BY <1>7 DEF TypeOK, Shapes, Held, Lives, Lived, Counts, Someone, Views, Places,
     ReserveIs, Moves, Removes, Drops, Leaves, Sees, NoEntryLeft, EntryIs, Frees
<1>8. ASSUME NEW a \in Attempts, CreateIs(a)
      PROVE  TypeOK'
  BY <1>8 DEF TypeOK, Shapes, Held, Lives, Lived, Counts, Someone, Views, Places,
     CreateIs, Moves
<1>9. ASSUME NEW a \in Attempts, AbortIs(a)
      PROVE  TypeOK'
  BY <1>9 DEF TypeOK, Shapes, Held, Lives, Lived, Counts, Someone, Views, Places, AbortIs,
     Moves, Removes, Drops, Leaves, Sees, NoEntryLeft, EntryIs
<1>10. ASSUME NEW a \in Attempts, UnwindIs(a)
      PROVE  TypeOK'
  BY <1>10 DEF TypeOK, Shapes, Held, Lives, Lived, Counts, Someone, Views, Places,
     UnwindIs, Moves, Releases, Reserved, Reusable, Removes, Drops, Leaves, Sees,
     NoEntryLeft, EntryIs, Frees
<1>11. ASSUME NEW a \in Attempts, PublishIs(a)
      PROVE  TypeOK'
  <2>1. /\ pc' \in [Attempts -> Places]
        /\ awaited' \in [Attempts -> Attempts \cup {Nobody}]
    BY <1>11 DEF TypeOK, Someone, Places, PublishIs, Moves
  <2>2. seen' \in [Attempts -> {"none", "current", "stale", "error"} \cup Attempts]
    BY <1>11 DEF TypeOK, Views, PublishIs, Attachable, Reserved, Removes, Drops, Leaves,
       Sees, NoEntryLeft, EntryIs
  <2>3. /\ init' \in [Attempts -> {"none", "pending", "ready", "failed"}]
        /\ retired' \in [Attempts -> {"no", "pending", "done", "failed"}]
    BY <1>11 DEF TypeOK, PublishIs
  <2>4. /\ entry'.phase \in {"none", "loading", "ready", "committing", "reserved"}
        /\ entry'.phase \in {"none", "ready"} <=> entry'.holder = Nobody
    BY <1>11 DEF TypeOK, Shapes, Someone, PublishIs, Attachable, Reserved, Removes, Drops,
       Leaves, Sees, NoEntryLeft, EntryIs
  <2>5. entry'.phase \in {"committing", "reserved"} =>
          pc'[entry'.holder] \in {"committing", "committed", "setup", "refused"}
    BY <1>11 DEF TypeOK, Held, PublishIs
  <2>6. live' # Nobody => pc'[live'] \in {"published", "refused"}
    BY <1>11 DEF TypeOK, Shapes, Someone, PublishIs, Moves
  <2> QED
    BY <2>1, <2>2, <2>3, <2>4, <2>5, <2>6 DEF TypeOK
<1>12. ASSUME NEW a \in Attempts, LogIs(a)
      PROVE  TypeOK'
  BY <1>12 DEF TypeOK, Shapes, Held, Lives, Lived, Counts, Someone, Views, Places, LogIs
<1>13. ASSUME NEW a \in Attempts, Detach(a)
      PROVE  TypeOK'
  BY <1>13 DEF TypeOK, Shapes, Held, Lives, Lived, Counts, Someone, Views, Places, Detach,
     Goto, Move, disk, pool, session
<1>14. ASSUME NEW a \in Attempts, BindIs(a)
      PROVE  TypeOK'
  BY <1>14 DEF TypeOK, BindIs
<1>15. ASSUME NEW a \in Attempts, SeedIs(a)
      PROVE  TypeOK'
  BY <1>15 DEF TypeOK, SeedIs, Appends, Invalidates, NoEntryLeft, EntryIs, Views
<1>16. ASSUME NEW a \in Attempts, StartWriteIs(a)
      PROVE  TypeOK'
  BY <1>16 DEF TypeOK, Shapes, Held, Lives, Lived, Counts, Someone, Views, Places,
     StartWriteIs
<1>17. ASSUME NEW a \in Attempts, WriteIs(a)
      PROVE  TypeOK'
  BY <1>17 DEF TypeOK, Shapes, Held, Lives, Lived, Counts, Someone, Views, Places,
     WriteIs, Writable
<1>18. ASSUME NEW a \in Attempts, WrittenIs(a)
      PROVE  TypeOK'
  BY <1>18 DEF TypeOK, Shapes, Held, Lives, Lived, Counts, Someone, Views, Places,
     WrittenIs, Invalidates, NoEntryLeft, EntryIs, Appends
<1>19. ASSUME NEW a \in Attempts, WriteFailsIs(a)
      PROVE  TypeOK'
  BY <1>19 DEF TypeOK, WriteFailsIs
<1>20. ASSUME NEW a \in Attempts, RetireIs(a)
      PROVE  TypeOK'
  BY <1>20 DEF TypeOK, RetireIs
<1>21. ASSUME NEW a \in Attempts, FinalIs(a)
      PROVE  TypeOK'
  BY <1>21 DEF TypeOK, Shapes, Held, Lives, Lived, Counts, Someone, Views, Places,
     FinalIs, Unowned
<1>22. CASE Foreign
  BY <1>22 DEF TypeOK, Shapes, Held, Lives, Lived, Counts, Someone, Views, Places,
     Foreign, pool, calls, session, retiring
<1>23. CASE UNCHANGED vars
  BY <1>23 DEF TypeOK, Shapes, Held, Lives, Lived, Counts, Someone, Views, Places, vars,
     disk, pool, calls, session, retiring
<1> QED
  BY Does, <1>1, <1>2, <1>3, <1>4, <1>5, <1>6, <1>7, <1>8, <1>9, <1>10, <1>11, <1>12,
     <1>13, <1>14, <1>15, <1>16, <1>17, <1>18, <1>19, <1>20, <1>21, <1>22, <1>23

\* Every step leaves an entry that is committed or reserved to who holds it.
LEMMA HeldStep ==
  ASSUME TypeOK, Shapes, OpFits, Lives, Held, Sources, Owners, [Next]_vars
  PROVE  Held'
<1> USE OwnershipAssumption
<1>1. ASSUME NEW a \in Attempts, Begin(a)
      PROVE  Held'
  BY <1>1 DEF TypeOK, Shapes, Held, Counts, Someone, Reserved, Begin, Retiring, disk,
     pool, session, retiring
<1>2. ASSUME NEW a \in Attempts, EnterIs(a)
      PROVE  Held'
  BY <1>2 DEF TypeOK, Shapes, Held, Counts, Someone, Reserved, EnterIs, Moves, Sees,
     EntryIs
<1>3. ASSUME NEW a \in Attempts, RetirementFailed(a)
      PROVE  Held'
  BY <1>3 DEF TypeOK, Shapes, Held, Counts, Someone, Reserved, RetirementFailed, Over,
     Move, disk, pool, session, retiring
<1>4. ASSUME NEW a \in Attempts, LoadIs(a)
      PROVE  Held'
  <2>1. ASSUME NEW b \in Attempts
        PROVE  Counts(b)'
    <3>1. CASE b = a
      BY <1>4, <3>1 DEF Held, Counts, Reserved, TypeOK, Someone, LoadIs, NoEntryLeft,
         EntryIs
    <3>2. CASE b # a
      BY <1>4, <3>2 DEF Held, Counts, Reserved, TypeOK, Someone, LoadIs, NoEntryLeft,
         EntryIs
    <3> QED
      BY <3>1, <3>2
  <2>2. /\ entry'.phase = "committing" =>
             pc'[entry'.holder] \in {"committing", "committed"} /\ seen'[entry'.holder] = "current"
        /\ entry'.phase = "reserved" =>
             pc'[entry'.holder] = "setup" /\ seen'[entry'.holder] = "current"
    BY <1>4 DEF Shapes, Held, Counts, Reserved, TypeOK, Someone, LoadIs, NoEntryLeft,
       EntryIs
  <2> QED
    BY <2>1, <2>2 DEF Held
<1>5. ASSUME NEW a \in Attempts, ShareIs(a)
      PROVE  Held'
  <2>1. ASSUME NEW b \in Attempts
        PROVE  Counts(b)'
    <3>1. CASE b = a
      BY <1>5, <3>1 DEF Held, Counts, Reserved, TypeOK, Someone, ShareIs, Moves, Leaves,
         Sees, EntryIs
    <3>2. CASE b # a
      BY <1>5, <3>2 DEF Held, Counts, Reserved, TypeOK, Someone, ShareIs, Moves, Leaves,
         Sees, EntryIs
    <3> QED
      BY <3>1, <3>2
  <2>2. /\ entry'.phase = "committing" =>
             pc'[entry'.holder] \in {"committing", "committed"} /\ seen'[entry'.holder] = "current"
        /\ entry'.phase = "reserved" =>
             pc'[entry'.holder] = "setup" /\ seen'[entry'.holder] = "current"
    BY <1>5 DEF Shapes, Held, Counts, Reserved, TypeOK, Someone, ShareIs, Moves, Leaves,
       Sees, EntryIs
  <2> QED
    BY <2>1, <2>2 DEF Held
<1>6. ASSUME NEW a \in Attempts, CommitIs(a)
      PROVE  Held'
  <2>0. Fits("commit", a)
    BY <1>6, HeadFits DEF CommitIs, Ops
  <2>1. ASSUME NEW b \in Attempts
        PROVE  Counts(b)'
    <3>1. CASE b = a
      BY <1>6, <2>0, <3>1 DEF Held, Counts, Reserved, TypeOK, Someone, Fits, CommitIs,
         Moves, Removes, Drops, Leaves, Sees, NoEntryLeft, EntryIs
    <3>2. CASE b # a
      BY <1>6, <2>0, <3>2 DEF Held, Counts, Reserved, TypeOK, Someone, Fits, CommitIs,
         Moves, Removes, Drops, Leaves, Sees, NoEntryLeft, EntryIs
    <3> QED
      BY <3>1, <3>2
  <2>2. /\ entry'.phase = "committing" =>
             pc'[entry'.holder] \in {"committing", "committed"} /\ seen'[entry'.holder] = "current"
        /\ entry'.phase = "reserved" =>
             pc'[entry'.holder] = "setup" /\ seen'[entry'.holder] = "current"
    BY <1>6, <2>0 DEF Shapes, Held, Counts, Reserved, TypeOK, Someone, Fits, CommitIs,
       Moves, Removes, Drops, Leaves, Sees, NoEntryLeft, EntryIs
  <2> QED
    BY <2>1, <2>2 DEF Held
<1>7. ASSUME NEW a \in Attempts, ReserveIs(a)
      PROVE  Held'
  <2>1. ASSUME NEW b \in Attempts
        PROVE  Counts(b)'
    <3>1. CASE b = a
      BY <1>7, <3>1 DEF Held, Counts, Reserved, TypeOK, Someone, ReserveIs, Moves,
         Removes, Drops, Leaves, Sees, NoEntryLeft, EntryIs, Frees
    <3>2. CASE b # a
      BY <1>7, <3>2 DEF Held, Counts, Reserved, TypeOK, Someone, ReserveIs, Moves,
         Removes, Drops, Leaves, Sees, NoEntryLeft, EntryIs, Frees
    <3> QED
      BY <3>1, <3>2
  <2>2. /\ entry'.phase = "committing" =>
             pc'[entry'.holder] \in {"committing", "committed"} /\ seen'[entry'.holder] = "current"
        /\ entry'.phase = "reserved" =>
             pc'[entry'.holder] = "setup" /\ seen'[entry'.holder] = "current"
    BY <1>7 DEF Shapes, Held, Counts, Reserved, TypeOK, Someone, ReserveIs, Moves,
       Removes, Drops, Leaves, Sees, NoEntryLeft, EntryIs, Frees
  <2> QED
    BY <2>1, <2>2 DEF Held
<1>8. ASSUME NEW a \in Attempts, CreateIs(a)
      PROVE  Held'
  BY <1>8 DEF TypeOK, Shapes, Held, Counts, Someone, Reserved, CreateIs, Moves
<1>9. ASSUME NEW a \in Attempts, AbortIs(a)
      PROVE  Held'
  <2>1. ASSUME NEW b \in Attempts
        PROVE  Counts(b)'
    <3>1. CASE b = a
      BY <1>9, <3>1 DEF Held, Counts, Reserved, TypeOK, Someone, AbortIs, Moves, Removes,
         Drops, Leaves, Sees, NoEntryLeft, EntryIs
    <3>2. CASE b # a
      BY <1>9, <3>2 DEF Held, Counts, Reserved, TypeOK, Someone, AbortIs, Moves, Removes,
         Drops, Leaves, Sees, NoEntryLeft, EntryIs
    <3> QED
      BY <3>1, <3>2
  <2>2. /\ entry'.phase = "committing" =>
             pc'[entry'.holder] \in {"committing", "committed"} /\ seen'[entry'.holder] = "current"
        /\ entry'.phase = "reserved" =>
             pc'[entry'.holder] = "setup" /\ seen'[entry'.holder] = "current"
    BY <1>9 DEF Shapes, Held, Counts, Reserved, TypeOK, Someone, AbortIs, Moves, Removes,
       Drops, Leaves, Sees, NoEntryLeft, EntryIs
  <2> QED
    BY <2>1, <2>2 DEF Held
<1>10. ASSUME NEW a \in Attempts, UnwindIs(a)
      PROVE  Held'
  <2>1. ASSUME NEW b \in Attempts
        PROVE  Counts(b)'
    <3>1. CASE b = a
      BY <1>10, <3>1 DEF Held, Counts, Reserved, TypeOK, Someone, UnwindIs, Moves,
         Releases, Reserved, Reusable, Removes, Drops, Leaves, Sees, NoEntryLeft, EntryIs,
         Frees
    <3>2. CASE b # a
      BY <1>10, <3>2 DEF Held, Counts, Reserved, TypeOK, Someone, UnwindIs, Moves,
         Releases, Reserved, Reusable, Removes, Drops, Leaves, Sees, NoEntryLeft, EntryIs,
         Frees
    <3> QED
      BY <3>1, <3>2
  <2>2. /\ entry'.phase = "committing" =>
             pc'[entry'.holder] \in {"committing", "committed"} /\ seen'[entry'.holder] = "current"
        /\ entry'.phase = "reserved" =>
             pc'[entry'.holder] = "setup" /\ seen'[entry'.holder] = "current"
    BY <1>10 DEF Shapes, Held, Counts, Reserved, TypeOK, Someone, UnwindIs, Moves,
       Releases, Reserved, Reusable, Removes, Drops, Leaves, Sees, NoEntryLeft, EntryIs,
       Frees
  <2> QED
    BY <2>1, <2>2 DEF Held
<1>11. ASSUME NEW a \in Attempts, PublishIs(a)
      PROVE  Held'
  <2>0. Reserved(a) => Attachable(a)
    BY DEF Sources, Settled, Reserved, Attachable
  <2>1. ASSUME NEW b \in Attempts
        PROVE  Counts(b)'
    <3>1. CASE b = a
      BY <1>11, <2>0, <3>1 DEF Held, Counts, Reserved, TypeOK, Someone, PublishIs, Moves,
         Attachable, Reserved, Removes, Drops, Leaves, Sees, NoEntryLeft, EntryIs
    <3>2. CASE b # a
      BY <1>11, <2>0, <3>2 DEF Held, Counts, Reserved, TypeOK, Someone, PublishIs, Moves,
         Attachable, Reserved, Removes, Drops, Leaves, Sees, NoEntryLeft, EntryIs
    <3> QED
      BY <3>1, <3>2
  <2>2. /\ entry'.phase = "committing" =>
             pc'[entry'.holder] \in {"committing", "committed"} /\ seen'[entry'.holder] = "current"
        /\ entry'.phase = "reserved" =>
             pc'[entry'.holder] = "setup" /\ seen'[entry'.holder] = "current"
    BY <1>11, <2>0 DEF Shapes, Held, Counts, Reserved, TypeOK, Someone, PublishIs, Moves,
       Attachable, Reserved, Removes, Drops, Leaves, Sees, NoEntryLeft, EntryIs
  <2> QED
    BY <2>1, <2>2 DEF Held
<1>12. ASSUME NEW a \in Attempts, LogIs(a)
      PROVE  Held'
  BY <1>12 DEF TypeOK, Shapes, Held, Counts, Someone, Reserved, LogIs
<1>13. ASSUME NEW a \in Attempts, Detach(a)
      PROVE  Held'
  BY <1>13 DEF TypeOK, Shapes, Held, Counts, Someone, Reserved, Detach, Goto, Move, disk,
     pool, session
<1>14. ASSUME NEW a \in Attempts, BindIs(a)
      PROVE  Held'
  BY <1>14 DEF TypeOK, Shapes, Held, Counts, Someone, Reserved, BindIs, Writable
<1>15. ASSUME NEW a \in Attempts, SeedIs(a)
      PROVE  Held'
  <2>0. state.owner = a
    BY <1>15, OwnerRuns DEF SeedIs
  <2>9. /\ entry.phase # "reserved"
         /\ \A b \in Attempts : ~(pc[b] = "committed" /\ seen[b] = "current")
    BY <2>0 DEF Sources, Settled, Held, Counts
  <2>1. ASSUME NEW b \in Attempts
        PROVE  Counts(b)'
    <3>1. CASE b = a
      BY <1>15, <2>9, <3>1 DEF Held, Counts, Reserved, TypeOK, Someone, SeedIs,
         Invalidates, NoEntryLeft, EntryIs, Appends
    <3>2. CASE b # a
      BY <1>15, <2>9, <3>2 DEF Held, Counts, Reserved, TypeOK, Someone, SeedIs,
         Invalidates, NoEntryLeft, EntryIs, Appends
    <3> QED
      BY <3>1, <3>2
  <2>2. /\ entry'.phase = "committing" =>
             pc'[entry'.holder] \in {"committing", "committed"} /\ seen'[entry'.holder] = "current"
        /\ entry'.phase = "reserved" =>
             pc'[entry'.holder] = "setup" /\ seen'[entry'.holder] = "current"
    BY <1>15, <2>9 DEF Shapes, Held, Counts, Reserved, TypeOK, Someone, SeedIs,
       Invalidates, NoEntryLeft, EntryIs, Appends
  <2> QED
    BY <2>1, <2>2 DEF Held
<1>16. ASSUME NEW a \in Attempts, StartWriteIs(a)
      PROVE  Held'
  BY <1>16 DEF TypeOK, Shapes, Held, Counts, Someone, Reserved, StartWriteIs
<1>17. ASSUME NEW a \in Attempts, WriteIs(a)
      PROVE  Held'
  BY <1>17 DEF TypeOK, Shapes, Held, Counts, Someone, Reserved, WriteIs, Writable
<1>18. ASSUME NEW a \in Attempts, WrittenIs(a)
      PROVE  Held'
  <2>0. state.owner = a
    BY <1>18, OwnerRuns DEF WrittenIs
  <2>9. /\ entry.phase # "reserved"
         /\ \A b \in Attempts : ~(pc[b] = "committed" /\ seen[b] = "current")
    BY <2>0 DEF Sources, Settled, Held, Counts
  <2>1. ASSUME NEW b \in Attempts
        PROVE  Counts(b)'
    <3>1. CASE b = a
      BY <1>18, <2>9, <3>1 DEF Held, Counts, Reserved, TypeOK, Someone, WrittenIs,
         Invalidates, NoEntryLeft, EntryIs, Appends
    <3>2. CASE b # a
      BY <1>18, <2>9, <3>2 DEF Held, Counts, Reserved, TypeOK, Someone, WrittenIs,
         Invalidates, NoEntryLeft, EntryIs, Appends
    <3> QED
      BY <3>1, <3>2
  <2>2. /\ entry'.phase = "committing" =>
             pc'[entry'.holder] \in {"committing", "committed"} /\ seen'[entry'.holder] = "current"
        /\ entry'.phase = "reserved" =>
             pc'[entry'.holder] = "setup" /\ seen'[entry'.holder] = "current"
    BY <1>18, <2>9 DEF Shapes, Held, Counts, Reserved, TypeOK, Someone, WrittenIs,
       Invalidates, NoEntryLeft, EntryIs, Appends
  <2> QED
    BY <2>1, <2>2 DEF Held
<1>19. ASSUME NEW a \in Attempts, WriteFailsIs(a)
      PROVE  Held'
  BY <1>19 DEF TypeOK, Shapes, Held, Counts, Someone, Reserved, WriteFailsIs
<1>20. ASSUME NEW a \in Attempts, RetireIs(a)
      PROVE  Held'
  BY <1>20 DEF TypeOK, Shapes, Held, Counts, Someone, Reserved, RetireIs
<1>21. ASSUME NEW a \in Attempts, FinalIs(a)
      PROVE  Held'
  BY <1>21 DEF TypeOK, Shapes, Held, Counts, Someone, Reserved, FinalIs, Unowned
<1>22. CASE Foreign
  BY <1>22 DEF TypeOK, Shapes, Held, Counts, Someone, Reserved, Foreign, pool, calls,
     session, retiring
<1>23. CASE UNCHANGED vars
  BY <1>23 DEF TypeOK, Shapes, Held, Counts, Someone, Reserved, vars, disk, pool, calls,
     session, retiring
<1> QED
  BY Does, <1>1, <1>2, <1>3, <1>4, <1>5, <1>6, <1>7, <1>8, <1>9, <1>10, <1>11, <1>12,
     <1>13, <1>14, <1>15, <1>16, <1>17, <1>18, <1>19, <1>20, <1>21, <1>22, <1>23

\* Every step leaves each Session at its place.
LEMMA LivesStep ==
  ASSUME TypeOK, Shapes, OpFits, Lives, [Next]_vars
  PROVE  Lives'
<1> USE OwnershipAssumption
<1>1. ASSUME NEW a \in Attempts, Begin(a)
      PROVE  Lives'
  BY <1>1 DEF TypeOK, Shapes, Lives, Lived, Someone, Begin, Retiring, disk, pool, session,
     retiring
<1>2. ASSUME NEW a \in Attempts, EnterIs(a)
      PROVE  Lives'
  BY <1>2 DEF TypeOK, Shapes, Lives, Lived, Someone, EnterIs, Moves
<1>3. ASSUME NEW a \in Attempts, RetirementFailed(a)
      PROVE  Lives'
  BY <1>3 DEF TypeOK, Shapes, Lives, Lived, Someone, RetirementFailed, Over, Move, disk,
     pool, session, retiring
<1>4. ASSUME NEW a \in Attempts, LoadIs(a)
      PROVE  Lives'
  BY <1>4 DEF TypeOK, Shapes, Lives, Lived, Someone, LoadIs
<1>5. ASSUME NEW a \in Attempts, ShareIs(a)
      PROVE  Lives'
  BY <1>5 DEF TypeOK, Shapes, Lives, Lived, Someone, ShareIs, Moves
<1>6. ASSUME NEW a \in Attempts, CommitIs(a)
      PROVE  Lives'
  <2>0. Fits("commit", a)
    BY <1>6, HeadFits DEF CommitIs, Ops
  <2>1. ASSUME NEW b \in Attempts
        PROVE  Lived(b)'
    <3>1. CASE b = a
      BY <1>6, <2>0, <3>1 DEF Lives, Lived, TypeOK, Fits, CommitIs, Moves
    <3>2. CASE b # a
      BY <1>6, <2>0, <3>2 DEF Lives, Lived, TypeOK, Fits, CommitIs, Moves
    <3> QED
      BY <3>1, <3>2
  <2> QED
    BY <2>1 DEF Lives
<1>7. ASSUME NEW a \in Attempts, ReserveIs(a)
      PROVE  Lives'
  BY <1>7 DEF TypeOK, Shapes, Lives, Lived, Someone, ReserveIs, Moves
<1>8. ASSUME NEW a \in Attempts, CreateIs(a)
      PROVE  Lives'
  BY <1>8 DEF TypeOK, Shapes, Lives, Lived, Someone, CreateIs, Moves
<1>9. ASSUME NEW a \in Attempts, AbortIs(a)
      PROVE  Lives'
  BY <1>9 DEF TypeOK, Shapes, Lives, Lived, Someone, AbortIs, Moves
<1>10. ASSUME NEW a \in Attempts, UnwindIs(a)
      PROVE  Lives'
  BY <1>10 DEF TypeOK, Shapes, Lives, Lived, Someone, UnwindIs, Moves
<1>11. ASSUME NEW a \in Attempts, PublishIs(a)
      PROVE  Lives'
  BY <1>11 DEF TypeOK, Shapes, Lives, Lived, Someone, PublishIs, Moves
<1>12. ASSUME NEW a \in Attempts, LogIs(a)
      PROVE  Lives'
  BY <1>12, LogLen DEF Shapes, Lives, Lived, LogIs
<1>13. ASSUME NEW a \in Attempts, Detach(a)
      PROVE  Lives'
  BY <1>13 DEF TypeOK, Shapes, Lives, Lived, Someone, Detach, Goto, Move, disk, pool,
     session
<1>14. ASSUME NEW a \in Attempts, BindIs(a)
      PROVE  Lives'
  <2>0. Fits("init", a)
    BY <1>14, HeadFits DEF BindIs, Ops
  <2>1. ASSUME NEW b \in Attempts
        PROVE  Lived(b)'
    <3>1. CASE b = a
      BY <1>14, <2>0, <3>1 DEF TypeOK, Lives, Lived, Fits, BindIs
    <3>2. CASE b # a
      BY <1>14, <2>0, <3>2 DEF TypeOK, Lives, Lived, Fits, BindIs
    <3> QED
      BY <3>1, <3>2
  <2> QED
    BY <2>1 DEF Lives
<1>15. ASSUME NEW a \in Attempts, SeedIs(a)
      PROVE  Lives'
  <2>0. Fits("seed", a)
    BY <1>15, HeadFits DEF SeedIs, Ops
  <2>1. ASSUME NEW b \in Attempts
        PROVE  Lived(b)'
    <3>1. CASE b = a
      BY <1>15, <2>0, <3>1 DEF TypeOK, Lives, Lived, Fits, SeedIs
    <3>2. CASE b # a
      BY <1>15, <2>0, <3>2 DEF TypeOK, Lives, Lived, Fits, SeedIs
    <3> QED
      BY <3>1, <3>2
  <2> QED
    BY <2>1 DEF Lives
<1>16. ASSUME NEW a \in Attempts, StartWriteIs(a)
      PROVE  Lives'
  BY <1>16 DEF TypeOK, Shapes, Lives, Lived, Someone, StartWriteIs
<1>17. ASSUME NEW a \in Attempts, WriteIs(a)
      PROVE  Lives'
  BY <1>17 DEF TypeOK, Shapes, Lives, Lived, Someone, WriteIs
<1>18. ASSUME NEW a \in Attempts, WrittenIs(a)
      PROVE  Lives'
  <2>0. Fits("writing", a) \/ Fits("draining", a)
    BY <1>18, HeadFits DEF WrittenIs, Ops
  <2>9. saved \in [Attempts -> Nat] /\ Len(log[a]) \in Nat
    BY LogLen DEF Shapes
  <2>1. ASSUME NEW b \in Attempts
        PROVE  Lived(b)'
    <3>1. CASE b = a
      BY <1>18, <2>0, <2>9, <3>1 DEF TypeOK, Lives, Lived, Fits, WrittenIs
    <3>2. CASE b # a
      BY <1>18, <2>0, <2>9, <3>2 DEF TypeOK, Lives, Lived, Fits, WrittenIs
    <3> QED
      BY <3>1, <3>2
  <2> QED
    BY <2>1 DEF Lives
<1>19. ASSUME NEW a \in Attempts, WriteFailsIs(a)
      PROVE  Lives'
  <2>0. Fits(chain[1].op, a)
    BY <1>19, ChainType DEF OpFits, On, WriteFailsIs
  <2>1. ASSUME NEW b \in Attempts
        PROVE  Lived(b)'
    <3>1. CASE b = a
      BY <1>19, <2>0, <3>1 DEF Lives, Lived, TypeOK, Fits, WriteFailsIs
    <3>2. CASE b # a
      BY <1>19, <2>0, <3>2 DEF Lives, Lived, TypeOK, Fits, WriteFailsIs
    <3> QED
      BY <3>1, <3>2
  <2> QED
    BY <2>1 DEF Lives
<1>20. ASSUME NEW a \in Attempts, RetireIs(a)
      PROVE  Lives'
  BY <1>20 DEF TypeOK, Shapes, Lives, Lived, Someone, RetireIs
<1>21. ASSUME NEW a \in Attempts, FinalIs(a)
      PROVE  Lives'
  <2>0. Fits("final", a)
    BY <1>21, HeadFits DEF FinalIs, Ops
  <2>1. ASSUME NEW b \in Attempts
        PROVE  Lived(b)'
    <3>1. CASE b = a
      BY <1>21, <2>0, <3>1 DEF TypeOK, Lives, Lived, Fits, FinalIs
    <3>2. CASE b # a
      BY <1>21, <2>0, <3>2 DEF TypeOK, Lives, Lived, Fits, FinalIs
    <3> QED
      BY <3>1, <3>2
  <2> QED
    BY <2>1 DEF Lives
<1>22. CASE Foreign
  BY <1>22 DEF TypeOK, Shapes, Lives, Lived, Someone, Foreign, pool, calls, session,
     retiring
<1>23. CASE UNCHANGED vars
  BY <1>23 DEF TypeOK, Shapes, Lives, Lived, Someone, vars, disk, pool, calls, session,
     retiring
<1> QED
  BY Does, <1>1, <1>2, <1>3, <1>4, <1>5, <1>6, <1>7, <1>8, <1>9, <1>10, <1>11, <1>12,
     <1>13, <1>14, <1>15, <1>16, <1>17, <1>18, <1>19, <1>20, <1>21, <1>22, <1>23

\* Every step keeps the shapes.
LEMMA ShapesStep ==
  ASSUME TypeOK, Shapes, Lives, TypeOK', [Next]_vars
  PROVE  Shapes'
<1> USE OwnershipAssumption
<1>1. ASSUME NEW a \in Attempts, Begin(a)
      PROVE  Shapes'
  BY <1>1 DEF TypeOK, Shapes, Someone, Chains, Begin, Retiring, disk, pool, session,
     retiring
<1>2. ASSUME NEW a \in Attempts, EnterIs(a)
      PROVE  Shapes'
  <2>1. stored' \in Events
    BY <1>2, EmptyLog DEF Shapes, EnterIs, Moves
  <2>2. state' \in [tracked : BOOLEAN, owner : Someone, cursor : Nat]
    BY <1>2, EmptyLog DEF Shapes, Someone, EnterIs
  <2>3. entry' \in [phase : {"none", "loading", "ready", "committing", "reserved"},
                     source : Events, session : Events, holder : Someone]
    BY <1>2, EmptyLog DEF Shapes, Someone, EnterIs, Sees, EntryIs
  <2>4. chain' \in Seq([op : Ops, for : Attempts])
    BY <1>2, EmptyLog DEF Shapes, Chains, EnterIs, Queued, Op
  <2>5. /\ live' \in Someone /\ aborted' \subseteq Attempts
        /\ latest' \in Someone /\ foreign' \in Nat
    BY <1>2, EmptyLog DEF Shapes, Someone, EnterIs
  <2>6. log' \in [Attempts -> Events] /\ saved' \in [Attempts -> Nat]
    BY <1>2, EmptyLog DEF Shapes, Events, EnterIs
  <2> QED
    BY <2>1, <2>2, <2>3, <2>4, <2>5, <2>6 DEF Shapes
<1>3. ASSUME NEW a \in Attempts, RetirementFailed(a)
      PROVE  Shapes'
  BY <1>3 DEF TypeOK, Shapes, Someone, Chains, RetirementFailed, Over, Move, disk, pool,
     session, retiring
<1>4. ASSUME NEW a \in Attempts, LoadIs(a)
      PROVE  Shapes'
  <2>1. stored' \in Events
    BY <1>4, EmptyLog DEF Shapes, LoadIs
  <2>2. state' \in [tracked : BOOLEAN, owner : Someone, cursor : Nat]
    BY <1>4, EmptyLog DEF Shapes, Someone, LoadIs
  <2>3. entry' \in [phase : {"none", "loading", "ready", "committing", "reserved"},
                     source : Events, session : Events, holder : Someone]
    BY <1>4, EmptyLog DEF Shapes, Someone, LoadIs, NoEntryLeft, EntryIs
  <2>4. chain' \in Seq([op : Ops, for : Attempts])
    BY <1>4, EmptyLog DEF Shapes, Chains, LoadIs, Runs1, Op, Ended
  <2>5. /\ live' \in Someone /\ aborted' \subseteq Attempts
        /\ latest' \in Someone /\ foreign' \in Nat
    BY <1>4, EmptyLog DEF Shapes, Someone, LoadIs
  <2>6. log' \in [Attempts -> Events] /\ saved' \in [Attempts -> Nat]
    BY <1>4, EmptyLog DEF Shapes, Events, LoadIs
  <2> QED
    BY <2>1, <2>2, <2>3, <2>4, <2>5, <2>6 DEF Shapes
<1>5. ASSUME NEW a \in Attempts, ShareIs(a)
      PROVE  Shapes'
  BY <1>5 DEF TypeOK, Shapes, Someone, Chains, ShareIs, Moves, Leaves, Sees, EntryIs,
     Queued, Op
<1>6. ASSUME NEW a \in Attempts, CommitIs(a)
      PROVE  Shapes'
  <2>1. stored' \in Events
    <3>1. stored' = stored \/ stored' = Logged(stored, Repair)
      BY <1>6 DEF CommitIs
    <3>2. stored \in Events
      BY DEF Shapes
    <3> QED
      BY <3>1, <3>2, LoggedIs
  <2>2. state' \in [tracked : BOOLEAN, owner : Someone, cursor : Nat]
    <3>1. entry.source \in Events
      BY DEF Shapes
    <3>2. Len(entry.source) \in Nat
      BY <3>1, LogLen
    <3>3. state' = state \/ state' = [tracked |-> TRUE, owner |-> Nobody, cursor |-> Len(entry.source)]
      BY <1>6 DEF CommitIs
    <3>4. [tracked |-> TRUE, owner |-> Nobody, cursor |-> Len(entry.source)]
            \in [tracked : BOOLEAN, owner : Someone, cursor : Nat]
      BY <3>2 DEF Someone
    <3> QED
      BY <3>3, <3>4 DEF Shapes
  <2>3. entry' \in [phase : {"none", "loading", "ready", "committing", "reserved"},
                     source : Events, session : Events, holder : Someone]
    BY <1>6, EmptyLog DEF Shapes, Someone, CommitIs, Removes, Drops, Leaves, Sees,
       NoEntryLeft, EntryIs
  <2>4. chain' \in Seq([op : Ops, for : Attempts])
    BY <1>6, EmptyLog DEF Shapes, Chains, CommitIs, Runs1, Op, Ended
  <2>5. /\ live' \in Someone /\ aborted' \subseteq Attempts
        /\ latest' \in Someone /\ foreign' \in Nat
    BY <1>6, EmptyLog DEF Shapes, Someone, CommitIs
  <2>6. log' \in [Attempts -> Events] /\ saved' \in [Attempts -> Nat]
    BY <1>6, EmptyLog DEF Shapes, Events, CommitIs
  <2> QED
    BY <2>1, <2>2, <2>3, <2>4, <2>5, <2>6 DEF Shapes
<1>7. ASSUME NEW a \in Attempts, ReserveIs(a)
      PROVE  Shapes'
  <2>1. stored' \in Events
    BY <1>7, EmptyLog DEF Shapes, ReserveIs, Moves
  <2>2. state' \in [tracked : BOOLEAN, owner : Someone, cursor : Nat]
    BY <1>7, EmptyLog DEF Shapes, Someone, ReserveIs
  <2>3. entry' \in [phase : {"none", "loading", "ready", "committing", "reserved"},
                     source : Events, session : Events, holder : Someone]
    BY <1>7, EmptyLog DEF Shapes, Someone, ReserveIs, Removes, Drops, Leaves, Sees,
       NoEntryLeft, EntryIs, Frees
  <2>4. chain' \in Seq([op : Ops, for : Attempts])
    BY <1>7, EmptyLog DEF Shapes, Chains, ReserveIs
  <2>5. /\ live' \in Someone /\ aborted' \subseteq Attempts
        /\ latest' \in Someone /\ foreign' \in Nat
    BY <1>7, EmptyLog DEF Shapes, Someone, ReserveIs
  <2>6. log' \in [Attempts -> Events] /\ saved' \in [Attempts -> Nat]
    BY <1>7, EmptyLog DEF Shapes, Events, ReserveIs
  <2> QED
    BY <2>1, <2>2, <2>3, <2>4, <2>5, <2>6 DEF Shapes
<1>8. ASSUME NEW a \in Attempts, CreateIs(a)
      PROVE  Shapes'
  <2>1. stored' \in Events
    BY <1>8, EmptyLog DEF Shapes, CreateIs, Moves
  <2>2. state' \in [tracked : BOOLEAN, owner : Someone, cursor : Nat]
    BY <1>8, EmptyLog DEF Shapes, Someone, CreateIs
  <2>3. entry' \in [phase : {"none", "loading", "ready", "committing", "reserved"},
                     source : Events, session : Events, holder : Someone]
    BY <1>8, EmptyLog DEF Shapes, Someone, CreateIs
  <2>4. chain' \in Seq([op : Ops, for : Attempts])
    BY <1>8, EmptyLog DEF Shapes, Chains, CreateIs
  <2>5. /\ live' \in Someone /\ aborted' \subseteq Attempts
        /\ latest' \in Someone /\ foreign' \in Nat
    BY <1>8, EmptyLog DEF Shapes, Someone, CreateIs
  <2>6. log' \in [Attempts -> Events] /\ saved' \in [Attempts -> Nat]
    <3>1. log' = log \/ \E seed \in Events : log' = [log EXCEPT ![a] = seed]
      BY <1>8 DEF CreateIs
    <3>2. UNCHANGED saved
      BY <1>8 DEF CreateIs
    <3> QED
      BY <3>1, <3>2 DEF Shapes
  <2> QED
    BY <2>1, <2>2, <2>3, <2>4, <2>5, <2>6 DEF Shapes
<1>9. ASSUME NEW a \in Attempts, AbortIs(a)
      PROVE  Shapes'
  <2>1. stored' \in Events
    BY <1>9, EmptyLog DEF Shapes, AbortIs, Moves
  <2>2. state' \in [tracked : BOOLEAN, owner : Someone, cursor : Nat]
    BY <1>9, EmptyLog DEF Shapes, Someone, AbortIs
  <2>3. entry' \in [phase : {"none", "loading", "ready", "committing", "reserved"},
                     source : Events, session : Events, holder : Someone]
    BY <1>9, EmptyLog DEF Shapes, Someone, AbortIs, Removes, Drops, Leaves, Sees,
       NoEntryLeft, EntryIs
  <2>4. chain' \in Seq([op : Ops, for : Attempts])
    BY <1>9, EmptyLog DEF Shapes, Chains, AbortIs
  <2>5. /\ live' \in Someone /\ aborted' \subseteq Attempts
        /\ latest' \in Someone /\ foreign' \in Nat
    BY <1>9, EmptyLog DEF Shapes, Someone, AbortIs
  <2>6. log' \in [Attempts -> Events] /\ saved' \in [Attempts -> Nat]
    BY <1>9, EmptyLog DEF Shapes, Events, AbortIs
  <2> QED
    BY <2>1, <2>2, <2>3, <2>4, <2>5, <2>6 DEF Shapes
<1>10. ASSUME NEW a \in Attempts, UnwindIs(a)
      PROVE  Shapes'
  <2>1. stored' \in Events
    BY <1>10, EmptyLog DEF Shapes, UnwindIs, Moves
  <2>2. state' \in [tracked : BOOLEAN, owner : Someone, cursor : Nat]
    BY <1>10, EmptyLog DEF Shapes, Someone, UnwindIs
  <2>3. entry' \in [phase : {"none", "loading", "ready", "committing", "reserved"},
                     source : Events, session : Events, holder : Someone]
    BY <1>10, EmptyLog DEF Shapes, Someone, UnwindIs, Releases, Reserved, Reusable,
       Removes, Drops, Leaves, Sees, NoEntryLeft, EntryIs, Frees
  <2>4. chain' \in Seq([op : Ops, for : Attempts])
    BY <1>10, EmptyLog DEF Shapes, Chains, UnwindIs
  <2>5. /\ live' \in Someone /\ aborted' \subseteq Attempts
        /\ latest' \in Someone /\ foreign' \in Nat
    BY <1>10, EmptyLog DEF Shapes, Someone, UnwindIs
  <2>6. log' \in [Attempts -> Events] /\ saved' \in [Attempts -> Nat]
    BY <1>10, EmptyLog DEF Shapes, Events, UnwindIs
  <2> QED
    BY <2>1, <2>2, <2>3, <2>4, <2>5, <2>6 DEF Shapes
<1>11. ASSUME NEW a \in Attempts, PublishIs(a)
      PROVE  Shapes'
  <2>1. stored' \in Events
    BY <1>11, EmptyLog DEF Shapes, PublishIs, Moves
  <2>2. state' \in [tracked : BOOLEAN, owner : Someone, cursor : Nat]
    BY <1>11, EmptyLog DEF Shapes, Someone, PublishIs
  <2>3. entry' \in [phase : {"none", "loading", "ready", "committing", "reserved"},
                     source : Events, session : Events, holder : Someone]
    BY <1>11, EmptyLog DEF Shapes, Someone, PublishIs, Attachable, Reserved, Removes,
       Drops, Leaves, Sees, NoEntryLeft, EntryIs
  <2>4. chain' \in Seq([op : Ops, for : Attempts])
    BY <1>11, EmptyLog DEF Shapes, Chains, PublishIs, Queued, Op
  <2>5. /\ live' \in Someone /\ aborted' \subseteq Attempts
        /\ latest' \in Someone /\ foreign' \in Nat
    BY <1>11, EmptyLog DEF Shapes, Someone, PublishIs
  <2>6. log' \in [Attempts -> Events] /\ saved' \in [Attempts -> Nat]
    <3>1. Len(log[a]) \in Nat
      BY LogLen DEF Shapes
    <3>2. /\ log' = log
          /\ saved' = saved \/ saved' = [saved EXCEPT ![a] = Len(log[a])]
      BY <1>11 DEF PublishIs
    <3> QED
      BY <3>1, <3>2 DEF Shapes
  <2> QED
    BY <2>1, <2>2, <2>3, <2>4, <2>5, <2>6 DEF Shapes
<1>12. ASSUME NEW a \in Attempts, LogIs(a)
      PROVE  Shapes'
  <2>1. stored' \in Events
    BY <1>12, EmptyLog DEF Shapes, LogIs
  <2>2. state' \in [tracked : BOOLEAN, owner : Someone, cursor : Nat]
    BY <1>12, EmptyLog DEF Shapes, Someone, LogIs
  <2>3. entry' \in [phase : {"none", "loading", "ready", "committing", "reserved"},
                     source : Events, session : Events, holder : Someone]
    BY <1>12, EmptyLog DEF Shapes, Someone, LogIs
  <2>4. chain' \in Seq([op : Ops, for : Attempts])
    BY <1>12, EmptyLog DEF Shapes, Chains, LogIs
  <2>5. /\ live' \in Someone /\ aborted' \subseteq Attempts
        /\ latest' \in Someone /\ foreign' \in Nat
    BY <1>12, EmptyLog DEF Shapes, Someone, LogIs
  <2>6. log' \in [Attempts -> Events] /\ saved' \in [Attempts -> Nat]
    BY <1>12 DEF Shapes, LogIs
  <2> QED
    BY <2>1, <2>2, <2>3, <2>4, <2>5, <2>6 DEF Shapes
<1>13. ASSUME NEW a \in Attempts, Detach(a)
      PROVE  Shapes'
  BY <1>13 DEF TypeOK, Shapes, Someone, Chains, Detach, Goto, Move, disk, pool, session
<1>14. ASSUME NEW a \in Attempts, BindIs(a)
      PROVE  Shapes'
  <2>1. stored' \in Events
    BY <1>14, EmptyLog DEF Shapes, BindIs
  <2>2. state' \in [tracked : BOOLEAN, owner : Someone, cursor : Nat]
    <3>1. stored \in Events
      BY DEF Shapes
    <3>2. Len(stored) \in Nat
      BY <3>1, LogLen
    <3>3. state' = state \/ state' = [tracked |-> TRUE, owner |-> a, cursor |-> Len(stored)]
      BY <1>14 DEF BindIs
    <3>4. [tracked |-> TRUE, owner |-> a, cursor |-> Len(stored)]
            \in [tracked : BOOLEAN, owner : Someone, cursor : Nat]
      BY <3>2 DEF Someone
    <3> QED
      BY <3>3, <3>4 DEF Shapes
  <2>3. entry' \in [phase : {"none", "loading", "ready", "committing", "reserved"},
                     source : Events, session : Events, holder : Someone]
    BY <1>14, EmptyLog DEF Shapes, Someone, BindIs, Writable
  <2>4. chain' \in Seq([op : Ops, for : Attempts])
    BY <1>14, EmptyLog DEF Shapes, Chains, BindIs, Runs1, Op, Ended, Advanced
  <2>5. /\ live' \in Someone /\ aborted' \subseteq Attempts
        /\ latest' \in Someone /\ foreign' \in Nat
    BY <1>14, EmptyLog DEF Shapes, Someone, BindIs
  <2>6. log' \in [Attempts -> Events] /\ saved' \in [Attempts -> Nat]
    BY <1>14, EmptyLog DEF Shapes, Events, BindIs
  <2> QED
    BY <2>1, <2>2, <2>3, <2>4, <2>5, <2>6 DEF Shapes
<1>15. ASSUME NEW a \in Attempts, SeedIs(a)
      PROVE  Shapes'
  <2>1. stored' \in Events
    <3>1. SubSeq(log[a], state.cursor + 1, saved[a]) \in Events
      BY SliceIs, LogLen DEF Shapes, Suffix, Lives, Lived
    <3>2. stored \in Events
      BY DEF Shapes
    <3>3. stored' = stored \/ stored' = stored \o SubSeq(log[a], state.cursor + 1, saved[a])
      BY <1>15 DEF SeedIs, Appends
    <3> QED
      BY <3>1, <3>2, <3>3, AppendedIs
  <2>2. state' \in [tracked : BOOLEAN, owner : Someone, cursor : Nat]
    BY <1>15, <2>1, LogLen DEF Shapes, Someone, Appends, SeedIs
  <2>3. entry' \in [phase : {"none", "loading", "ready", "committing", "reserved"},
                     source : Events, session : Events, holder : Someone]
    <3>1. entry' = entry \/ entry' = [phase |-> "none", source |-> <<>>, session |-> <<>>,
                                      holder |-> Nobody]
      BY <1>15 DEF SeedIs, Appends, Invalidates, NoEntryLeft, EntryIs
    <3> QED
      BY <3>1, EmptyLog DEF Shapes, Someone
  <2>4. chain' \in Seq([op : Ops, for : Attempts])
    BY <1>15, EmptyLog DEF Shapes, Chains, SeedIs, Runs1, Op, Ended
  <2>5. /\ live' \in Someone /\ aborted' \subseteq Attempts
        /\ latest' \in Someone /\ foreign' \in Nat
    BY <1>15, EmptyLog DEF Shapes, Someone, SeedIs
  <2>6. log' \in [Attempts -> Events] /\ saved' \in [Attempts -> Nat]
    BY <1>15, EmptyLog DEF Shapes, Events, SeedIs
  <2> QED
    BY <2>1, <2>2, <2>3, <2>4, <2>5, <2>6 DEF Shapes
<1>16. ASSUME NEW a \in Attempts, StartWriteIs(a)
      PROVE  Shapes'
  BY <1>16 DEF TypeOK, Shapes, Someone, Chains, StartWriteIs, Queued, Op, HasOp
<1>17. ASSUME NEW a \in Attempts, WriteIs(a)
      PROVE  Shapes'
  BY <1>17 DEF TypeOK, Shapes, Someone, Chains, WriteIs, Writable, Runs1, Op, Advanced
<1>18. ASSUME NEW a \in Attempts, WrittenIs(a)
      PROVE  Shapes'
  <2>1. stored' \in Events
    <3>1. Suffix(log[a], state.cursor) \in Events
      BY SliceIs, LogLen DEF Shapes, Suffix, Lives, Lived
    <3>2. stored \in Events
      BY DEF Shapes
    <3>3. stored' = stored \/ stored' = stored \o Suffix(log[a], state.cursor)
      BY <1>18 DEF WrittenIs, Appends
    <3> QED
      BY <3>1, <3>2, <3>3, AppendedIs
  <2>2. state' \in [tracked : BOOLEAN, owner : Someone, cursor : Nat]
    BY <1>18, <2>1, LogLen DEF Shapes, Someone, Appends, WrittenIs
  <2>3. entry' \in [phase : {"none", "loading", "ready", "committing", "reserved"},
                     source : Events, session : Events, holder : Someone]
    <3>1. entry' = entry \/ entry' = [phase |-> "none", source |-> <<>>, session |-> <<>>,
                                      holder |-> Nobody]
      BY <1>18 DEF WrittenIs, Appends, Invalidates, NoEntryLeft, EntryIs
    <3> QED
      BY <3>1, EmptyLog DEF Shapes, Someone
  <2>4. chain' \in Seq([op : Ops, for : Attempts])
    BY <1>18, EmptyLog DEF Shapes, Chains, WrittenIs, Runs1, Op, Ended
  <2>5. /\ live' \in Someone /\ aborted' \subseteq Attempts
        /\ latest' \in Someone /\ foreign' \in Nat
    BY <1>18, EmptyLog DEF Shapes, Someone, WrittenIs
  <2>6. log' \in [Attempts -> Events] /\ saved' \in [Attempts -> Nat]
    BY <1>18, LogLen DEF Shapes, WrittenIs
  <2> QED
    BY <2>1, <2>2, <2>3, <2>4, <2>5, <2>6 DEF Shapes
<1>19. ASSUME NEW a \in Attempts, WriteFailsIs(a)
      PROVE  Shapes'
  BY <1>19 DEF TypeOK, Shapes, Someone, Chains, WriteFailsIs, Ended
<1>20. ASSUME NEW a \in Attempts, RetireIs(a)
      PROVE  Shapes'
  BY <1>20 DEF TypeOK, Shapes, Someone, Chains, RetireIs, Queued, Op, HasOp
<1>21. ASSUME NEW a \in Attempts, FinalIs(a)
      PROVE  Shapes'
  <2>1. stored' \in Events
    BY <1>21, EmptyLog DEF Shapes, FinalIs, Unowned
  <2>2. state' \in [tracked : BOOLEAN, owner : Someone, cursor : Nat]
    <3>1. Unowned \in [tracked : BOOLEAN, owner : Someone, cursor : Nat]
      BY DEF Unowned, Someone
    <3> QED
      BY <1>21, <3>1 DEF Shapes, FinalIs
  <2>3. entry' \in [phase : {"none", "loading", "ready", "committing", "reserved"},
                     source : Events, session : Events, holder : Someone]
    BY <1>21, EmptyLog DEF Shapes, Someone, FinalIs
  <2>4. chain' \in Seq([op : Ops, for : Attempts])
    BY <1>21, EmptyLog DEF Shapes, Chains, FinalIs, Runs1, Op, Ended
  <2>5. /\ live' \in Someone /\ aborted' \subseteq Attempts
        /\ latest' \in Someone /\ foreign' \in Nat
    BY <1>21, EmptyLog DEF Shapes, Someone, FinalIs
  <2>6. log' \in [Attempts -> Events] /\ saved' \in [Attempts -> Nat]
    BY <1>21, EmptyLog DEF Shapes, Events, FinalIs
  <2> QED
    BY <2>1, <2>2, <2>3, <2>4, <2>5, <2>6 DEF Shapes
<1>22. CASE Foreign
  <2>1. stored' \in Events
    BY <1>22, LoggedIs DEF Shapes, Foreign
  <2>2. state' \in [tracked : BOOLEAN, owner : Someone, cursor : Nat]
    BY <1>22, EmptyLog DEF Shapes, Someone, Foreign, pool, calls, session, retiring
  <2>3. entry' \in [phase : {"none", "loading", "ready", "committing", "reserved"},
                     source : Events, session : Events, holder : Someone]
    BY <1>22, EmptyLog DEF Shapes, Someone, Foreign, pool, calls, session, retiring
  <2>4. chain' \in Seq([op : Ops, for : Attempts])
    BY <1>22, EmptyLog DEF Shapes, Chains, Foreign, pool, calls, session, retiring
  <2>5. /\ live' \in Someone /\ aborted' \subseteq Attempts
        /\ latest' \in Someone /\ foreign' \in Nat
    BY <1>22, EmptyLog DEF Shapes, Someone, Foreign, pool, calls, session, retiring
  <2>6. log' \in [Attempts -> Events] /\ saved' \in [Attempts -> Nat]
    BY <1>22, EmptyLog DEF Shapes, Events, Foreign, pool, calls, session, retiring
  <2> QED
    BY <2>1, <2>2, <2>3, <2>4, <2>5, <2>6 DEF Shapes
<1>23. CASE UNCHANGED vars
  BY <1>23 DEF TypeOK, Shapes, Someone, Chains, vars, disk, pool, calls, session, retiring
<1> QED
  BY Does, <1>1, <1>2, <1>3, <1>4, <1>5, <1>6, <1>7, <1>8, <1>9, <1>10, <1>11, <1>12,
     <1>13, <1>14, <1>15, <1>16, <1>17, <1>18, <1>19, <1>20, <1>21, <1>22, <1>23

\* An operation is only queued by an attempt that has none.
LEMMA OneOpStep ==
  ASSUME TypeOK, Shapes, OneOp, OpFits, Lives, [Next]_vars
  PROVE  OneOp'
<1> USE OwnershipAssumption
<1>1. ASSUME NEW a \in Attempts, Begin(a)
      PROVE  OneOp'
  BY <1>1 DEF OneOp, Begin, Retiring, disk, pool, session, retiring
<1>2. ASSUME NEW a \in Attempts, EnterIs(a)
      PROVE  OneOp'
  <2>1. ~HasOp(a)
    BY <1>2, NothingQueued DEF EnterIs
  <2> QED
    BY <1>2, <2>1, OneOpQueued DEF EnterIs, Ops, OneOp
<1>3. ASSUME NEW a \in Attempts, RetirementFailed(a)
      PROVE  OneOp'
  BY <1>3 DEF OneOp, RetirementFailed, Over, Move, disk, pool, session, retiring
<1>4. ASSUME NEW a \in Attempts, LoadIs(a)
      PROVE  OneOp'
  BY <1>4, OneOpEnded DEF LoadIs, Runs1, OneOp
<1>5. ASSUME NEW a \in Attempts, ShareIs(a)
      PROVE  OneOp'
  <2>1. seen[a] = "current" /\ entry.phase = "ready" => ~HasOp(a)
    BY <1>5, NothingQueued DEF ShareIs
  <2> QED
    BY <1>5, <2>1, OneOpQueued DEF ShareIs, Ops, OneOp
<1>6. ASSUME NEW a \in Attempts, CommitIs(a)
      PROVE  OneOp'
  BY <1>6, OneOpEnded DEF CommitIs, Runs1, OneOp
<1>7. ASSUME NEW a \in Attempts, ReserveIs(a)
      PROVE  OneOp'
  BY <1>7 DEF OneOp, ReserveIs
<1>8. ASSUME NEW a \in Attempts, CreateIs(a)
      PROVE  OneOp'
  BY <1>8 DEF OneOp, CreateIs
<1>9. ASSUME NEW a \in Attempts, AbortIs(a)
      PROVE  OneOp'
  BY <1>9 DEF OneOp, AbortIs
<1>10. ASSUME NEW a \in Attempts, UnwindIs(a)
      PROVE  OneOp'
  BY <1>10 DEF OneOp, UnwindIs
<1>11. ASSUME NEW a \in Attempts, PublishIs(a)
      PROVE  OneOp'
  <2>1. ~HasOp(a)
    BY <1>11, NothingQueued DEF PublishIs
  <2> QED
    BY <1>11, <2>1, OneOpQueued DEF PublishIs, Ops, OneOp
<1>12. ASSUME NEW a \in Attempts, LogIs(a)
      PROVE  OneOp'
  BY <1>12 DEF OneOp, LogIs
<1>13. ASSUME NEW a \in Attempts, Detach(a)
      PROVE  OneOp'
  BY <1>13 DEF OneOp, Detach, Goto, Move, disk, pool, session
<1>14. ASSUME NEW a \in Attempts, BindIs(a)
      PROVE  OneOp'
  BY <1>14, OneOpEnded, OneOpAdvanced DEF BindIs, Runs1, Op, Ops
<1>15. ASSUME NEW a \in Attempts, SeedIs(a)
      PROVE  OneOp'
  BY <1>15, OneOpEnded DEF SeedIs, Runs1, OneOp
<1>16. ASSUME NEW a \in Attempts, StartWriteIs(a)
      PROVE  OneOp'
  <2>1. ~HasOp(a)
    BY <1>16 DEF StartWriteIs
  <2> QED
    BY <1>16, <2>1, OneOpQueued DEF StartWriteIs, Ops, OneOp
<1>17. ASSUME NEW a \in Attempts, WriteIs(a)
      PROVE  OneOp'
  BY <1>17, OneOpAdvanced DEF WriteIs, Runs1, Op, Ops
<1>18. ASSUME NEW a \in Attempts, WrittenIs(a)
      PROVE  OneOp'
  BY <1>18, OneOpEnded DEF WrittenIs, Runs1, OneOp
<1>19. ASSUME NEW a \in Attempts, WriteFailsIs(a)
      PROVE  OneOp'
  BY <1>19, OneOpEnded DEF WriteFailsIs, Runs1, OneOp
<1>20. ASSUME NEW a \in Attempts, RetireIs(a)
      PROVE  OneOp'
  <2>1. ~HasOp(a)
    BY <1>20 DEF RetireIs
  <2> QED
    BY <1>20, <2>1, OneOpQueued DEF RetireIs, Ops, OneOp
<1>21. ASSUME NEW a \in Attempts, FinalIs(a)
      PROVE  OneOp'
  BY <1>21, OneOpEnded DEF FinalIs, Runs1, OneOp
<1>22. CASE Foreign
  BY <1>22 DEF OneOp, Foreign, pool, calls, session, retiring
<1>23. CASE UNCHANGED vars
  BY <1>23 DEF OneOp, vars, disk, pool, calls, session, retiring
<1> QED
  BY Does, <1>1, <1>2, <1>3, <1>4, <1>5, <1>6, <1>7, <1>8, <1>9, <1>10, <1>11, <1>12,
     <1>13, <1>14, <1>15, <1>16, <1>17, <1>18, <1>19, <1>20, <1>21, <1>22, <1>23

\* Every step keeps the operations at their places.
LEMMA OpFitsStep ==
  ASSUME TypeOK, Shapes, OneOp, OpFits, Lives, Held, [Next]_vars
  PROVE  OpFits'
<1> USE OwnershipAssumption
<1>0. log \in [Attempts -> Events] /\ saved \in [Attempts -> Nat]
  BY DEF Shapes
<1>1. ASSUME NEW a \in Attempts, Begin(a)
      PROVE  OpFits'
  <2>1. \A op \in Ops, b \in Attempts : On(op, b)' => On(op, b)
    BY <1>1, OnSame DEF Begin, Retiring, disk, pool, session, retiring
  <2>2. ASSUME NEW op \in Ops, NEW b \in Attempts, Fits(op, b)
        PROVE  Fits(op, b)'
    BY <1>1, <2>2, <1>0 DEF TypeOK, Held, Counts, Lives, Lived, Fits, Begin, Retiring,
       disk, pool, session, retiring
  <2> QED
    BY <2>1, <2>2 DEF OpFits
<1>2. ASSUME NEW a \in Attempts, EnterIs(a)
      PROVE  OpFits'
  <2>1. \A op \in Ops, b \in Attempts : On(op, b)' =>
          On(op, b) \/ (entry.phase = "none" /\ live = Nobody /\ b = a /\ op = "load")
    BY <1>2, OnSame, OnQueued DEF EnterIs, Ops, TypeOK
  <2>2. ASSUME NEW op \in Ops, NEW b \in Attempts, Fits(op, b)
        PROVE  Fits(op, b)'
    BY <1>2, <2>2, <1>0 DEF TypeOK, Held, Counts, Lives, Lived, Fits, EnterIs, Moves,
       Sees, EntryIs
  <2>3. entry.phase = "none" /\ live = Nobody => Fits("load", a)'
    BY <1>2, <1>0 DEF TypeOK, Held, Counts, Lives, Lived, Fits, EnterIs, Moves, Sees,
       EntryIs
  <2> QED
    BY <2>1, <2>2, <2>3 DEF OpFits
<1>3. ASSUME NEW a \in Attempts, RetirementFailed(a)
      PROVE  OpFits'
  <2>1. \A op \in Ops, b \in Attempts : On(op, b)' => On(op, b)
    BY <1>3, OnSame DEF RetirementFailed, Over, Move, disk, pool, session, retiring
  <2>2. ASSUME NEW op \in Ops, NEW b \in Attempts, Fits(op, b)
        PROVE  Fits(op, b)'
    BY <1>3, <2>2, <1>0 DEF TypeOK, Held, Counts, Lives, Lived, Fits, RetirementFailed,
       Over, Move, disk, pool, session, retiring
  <2> QED
    BY <2>1, <2>2 DEF OpFits
<1>4. ASSUME NEW a \in Attempts, LoadIs(a)
      PROVE  OpFits'
  <2>1. \A op \in Ops, b \in Attempts : On(op, b)' => On(op, b) /\ b # a
    BY <1>4, OnEnded DEF LoadIs, Runs1, Op
  <2>2. ASSUME NEW op \in Ops, NEW b \in Attempts, Fits(op, b), b # a
        PROVE  Fits(op, b)'
    BY <1>4, <2>2, <1>0 DEF TypeOK, Held, Counts, Lives, Lived, Fits, LoadIs, NoEntryLeft,
       EntryIs
  <2> QED
    BY <2>1, <2>2 DEF OpFits
<1>5. ASSUME NEW a \in Attempts, ShareIs(a)
      PROVE  OpFits'
  <2>1. \A op \in Ops, b \in Attempts : On(op, b)' =>
          On(op, b) \/ (seen[a] = "current" /\ b = a /\ op = "commit")
    BY <1>5, OnSame, OnQueued DEF ShareIs, Ops, TypeOK
  <2>2. ASSUME NEW op \in Ops, NEW b \in Attempts, Fits(op, b)
        PROVE  Fits(op, b)'
    <3>1. CASE b = a
      BY <1>5, <2>2, <3>1, <1>0 DEF TypeOK, Held, Counts, Lives, Lived, Fits, ShareIs,
         Moves, Leaves, Sees, EntryIs
    <3>2. CASE b # a
      BY <1>5, <2>2, <3>2, <1>0 DEF TypeOK, Held, Counts, Lives, Lived, Fits, ShareIs,
         Moves, Leaves, Sees, EntryIs
    <3> QED
      BY <3>1, <3>2
  <2>3. seen[a] = "current" => Fits("commit", a)'
    BY <1>5, <1>0 DEF TypeOK, Held, Counts, Lives, Lived, Fits, ShareIs, Moves, Leaves,
       Sees, EntryIs
  <2> QED
    BY <2>1, <2>2, <2>3 DEF OpFits
<1>6. ASSUME NEW a \in Attempts, CommitIs(a)
      PROVE  OpFits'
  <2>1. \A op \in Ops, b \in Attempts : On(op, b)' => On(op, b) /\ b # a
    BY <1>6, OnEnded DEF CommitIs, Runs1, Op
  <2>9. Fits("commit", a)
    BY <1>6, HeadFits DEF CommitIs, Ops
  <2>2. ASSUME NEW op \in Ops, NEW b \in Attempts, Fits(op, b), b # a
        PROVE  Fits(op, b)'
    BY <1>6, <2>2, <2>9, <1>0 DEF TypeOK, Held, Counts, Lives, Lived, Fits, CommitIs,
       Moves, Removes, Drops, Leaves, Sees, NoEntryLeft, EntryIs
  <2> QED
    BY <2>1, <2>2 DEF OpFits
<1>7. ASSUME NEW a \in Attempts, ReserveIs(a)
      PROVE  OpFits'
  <2>1. \A op \in Ops, b \in Attempts : On(op, b)' => On(op, b)
    BY <1>7, OnSame DEF ReserveIs
  <2>2. ASSUME NEW op \in Ops, NEW b \in Attempts, Fits(op, b)
        PROVE  Fits(op, b)'
    <3>1. CASE b = a
      BY <1>7, <2>2, <3>1, <1>0 DEF TypeOK, Held, Counts, Lives, Lived, Fits, ReserveIs,
         Moves, Removes, Drops, Leaves, Sees, NoEntryLeft, EntryIs, Frees
    <3>2. CASE b # a
      BY <1>7, <2>2, <3>2, <1>0 DEF TypeOK, Held, Counts, Lives, Lived, Fits, ReserveIs,
         Moves, Removes, Drops, Leaves, Sees, NoEntryLeft, EntryIs, Frees
    <3> QED
      BY <3>1, <3>2
  <2> QED
    BY <2>1, <2>2 DEF OpFits
<1>8. ASSUME NEW a \in Attempts, CreateIs(a)
      PROVE  OpFits'
  <2>1. \A op \in Ops, b \in Attempts : On(op, b)' => On(op, b)
    BY <1>8, OnSame DEF CreateIs
  <2>2. ASSUME NEW op \in Ops, NEW b \in Attempts, Fits(op, b)
        PROVE  Fits(op, b)'
    <3>1. CASE b = a
      BY <1>8, <2>2, <3>1, <1>0 DEF TypeOK, Held, Counts, Lives, Lived, Fits, CreateIs,
         Moves
    <3>2. CASE b # a
      BY <1>8, <2>2, <3>2, <1>0 DEF TypeOK, Held, Counts, Lives, Lived, Fits, CreateIs,
         Moves
    <3> QED
      BY <3>1, <3>2
  <2> QED
    BY <2>1, <2>2 DEF OpFits
<1>9. ASSUME NEW a \in Attempts, AbortIs(a)
      PROVE  OpFits'
  <2>1. \A op \in Ops, b \in Attempts : On(op, b)' => On(op, b)
    BY <1>9, OnSame DEF AbortIs
  <2>2. ASSUME NEW op \in Ops, NEW b \in Attempts, Fits(op, b)
        PROVE  Fits(op, b)'
    BY <1>9, <2>2, <1>0 DEF TypeOK, Held, Counts, Lives, Lived, Fits, AbortIs, Moves,
       Removes, Drops, Leaves, Sees, NoEntryLeft, EntryIs
  <2> QED
    BY <2>1, <2>2 DEF OpFits
<1>10. ASSUME NEW a \in Attempts, UnwindIs(a)
      PROVE  OpFits'
  <2>1. \A op \in Ops, b \in Attempts : On(op, b)' => On(op, b)
    BY <1>10, OnSame DEF UnwindIs
  <2>2. ASSUME NEW op \in Ops, NEW b \in Attempts, Fits(op, b)
        PROVE  Fits(op, b)'
    BY <1>10, <2>2, <1>0 DEF TypeOK, Held, Counts, Lives, Lived, Fits, UnwindIs, Moves,
       Releases, Reserved, Reusable, Removes, Drops, Leaves, Sees, NoEntryLeft, EntryIs,
       Frees
  <2> QED
    BY <2>1, <2>2 DEF OpFits
<1>11. ASSUME NEW a \in Attempts, PublishIs(a)
      PROVE  OpFits'
  <2>1. \A op \in Ops, b \in Attempts : On(op, b)' =>
          On(op, b) \/ (init'[a] = "pending" /\ b = a /\ op = "init")
    BY <1>11, OnSame, OnQueued DEF PublishIs, Ops, TypeOK
  <2>2. ASSUME NEW op \in Ops, NEW b \in Attempts, Fits(op, b)
        PROVE  Fits(op, b)'
    <3>1. CASE b = a
      BY <1>11, <2>2, <3>1, <1>0 DEF TypeOK, Held, Counts, Lives, Lived, Fits, PublishIs,
         Moves, Attachable, Reserved, Removes, Drops, Leaves, Sees, NoEntryLeft, EntryIs
    <3>2. CASE b # a
      BY <1>11, <2>2, <3>2, <1>0 DEF TypeOK, Held, Counts, Lives, Lived, Fits, PublishIs,
         Moves, Attachable, Reserved, Removes, Drops, Leaves, Sees, NoEntryLeft, EntryIs
    <3> QED
      BY <3>1, <3>2
  <2>3. init'[a] = "pending" => Fits("init", a)'
    BY <1>11, <1>0 DEF TypeOK, Held, Counts, Lives, Lived, Fits, PublishIs, Moves,
       Attachable, Reserved, Removes, Drops, Leaves, Sees, NoEntryLeft, EntryIs
  <2> QED
    BY <2>1, <2>2, <2>3 DEF OpFits
<1>12. ASSUME NEW a \in Attempts, LogIs(a)
      PROVE  OpFits'
  <2>1. \A op \in Ops, b \in Attempts : On(op, b)' => On(op, b)
    BY <1>12, OnSame DEF LogIs
  <2>2. ASSUME NEW op \in Ops, NEW b \in Attempts, Fits(op, b)
        PROVE  Fits(op, b)'
    BY <1>12, <2>2, <1>0 DEF TypeOK, Held, Counts, Lives, Lived, Fits, LogIs
  <2> QED
    BY <2>1, <2>2 DEF OpFits
<1>13. ASSUME NEW a \in Attempts, Detach(a)
      PROVE  OpFits'
  <2>1. \A op \in Ops, b \in Attempts : On(op, b)' => On(op, b)
    BY <1>13, OnSame DEF Detach, Goto, Move, disk, pool, session
  <2>2. ASSUME NEW op \in Ops, NEW b \in Attempts, Fits(op, b)
        PROVE  Fits(op, b)'
    BY <1>13, <2>2, <1>0 DEF TypeOK, Held, Counts, Lives, Lived, Fits, Detach, Goto, Move,
       disk, pool, session
  <2> QED
    BY <2>1, <2>2 DEF OpFits
<1>14. ASSUME NEW a \in Attempts, BindIs(a)
      PROVE  OpFits'
  <2>1. Fits("init", a) /\ init[a] = "pending"
    BY <1>14, HeadFits DEF BindIs, Ops, Fits
  <2>2. Ended \/ (Advanced("seed", a) /\ UNCHANGED init)
    BY <1>14 DEF BindIs
  <2>3. \A op \in Ops, b \in Attempts : On(op, b)' =>
          (On(op, b) /\ b # a) \/ (init' = init /\ b = a /\ op = "seed")
    BY <1>14, <2>2, OnEnded, OnAdvanced DEF BindIs, Runs1, Op, Ops
  <2>4. ASSUME NEW op \in Ops, NEW b \in Attempts, Fits(op, b), b # a
        PROVE  Fits(op, b)'
    BY <1>14, <2>4, <1>0 DEF Fits, BindIs, TypeOK
  <2>5. init' = init => Fits("seed", a)'
    BY <1>14, <2>1 DEF Fits, BindIs
  <2> QED
    BY <2>3, <2>4, <2>5 DEF OpFits
<1>15. ASSUME NEW a \in Attempts, SeedIs(a)
      PROVE  OpFits'
  <2>1. \A op \in Ops, b \in Attempts : On(op, b)' => On(op, b) /\ b # a
    BY <1>15, OnEnded DEF SeedIs, Runs1, Op
  <2>2. ASSUME NEW op \in Ops, NEW b \in Attempts, Fits(op, b), b # a
        PROVE  Fits(op, b)'
    <3>1. CASE op = "load"
      BY <1>15, <2>2, <3>1 DEF Appends, Fits, Invalidates, SeedIs
    <3>2. CASE op # "load"
      BY <1>15, <2>2, <3>2, <1>0 DEF TypeOK, Fits, SeedIs
    <3> QED
      BY <3>1, <3>2
  <2> QED
    BY <2>1, <2>2 DEF OpFits
<1>16. ASSUME NEW a \in Attempts, StartWriteIs(a)
      PROVE  OpFits'
  <2> DEFINE kind == IF retired[a] = "pending" THEN "drain" ELSE "write"
  <2>1. \A op \in Ops, b \in Attempts : On(op, b)' => On(op, b) \/ (b = a /\ op = kind)
    BY <1>16, OnQueued DEF StartWriteIs, Ops
  <2>2. ASSUME NEW op \in Ops, NEW b \in Attempts, Fits(op, b)
        PROVE  Fits(op, b)'
    BY <1>16, <2>2 DEF Fits, StartWriteIs
  <2>3. ASSUME NEW op \in Ops, op = kind
        PROVE  Fits(op, a)'
    BY <1>16, <2>3 DEF Fits, StartWriteIs, Lives, Lived
  <2> HIDE DEF kind
  <2> QED
    BY <2>1, <2>2, <2>3 DEF OpFits
<1>17. ASSUME NEW a \in Attempts, WriteIs(a)
      PROVE  OpFits'
  <2>1. PICK kind \in {"write", "drain"} :
          /\ Runs1(kind, a)
          /\ Advanced(IF kind = "write" THEN "writing" ELSE "draining", a)
    BY <1>17 DEF WriteIs
  <2>2. Fits(kind, a)
    BY <2>1, HeadFits DEF Ops
  <2>3. \A op \in Ops, b \in Attempts : On(op, b)' =>
          \/ On(op, b) /\ b # a
          \/ b = a /\ op = (IF kind = "write" THEN "writing" ELSE "draining")
    BY <2>1, OnAdvanced DEF Runs1, Op, Ops
  <2>4. ASSUME NEW op \in Ops, NEW b \in Attempts, Fits(op, b)
        PROVE  Fits(op, b)'
    BY <1>17, <2>4 DEF Fits, WriteIs
  <2>5. Fits(IF kind = "write" THEN "writing" ELSE "draining", a)'
    BY <1>17, <2>2 DEF Fits, WriteIs
  <2> QED
    BY <2>3, <2>4, <2>5 DEF OpFits
<1>18. ASSUME NEW a \in Attempts, WrittenIs(a)
      PROVE  OpFits'
  <2>1. \A op \in Ops, b \in Attempts : On(op, b)' => On(op, b) /\ b # a
    BY <1>18, OnEnded DEF WrittenIs, Runs1, Op
  <2>2. ASSUME NEW op \in Ops, NEW b \in Attempts, Fits(op, b), b # a
        PROVE  Fits(op, b)'
    <3>1. CASE op = "load"
      BY <1>18, <2>2, <3>1 DEF Appends, Fits, Invalidates, WrittenIs
    <3>2. CASE op # "load"
      BY <1>18, <2>2, <3>2, <1>0 DEF TypeOK, Fits, WrittenIs
    <3> QED
      BY <3>1, <3>2
  <2> QED
    BY <2>1, <2>2 DEF OpFits
<1>19. ASSUME NEW a \in Attempts, WriteFailsIs(a)
      PROVE  OpFits'
  <2>1. \A op \in Ops, b \in Attempts : On(op, b)' => On(op, b) /\ b # a
    BY <1>19, OnEnded DEF WriteFailsIs, Runs1, Op
  <2>2. ASSUME NEW op \in Ops, NEW b \in Attempts, Fits(op, b), b # a
        PROVE  Fits(op, b)'
    BY <1>19, <2>2, <1>0 DEF TypeOK, Held, Counts, Lives, Lived, Fits, WriteFailsIs
  <2> QED
    BY <2>1, <2>2 DEF OpFits
<1>20. ASSUME NEW a \in Attempts, RetireIs(a)
      PROVE  OpFits'
  <2>1. \A op \in Ops, b \in Attempts : On(op, b)' =>
          On(op, b) \/ (init[a] = "ready" /\ b = a /\ op = "final")
    BY <1>20, OnSame, OnQueued DEF RetireIs, Ops, TypeOK
  <2>2. ASSUME NEW op \in Ops, NEW b \in Attempts, Fits(op, b)
        PROVE  Fits(op, b)'
    BY <1>20, <2>2, <1>0 DEF TypeOK, Held, Counts, Lives, Lived, Fits, RetireIs
  <2>3. init[a] = "ready" => Fits("final", a)'
    BY <1>20, <1>0 DEF TypeOK, Held, Counts, Lives, Lived, Fits, RetireIs
  <2> QED
    BY <2>1, <2>2, <2>3 DEF OpFits
<1>21. ASSUME NEW a \in Attempts, FinalIs(a)
      PROVE  OpFits'
  <2>1. \A op \in Ops, b \in Attempts : On(op, b)' => On(op, b) /\ b # a
    BY <1>21, OnEnded DEF FinalIs, Runs1, Op
  <2>2. ASSUME NEW op \in Ops, NEW b \in Attempts, Fits(op, b), b # a
        PROVE  Fits(op, b)'
    BY <1>21, <2>2, <1>0 DEF TypeOK, Held, Counts, Lives, Lived, Fits, FinalIs
  <2> QED
    BY <2>1, <2>2 DEF OpFits
<1>22. CASE Foreign
  <2>1. \A op \in Ops, b \in Attempts : On(op, b)' => On(op, b)
    BY <1>22, OnSame DEF Foreign, pool, calls, session, retiring
  <2>2. ASSUME NEW op \in Ops, NEW b \in Attempts, Fits(op, b)
        PROVE  Fits(op, b)'
    BY <1>22, <2>2, <1>0 DEF TypeOK, Held, Counts, Lives, Lived, Fits, Foreign, pool,
       calls, session, retiring
  <2> QED
    BY <2>1, <2>2 DEF OpFits
<1>23. CASE UNCHANGED vars
  <2>1. \A op \in Ops, b \in Attempts : On(op, b)' => On(op, b)
    BY <1>23, OnSame DEF vars, disk, pool, calls, session, retiring
  <2>2. ASSUME NEW op \in Ops, NEW b \in Attempts, Fits(op, b)
        PROVE  Fits(op, b)'
    BY <1>23, <2>2, <1>0 DEF TypeOK, Held, Counts, Lives, Lived, Fits, vars, disk, pool,
       calls, session, retiring
  <2> QED
    BY <2>1, <2>2 DEF OpFits
<1> QED
  BY Does, <1>1, <1>2, <1>3, <1>4, <1>5, <1>6, <1>7, <1>8, <1>9, <1>10, <1>11, <1>12,
     <1>13, <1>14, <1>15, <1>16, <1>17, <1>18, <1>19, <1>20, <1>21, <1>22, <1>23

\* Every step keeps sessions that wait to be bound in front of the read.
LEMMA NoneUnboundStep ==
  ASSUME TypeOK, Shapes, OneOp, OpFits, Held, NoneUnbound, [Next]_vars
  PROVE  NoneUnbound'
<1> USE OwnershipAssumption
<1>1. ASSUME NEW a \in Attempts, Begin(a)
      PROVE  NoneUnbound'
  <2>1. \A op \in Ops, b \in Attempts : op \in {"init", "seed"} /\ On(op, b)' => On(op, b)
    BY <1>1, OnSame DEF Begin, Retiring, disk, pool, session, retiring
  <2>2. entry'.phase \in {"ready", "committing", "reserved"} => entry.phase \in {"ready", "committing", "reserved"}
    BY <1>1 DEF TypeOK, Held, Counts, Reserved, Begin, Retiring, disk, pool, session,
       retiring
  <2>3. ASSUME NEW h \in Attempts, entry'.phase = "loading", entry'.holder = h
        PROVE  ReadsLast(h)'
    BY <1>1, <2>3 DEF TypeOK, Held, Counts, Reserved, Begin, Retiring, disk, pool,
       session, retiring, NoneUnbound, ReadsLast
  <2> QED
    BY <2>1, <2>2, <2>3 DEF NoneUnbound, Ops
<1>2. ASSUME NEW a \in Attempts, EnterIs(a)
      PROVE  NoneUnbound'
  <2>1. \A op \in Ops, b \in Attempts : op \in {"init", "seed"} /\ On(op, b)' => On(op, b)
    BY <1>2, OnSame, OnQueued DEF EnterIs, Ops
  <2>2. entry'.phase \in {"ready", "committing", "reserved"} => entry.phase \in {"ready", "committing", "reserved"}
    BY <1>2 DEF TypeOK, Held, Counts, Reserved, EnterIs, Moves, Sees, EntryIs
  <2>3. ASSUME NEW h \in Attempts, entry'.phase = "loading", entry'.holder = h
        PROVE  ReadsLast(h)'
    BY <1>2, <2>3, ReadQueued DEF TypeOK, Held, Counts, Reserved, EnterIs, Moves, Sees,
       EntryIs, NoneUnbound, Ops, ReadsLast
  <2> QED
    BY <2>1, <2>2, <2>3 DEF NoneUnbound, Ops
<1>3. ASSUME NEW a \in Attempts, RetirementFailed(a)
      PROVE  NoneUnbound'
  <2>1. \A op \in Ops, b \in Attempts : op \in {"init", "seed"} /\ On(op, b)' => On(op, b)
    BY <1>3, OnSame DEF RetirementFailed, Over, Move, disk, pool, session, retiring
  <2>2. entry'.phase \in {"ready", "committing", "reserved"} => entry.phase \in {"ready", "committing", "reserved"}
    BY <1>3 DEF TypeOK, Held, Counts, Reserved, RetirementFailed, Over, Move, disk, pool,
       session, retiring
  <2>3. ASSUME NEW h \in Attempts, entry'.phase = "loading", entry'.holder = h
        PROVE  ReadsLast(h)'
    BY <1>3, <2>3 DEF TypeOK, Held, Counts, Reserved, RetirementFailed, Over, Move, disk,
       pool, session, retiring, NoneUnbound, ReadsLast
  <2> QED
    BY <2>1, <2>2, <2>3 DEF NoneUnbound, Ops
<1>4. ASSUME NEW a \in Attempts, LoadIs(a)
      PROVE  NoneUnbound'
  <2>1. \A op \in Ops, b \in Attempts : On(op, b)' => On(op, b)
    BY <1>4, OnEnded DEF LoadIs, Runs1, Op
  <2>2. CASE entry.phase # "loading" \/ entry.holder # a
    <3>1. UNCHANGED entry
      BY <1>4, <2>2 DEF LoadIs
    <3>2. \A h \in Attempts : h # a /\ ReadsLast(h) => ReadsLast(h)'
      BY <1>4, ReadEnded DEF LoadIs, Runs1, Op
    <3> QED
      BY <2>1, <2>2, <3>1, <3>2 DEF NoneUnbound, Ops
  <2>3. CASE entry.phase = "loading" /\ entry.holder = a
    <3>1. \A b \in Attempts : ~On("init", b)' /\ ~On("seed", b)'
      BY <1>4, <2>3, ReadOver DEF LoadIs, NoneUnbound
    <3>2. entry'.phase # "loading"
      BY <1>4, <2>3 DEF LoadIs, NoEntryLeft, EntryIs
    <3> QED
      BY <3>1, <3>2 DEF NoneUnbound
  <2> QED
    BY <2>2, <2>3
<1>5. ASSUME NEW a \in Attempts, ShareIs(a)
      PROVE  NoneUnbound'
  <2>1. \A op \in Ops, b \in Attempts : op \in {"init", "seed"} /\ On(op, b)' => On(op, b)
    BY <1>5, OnSame, OnQueued DEF ShareIs, Ops
  <2>2. entry'.phase \in {"ready", "committing", "reserved"} => entry.phase \in {"ready", "committing", "reserved"}
    BY <1>5 DEF TypeOK, Held, Counts, Reserved, ShareIs, Moves, Leaves, Sees, EntryIs
  <2>3. ASSUME NEW h \in Attempts, entry'.phase = "loading", entry'.holder = h
        PROVE  ReadsLast(h)'
    <3>1. UNCHANGED <<entry, chain>>
      BY <1>5, <2>3 DEF ShareIs, Leaves, EntryIs
    <3> QED
      BY <2>3, <3>1 DEF NoneUnbound, ReadsLast
  <2> QED
    BY <2>1, <2>2, <2>3 DEF NoneUnbound, Ops
<1>6. ASSUME NEW a \in Attempts, CommitIs(a)
      PROVE  NoneUnbound'
  <2>1. \A op \in Ops, b \in Attempts : op \in {"init", "seed"} /\ On(op, b)' => On(op, b)
    BY <1>6, OnEnded DEF CommitIs, Runs1, Op, Ops
  <2>0. Fits("commit", a)
    BY <1>6, HeadFits DEF CommitIs, Ops
  <2>2. entry'.phase \in {"ready", "committing", "reserved"} => entry.phase \in {"ready", "committing", "reserved"}
    BY <1>6 DEF TypeOK, Held, Counts, Reserved, CommitIs, Moves, Removes, Drops, Leaves,
       Sees, NoEntryLeft, EntryIs
  <2>3. ASSUME NEW h \in Attempts, entry'.phase = "loading", entry'.holder = h
        PROVE  ReadsLast(h)'
    <3>1. chain[1].op # "load" /\ Len(chain) > 0 /\ Ended
      BY <1>6 DEF CommitIs, Runs1, Op
    <3>2. UNCHANGED entry
      BY <1>6, <2>3 DEF TypeOK, Held, Counts, Reserved, CommitIs, Moves, Removes, Drops,
         Leaves, Sees, NoEntryLeft, EntryIs
    <3> QED
      BY <2>3, <3>1, <3>2, ReadEnded DEF NoneUnbound
  <2> QED
    BY <2>1, <2>2, <2>3 DEF NoneUnbound, Ops
<1>7. ASSUME NEW a \in Attempts, ReserveIs(a)
      PROVE  NoneUnbound'
  <2>1. \A op \in Ops, b \in Attempts : op \in {"init", "seed"} /\ On(op, b)' => On(op, b)
    BY <1>7, OnSame DEF ReserveIs
  <2>2. entry'.phase \in {"ready", "committing", "reserved"} => entry.phase \in {"ready", "committing", "reserved"}
    BY <1>7 DEF TypeOK, Held, Counts, Reserved, ReserveIs, Moves, Removes, Drops, Leaves,
       Sees, NoEntryLeft, EntryIs, Frees
  <2>3. ASSUME NEW h \in Attempts, entry'.phase = "loading", entry'.holder = h
        PROVE  ReadsLast(h)'
    BY <1>7, <2>3 DEF TypeOK, Held, Counts, Reserved, ReserveIs, Moves, Removes, Drops,
       Leaves, Sees, NoEntryLeft, EntryIs, Frees, NoneUnbound, ReadsLast
  <2> QED
    BY <2>1, <2>2, <2>3 DEF NoneUnbound, Ops
<1>8. ASSUME NEW a \in Attempts, CreateIs(a)
      PROVE  NoneUnbound'
  <2>1. \A op \in Ops, b \in Attempts : op \in {"init", "seed"} /\ On(op, b)' => On(op, b)
    BY <1>8, OnSame DEF CreateIs
  <2>2. entry'.phase \in {"ready", "committing", "reserved"} => entry.phase \in {"ready", "committing", "reserved"}
    BY <1>8 DEF TypeOK, Held, Counts, Reserved, CreateIs, Moves
  <2>3. ASSUME NEW h \in Attempts, entry'.phase = "loading", entry'.holder = h
        PROVE  ReadsLast(h)'
    BY <1>8, <2>3 DEF TypeOK, Held, Counts, Reserved, CreateIs, Moves, NoneUnbound,
       ReadsLast
  <2> QED
    BY <2>1, <2>2, <2>3 DEF NoneUnbound, Ops
<1>9. ASSUME NEW a \in Attempts, AbortIs(a)
      PROVE  NoneUnbound'
  <2>1. \A op \in Ops, b \in Attempts : op \in {"init", "seed"} /\ On(op, b)' => On(op, b)
    BY <1>9, OnSame DEF AbortIs
  <2>2. entry'.phase \in {"ready", "committing", "reserved"} => entry.phase \in {"ready", "committing", "reserved"}
    BY <1>9 DEF TypeOK, Held, Counts, Reserved, AbortIs, Moves, Removes, Drops, Leaves,
       Sees, NoEntryLeft, EntryIs
  <2>3. ASSUME NEW h \in Attempts, entry'.phase = "loading", entry'.holder = h
        PROVE  ReadsLast(h)'
    BY <1>9, <2>3 DEF TypeOK, Held, Counts, Reserved, AbortIs, Moves, Removes, Drops,
       Leaves, Sees, NoEntryLeft, EntryIs, NoneUnbound, ReadsLast
  <2> QED
    BY <2>1, <2>2, <2>3 DEF NoneUnbound, Ops
<1>10. ASSUME NEW a \in Attempts, UnwindIs(a)
      PROVE  NoneUnbound'
  <2>1. \A op \in Ops, b \in Attempts : op \in {"init", "seed"} /\ On(op, b)' => On(op, b)
    BY <1>10, OnSame DEF UnwindIs
  <2>2. entry'.phase \in {"ready", "committing", "reserved"} => entry.phase \in {"ready", "committing", "reserved"}
    BY <1>10 DEF TypeOK, Held, Counts, Reserved, UnwindIs, Moves, Releases, Reusable,
       Removes, Drops, Leaves, Sees, NoEntryLeft, EntryIs, Frees
  <2>3. ASSUME NEW h \in Attempts, entry'.phase = "loading", entry'.holder = h
        PROVE  ReadsLast(h)'
    BY <1>10, <2>3 DEF TypeOK, Held, Counts, Reserved, UnwindIs, Moves, Releases, Reusable,
       Removes, Drops, Leaves, Sees, NoEntryLeft, EntryIs, Frees, NoneUnbound, ReadsLast
  <2> QED
    BY <2>1, <2>2, <2>3 DEF NoneUnbound, Ops
<1>11. ASSUME NEW a \in Attempts, PublishIs(a)
      PROVE  NoneUnbound'
  <2>1. Attachable(a) => seen[a] = "current"
    BY DEF Attachable, Held, Counts, Reserved
  <2>2. entry'.phase = "none" \/ UNCHANGED <<entry, chain>>
    BY <1>11, <2>1 DEF PublishIs, Removes, Drops, NoEntryLeft, EntryIs
  <2> QED
    BY <2>2, OnSame DEF NoneUnbound, ReadsLast, Ops
<1>12. ASSUME NEW a \in Attempts, LogIs(a)
      PROVE  NoneUnbound'
  <2>1. \A op \in Ops, b \in Attempts : op \in {"init", "seed"} /\ On(op, b)' => On(op, b)
    BY <1>12, OnSame DEF LogIs
  <2>2. entry'.phase \in {"ready", "committing", "reserved"} => entry.phase \in {"ready", "committing", "reserved"}
    BY <1>12 DEF TypeOK, Held, Counts, Reserved, LogIs
  <2>3. ASSUME NEW h \in Attempts, entry'.phase = "loading", entry'.holder = h
        PROVE  ReadsLast(h)'
    BY <1>12, <2>3 DEF TypeOK, Held, Counts, Reserved, LogIs, NoneUnbound, ReadsLast
  <2> QED
    BY <2>1, <2>2, <2>3 DEF NoneUnbound, Ops
<1>13. ASSUME NEW a \in Attempts, Detach(a)
      PROVE  NoneUnbound'
  <2>1. \A op \in Ops, b \in Attempts : op \in {"init", "seed"} /\ On(op, b)' => On(op, b)
    BY <1>13, OnSame DEF Detach, Goto, Move, disk, pool, session
  <2>2. entry'.phase \in {"ready", "committing", "reserved"} => entry.phase \in {"ready", "committing", "reserved"}
    BY <1>13 DEF TypeOK, Held, Counts, Reserved, Detach, Goto, Move, disk, pool, session
  <2>3. ASSUME NEW h \in Attempts, entry'.phase = "loading", entry'.holder = h
        PROVE  ReadsLast(h)'
    BY <1>13, <2>3 DEF TypeOK, Held, Counts, Reserved, Detach, Goto, Move, disk, pool,
       session, NoneUnbound, ReadsLast
  <2> QED
    BY <2>1, <2>2, <2>3 DEF NoneUnbound, Ops
<1>14. ASSUME NEW a \in Attempts, BindIs(a)
      PROVE  NoneUnbound'
  <2>1. On("init", a) /\ UNCHANGED entry
    BY <1>14, ChainType DEF BindIs, Runs1, On
  <2>2. ~(entry.phase \in {"ready", "committing", "reserved"})
    BY <2>1 DEF NoneUnbound
  <2>3. \A h \in Attempts : ReadsLast(h) => ReadsLast(h)'
    <3>1. chain[1].op # "load" /\ Len(chain) > 0
      BY <1>14 DEF BindIs, Runs1, Op
    <3>2. Ended \/ Advanced("seed", a)
      BY <1>14 DEF BindIs
    <3> QED
      BY <3>1, <3>2, ReadEnded, ReadAdvanced DEF Ops
  <2> QED
    BY <2>1, <2>2, <2>3 DEF NoneUnbound
<1>15. ASSUME NEW a \in Attempts, SeedIs(a)
      PROVE  NoneUnbound'
  <2>1. \A op \in Ops, b \in Attempts : op \in {"init", "seed"} /\ On(op, b)' => On(op, b)
    BY <1>15, OnEnded DEF SeedIs, Runs1, Op, Ops
  <2>2. entry'.phase \in {"ready", "committing", "reserved"} => entry.phase \in {"ready", "committing", "reserved"}
    BY <1>15 DEF TypeOK, Held, Counts, Reserved, SeedIs, Invalidates, NoEntryLeft, EntryIs,
       Appends
  <2>3. ASSUME NEW h \in Attempts, entry'.phase = "loading", entry'.holder = h
        PROVE  ReadsLast(h)'
    <3>1. chain[1].op # "load" /\ Len(chain) > 0 /\ Ended
      BY <1>15 DEF SeedIs, Runs1, Op
    <3>2. UNCHANGED entry
      BY <1>15, <2>3 DEF TypeOK, Held, Counts, Reserved, SeedIs, Invalidates, NoEntryLeft,
         EntryIs, Appends
    <3> QED
      BY <2>3, <3>1, <3>2, ReadEnded DEF NoneUnbound
  <2> QED
    BY <2>1, <2>2, <2>3 DEF NoneUnbound, Ops
<1>16. ASSUME NEW a \in Attempts, StartWriteIs(a)
      PROVE  NoneUnbound'
  <2>1. \A op \in Ops, b \in Attempts : op \in {"init", "seed"} /\ On(op, b)' => On(op, b)
    BY <1>16, OnSame, OnQueued DEF StartWriteIs, Ops
  <2>2. entry'.phase \in {"ready", "committing", "reserved"} => entry.phase \in {"ready", "committing", "reserved"}
    BY <1>16 DEF TypeOK, Held, Counts, Reserved, StartWriteIs
  <2>3. ASSUME NEW h \in Attempts, entry'.phase = "loading", entry'.holder = h
        PROVE  ReadsLast(h)'
    BY <1>16, <2>3, ReadQueued DEF StartWriteIs, NoneUnbound, Ops, ReadsLast
  <2> QED
    BY <2>1, <2>2, <2>3 DEF NoneUnbound, Ops
<1>17. ASSUME NEW a \in Attempts, WriteIs(a)
      PROVE  NoneUnbound'
  <2>1. \A op \in Ops, b \in Attempts : op \in {"init", "seed"} /\ On(op, b)' => On(op, b)
    BY <1>17, OnAdvanced DEF WriteIs, Runs1, Op, Ops
  <2>2. entry'.phase \in {"ready", "committing", "reserved"} => entry.phase \in {"ready", "committing", "reserved"}
    BY <1>17 DEF TypeOK, Held, Counts, Reserved, WriteIs, Writable
  <2>3. ASSUME NEW h \in Attempts, entry'.phase = "loading", entry'.holder = h
        PROVE  ReadsLast(h)'
    BY <1>17, <2>3, ReadAdvanced DEF WriteIs, NoneUnbound, Runs1, Op, Ops
  <2> QED
    BY <2>1, <2>2, <2>3 DEF NoneUnbound, Ops
<1>18. ASSUME NEW a \in Attempts, WrittenIs(a)
      PROVE  NoneUnbound'
  <2>1. \A op \in Ops, b \in Attempts : op \in {"init", "seed"} /\ On(op, b)' => On(op, b)
    BY <1>18, OnEnded DEF WrittenIs, Runs1, Op, Ops
  <2>2. entry'.phase \in {"ready", "committing", "reserved"} => entry.phase \in {"ready", "committing", "reserved"}
    BY <1>18 DEF TypeOK, Held, Counts, Reserved, WrittenIs, Invalidates, NoEntryLeft,
       EntryIs, Appends
  <2>3. ASSUME NEW h \in Attempts, entry'.phase = "loading", entry'.holder = h
        PROVE  ReadsLast(h)'
    <3>1. chain[1].op # "load" /\ Len(chain) > 0 /\ Ended
      BY <1>18 DEF WrittenIs, Runs1, Op
    <3>2. UNCHANGED entry
      BY <1>18, <2>3 DEF TypeOK, Held, Counts, Reserved, WrittenIs, Invalidates,
         NoEntryLeft, EntryIs, Appends
    <3> QED
      BY <2>3, <3>1, <3>2, ReadEnded DEF NoneUnbound
  <2> QED
    BY <2>1, <2>2, <2>3 DEF NoneUnbound, Ops
<1>19. ASSUME NEW a \in Attempts, WriteFailsIs(a)
      PROVE  NoneUnbound'
  <2>1. \A op \in Ops, b \in Attempts : op \in {"init", "seed"} /\ On(op, b)' => On(op, b)
    BY <1>19, OnEnded DEF WriteFailsIs, Runs1, Op, Ops
  <2>2. entry'.phase \in {"ready", "committing", "reserved"} => entry.phase \in {"ready", "committing", "reserved"}
    BY <1>19 DEF TypeOK, Held, Counts, Reserved, WriteFailsIs
  <2>3. ASSUME NEW h \in Attempts, entry'.phase = "loading", entry'.holder = h
        PROVE  ReadsLast(h)'
    <3>1. chain[1].op # "load" /\ Len(chain) > 0 /\ Ended
      BY <1>19 DEF WriteFailsIs, Runs1, Op
    <3>2. UNCHANGED entry
      BY <1>19, <2>3 DEF TypeOK, Held, Counts, Reserved, WriteFailsIs
    <3> QED
      BY <2>3, <3>1, <3>2, ReadEnded DEF NoneUnbound
  <2> QED
    BY <2>1, <2>2, <2>3 DEF NoneUnbound, Ops
<1>20. ASSUME NEW a \in Attempts, RetireIs(a)
      PROVE  NoneUnbound'
  <2>1. \A op \in Ops, b \in Attempts : op \in {"init", "seed"} /\ On(op, b)' => On(op, b)
    BY <1>20, OnSame, OnQueued DEF RetireIs, Ops
  <2>2. entry'.phase \in {"ready", "committing", "reserved"} => entry.phase \in {"ready", "committing", "reserved"}
    BY <1>20 DEF TypeOK, Held, Counts, Reserved, RetireIs
  <2>3. ASSUME NEW h \in Attempts, entry'.phase = "loading", entry'.holder = h
        PROVE  ReadsLast(h)'
    BY <1>20, <2>3, ReadQueued DEF RetireIs, NoneUnbound, Ops, ReadsLast
  <2> QED
    BY <2>1, <2>2, <2>3 DEF NoneUnbound, Ops
<1>21. ASSUME NEW a \in Attempts, FinalIs(a)
      PROVE  NoneUnbound'
  <2>1. \A op \in Ops, b \in Attempts : op \in {"init", "seed"} /\ On(op, b)' => On(op, b)
    BY <1>21, OnEnded DEF FinalIs, Runs1, Op, Ops
  <2>2. entry'.phase \in {"ready", "committing", "reserved"} => entry.phase \in {"ready", "committing", "reserved"}
    BY <1>21 DEF TypeOK, Held, Counts, Reserved, FinalIs
  <2>3. ASSUME NEW h \in Attempts, entry'.phase = "loading", entry'.holder = h
        PROVE  ReadsLast(h)'
    <3>1. chain[1].op # "load" /\ Len(chain) > 0 /\ Ended
      BY <1>21 DEF FinalIs, Runs1, Op
    <3>2. UNCHANGED entry
      BY <1>21, <2>3 DEF TypeOK, Held, Counts, Reserved, FinalIs
    <3> QED
      BY <2>3, <3>1, <3>2, ReadEnded DEF NoneUnbound
  <2> QED
    BY <2>1, <2>2, <2>3 DEF NoneUnbound, Ops
<1>22. CASE Foreign
  <2>1. \A op \in Ops, b \in Attempts : op \in {"init", "seed"} /\ On(op, b)' => On(op, b)
    BY <1>22, OnSame DEF Foreign, pool, calls, session, retiring
  <2>2. entry'.phase \in {"ready", "committing", "reserved"} => entry.phase \in {"ready", "committing", "reserved"}
    BY <1>22 DEF TypeOK, Held, Counts, Reserved, Foreign, pool, calls, session, retiring
  <2>3. ASSUME NEW h \in Attempts, entry'.phase = "loading", entry'.holder = h
        PROVE  ReadsLast(h)'
    BY <1>22, <2>3 DEF TypeOK, Held, Counts, Reserved, Foreign, pool, calls, session,
       retiring, NoneUnbound, ReadsLast
  <2> QED
    BY <2>1, <2>2, <2>3 DEF NoneUnbound, Ops
<1>23. CASE UNCHANGED vars
  <2>1. \A op \in Ops, b \in Attempts : op \in {"init", "seed"} /\ On(op, b)' => On(op, b)
    BY <1>23, OnSame DEF vars, disk, pool, calls, session, retiring
  <2>2. entry'.phase \in {"ready", "committing", "reserved"} => entry.phase \in {"ready", "committing", "reserved"}
    BY <1>23 DEF TypeOK, Held, Counts, Reserved, vars, disk, pool, calls, session, retiring
  <2>3. ASSUME NEW h \in Attempts, entry'.phase = "loading", entry'.holder = h
        PROVE  ReadsLast(h)'
    BY <1>23, <2>3 DEF TypeOK, Held, Counts, Reserved, vars, disk, pool, calls, session,
       retiring, NoneUnbound, ReadsLast
  <2> QED
    BY <2>1, <2>2, <2>3 DEF NoneUnbound, Ops
<1> QED
  BY Does, <1>1, <1>2, <1>3, <1>4, <1>5, <1>6, <1>7, <1>8, <1>9, <1>10, <1>11, <1>12,
     <1>13, <1>14, <1>15, <1>16, <1>17, <1>18, <1>19, <1>20, <1>21, <1>22, <1>23

\* Every step keeps a source that is committed the stored log.
LEMMA SourcesStep ==
  ASSUME TypeOK, Shapes, OneOp, OpFits, Lives, Held, NoneUnbound, Sources, [Next]_vars
  PROVE  Sources'
<1> USE OwnershipAssumption
<1>1. ASSUME NEW a \in Attempts, Begin(a)
      PROVE  Sources'
  <2>0. entry.phase \notin {"none", "ready"} => entry.holder \in Attempts
    BY DEF TypeOK, Shapes, Someone
  <2>1. entry'.phase \in {"ready", "committing", "reserved"} => entry'.session = entry'.source
    BY <1>1, <2>0 DEF Sources, Settled, Held, Counts, Reserved, TypeOK, Someone, Shapes,
       Begin, Retiring, disk, pool, session, retiring
  <2>2. Settled' =>
          /\ entry'.source = stored'
          /\ state'.owner = Nobody /\ state'.cursor = Len(stored')
    BY <1>1, <2>0 DEF Sources, Settled, Held, Counts, Reserved, TypeOK, Someone, Shapes,
       Begin, Retiring, disk, pool, session, retiring
  <2> QED
    BY <2>1, <2>2 DEF Sources
<1>2. ASSUME NEW a \in Attempts, EnterIs(a)
      PROVE  Sources'
  <2>0. entry.phase \notin {"none", "ready"} => entry.holder \in Attempts
    BY DEF TypeOK, Shapes, Someone
  <2>1. entry'.phase \in {"ready", "committing", "reserved"} => entry'.session = entry'.source
    BY <1>2, <2>0 DEF Sources, Settled, Held, Counts, Reserved, TypeOK, Someone, Shapes,
       EnterIs, Sees, EntryIs
  <2>2. Settled' =>
          /\ entry'.source = stored'
          /\ state'.owner = Nobody /\ state'.cursor = Len(stored')
    BY <1>2, <2>0 DEF Sources, Settled, Held, Counts, Reserved, TypeOK, Someone, Shapes,
       EnterIs, Moves, Sees, EntryIs
  <2> QED
    BY <2>1, <2>2 DEF Sources
<1>3. ASSUME NEW a \in Attempts, RetirementFailed(a)
      PROVE  Sources'
  <2>0. entry.phase \notin {"none", "ready"} => entry.holder \in Attempts
    BY DEF TypeOK, Shapes, Someone
  <2>1. entry'.phase \in {"ready", "committing", "reserved"} => entry'.session = entry'.source
    BY <1>3, <2>0 DEF Sources, Settled, Held, Counts, Reserved, TypeOK, Someone, Shapes,
       RetirementFailed, Over, Move, disk, pool, session, retiring
  <2>2. Settled' =>
          /\ entry'.source = stored'
          /\ state'.owner = Nobody /\ state'.cursor = Len(stored')
    BY <1>3, <2>0 DEF Sources, Settled, Held, Counts, Reserved, TypeOK, Someone, Shapes,
       RetirementFailed, Over, Move, disk, pool, session, retiring
  <2> QED
    BY <2>1, <2>2 DEF Sources
<1>4. ASSUME NEW a \in Attempts, LoadIs(a)
      PROVE  Sources'
  <2>0. entry.phase \notin {"none", "ready"} => entry.holder \in Attempts
    BY DEF TypeOK, Shapes, Someone
  <2>1. entry'.phase \in {"ready", "committing", "reserved"} => entry'.session = entry'.source
    BY <1>4, <2>0 DEF Sources, Settled, Held, Counts, Reserved, TypeOK, Someone, Shapes,
       LoadIs, NoEntryLeft, EntryIs
  <2>2. Settled' =>
          /\ entry'.source = stored'
          /\ state'.owner = Nobody /\ state'.cursor = Len(stored')
    BY <1>4, <2>0 DEF Sources, Settled, Held, Counts, Reserved, TypeOK, Someone, Shapes,
       LoadIs, NoEntryLeft, EntryIs
  <2> QED
    BY <2>1, <2>2 DEF Sources
<1>5. ASSUME NEW a \in Attempts, ShareIs(a)
      PROVE  Sources'
  <2>0. entry.phase \notin {"none", "ready"} => entry.holder \in Attempts
    BY DEF TypeOK, Shapes, Someone
  <2>1. entry'.phase \in {"ready", "committing", "reserved"} => entry'.session = entry'.source
    BY <1>5, <2>0 DEF Sources, Settled, Held, Counts, Reserved, TypeOK, Someone, Shapes,
       ShareIs, Leaves, Sees, EntryIs
  <2>2. Settled' =>
          /\ entry'.source = stored'
          /\ state'.owner = Nobody /\ state'.cursor = Len(stored')
    BY <1>5, <2>0 DEF Sources, Settled, Held, Counts, Reserved, TypeOK, Someone, Shapes,
       ShareIs, Moves, Leaves, Sees, EntryIs
  <2> QED
    BY <2>1, <2>2 DEF Sources
<1>6. ASSUME NEW a \in Attempts, CommitIs(a)
      PROVE  Sources'
  <2>0. entry.phase \notin {"none", "ready"} => entry.holder \in Attempts
    BY DEF TypeOK, Shapes, Someone
  <2>9. Fits("commit", a)
    BY <1>6, HeadFits DEF CommitIs, Ops
  <2>1. entry'.phase \in {"ready", "committing", "reserved"} => entry'.session = entry'.source
    BY <1>6, <2>0, <2>9 DEF Sources, Settled, Held, Counts, Reserved, TypeOK, Someone,
       Shapes, CommitIs, Removes, Drops, Leaves, Sees, NoEntryLeft, EntryIs, Fits
  <2>2. Settled' =>
          /\ entry'.source = stored'
          /\ state'.owner = Nobody /\ state'.cursor = Len(stored')
    BY <1>6, <2>0, <2>9 DEF Sources, Settled, Held, Counts, Reserved, TypeOK, Someone,
       Shapes, CommitIs, Moves, Removes, Drops, Leaves, Sees, NoEntryLeft, EntryIs, Fits
  <2> QED
    BY <2>1, <2>2 DEF Sources
<1>7. ASSUME NEW a \in Attempts, ReserveIs(a)
      PROVE  Sources'
  <2>0. entry.phase \notin {"none", "ready"} => entry.holder \in Attempts
    BY DEF TypeOK, Shapes, Someone
  <2>1. entry'.phase \in {"ready", "committing", "reserved"} => entry'.session = entry'.source
    BY <1>7, <2>0 DEF Sources, Settled, Held, Counts, Reserved, TypeOK, Someone, Shapes,
       ReserveIs, Removes, Drops, Leaves, Sees, NoEntryLeft, EntryIs, Frees
  <2>2. Settled' =>
          /\ entry'.source = stored'
          /\ state'.owner = Nobody /\ state'.cursor = Len(stored')
    BY <1>7, <2>0 DEF Sources, Settled, Held, Counts, Reserved, TypeOK, Someone, Shapes,
       ReserveIs, Moves, Removes, Drops, Leaves, Sees, NoEntryLeft, EntryIs, Frees
  <2> QED
    BY <2>1, <2>2 DEF Sources
<1>8. ASSUME NEW a \in Attempts, CreateIs(a)
      PROVE  Sources'
  <2>0. entry.phase \notin {"none", "ready"} => entry.holder \in Attempts
    BY DEF TypeOK, Shapes, Someone
  <2>1. entry'.phase \in {"ready", "committing", "reserved"} => entry'.session = entry'.source
    BY <1>8, <2>0 DEF Sources, Settled, Held, Counts, Reserved, TypeOK, Someone, Shapes,
       CreateIs
  <2>2. Settled' =>
          /\ entry'.source = stored'
          /\ state'.owner = Nobody /\ state'.cursor = Len(stored')
    BY <1>8, <2>0 DEF Sources, Settled, Held, Counts, Reserved, TypeOK, Someone, Shapes,
       CreateIs, Moves
  <2> QED
    BY <2>1, <2>2 DEF Sources
<1>9. ASSUME NEW a \in Attempts, AbortIs(a)
      PROVE  Sources'
  <2>0. entry.phase \notin {"none", "ready"} => entry.holder \in Attempts
    BY DEF TypeOK, Shapes, Someone
  <2>1. entry'.phase \in {"ready", "committing", "reserved"} => entry'.session = entry'.source
    BY <1>9, <2>0 DEF Sources, Settled, Held, Counts, Reserved, TypeOK, Someone, Shapes,
       AbortIs, Removes, Drops, Leaves, Sees, NoEntryLeft, EntryIs
  <2>2. Settled' =>
          /\ entry'.source = stored'
          /\ state'.owner = Nobody /\ state'.cursor = Len(stored')
    BY <1>9, <2>0 DEF Sources, Settled, Held, Counts, Reserved, TypeOK, Someone, Shapes,
       AbortIs, Moves, Removes, Drops, Leaves, Sees, NoEntryLeft, EntryIs
  <2> QED
    BY <2>1, <2>2 DEF Sources
<1>10. ASSUME NEW a \in Attempts, UnwindIs(a)
      PROVE  Sources'
  <2>0. entry.phase \notin {"none", "ready"} => entry.holder \in Attempts
    BY DEF TypeOK, Shapes, Someone
  <2>1. entry'.phase \in {"ready", "committing", "reserved"} => entry'.session = entry'.source
    BY <1>10, <2>0 DEF Sources, Settled, Held, Counts, Reserved, TypeOK, Someone, Shapes,
       UnwindIs, Releases, Reusable, Removes, Drops, Leaves, Sees, NoEntryLeft, EntryIs,
       Frees
  <2>2. Settled' =>
          /\ entry'.source = stored'
          /\ state'.owner = Nobody /\ state'.cursor = Len(stored')
    BY <1>10, <2>0 DEF Sources, Settled, Held, Counts, Reserved, TypeOK, Someone, Shapes,
       UnwindIs, Moves, Releases, Reusable, Removes, Drops, Leaves, Sees, NoEntryLeft,
       EntryIs, Frees
  <2> QED
    BY <2>1, <2>2 DEF Sources
<1>11. ASSUME NEW a \in Attempts, PublishIs(a)
      PROVE  Sources'
  <2>0. entry.phase \notin {"none", "ready"} => entry.holder \in Attempts
    BY DEF TypeOK, Shapes, Someone
  <2>9. Reserved(a) => Attachable(a) /\ seen[a] = "current"
    BY DEF Sources, Settled, Held, Reserved, Attachable
  <2>1. entry'.phase \in {"ready", "committing", "reserved"} => entry'.session = entry'.source
    BY <1>11, <2>0, <2>9 DEF Sources, Settled, Held, Counts, Reserved, TypeOK, Someone,
       Shapes, PublishIs, Attachable, Removes, Drops, Leaves, Sees, NoEntryLeft, EntryIs
  <2>2. Settled' =>
          /\ entry'.source = stored'
          /\ state'.owner = Nobody /\ state'.cursor = Len(stored')
    BY <1>11, <2>0, <2>9 DEF Sources, Settled, Held, Counts, Reserved, TypeOK, Someone,
       Shapes, PublishIs, Moves, Attachable, Removes, Drops, Leaves, Sees, NoEntryLeft,
       EntryIs
  <2> QED
    BY <2>1, <2>2 DEF Sources
<1>12. ASSUME NEW a \in Attempts, LogIs(a)
      PROVE  Sources'
  BY <1>12 DEF Sources, Settled, LogIs
<1>13. ASSUME NEW a \in Attempts, Detach(a)
      PROVE  Sources'
  <2>0. entry.phase \notin {"none", "ready"} => entry.holder \in Attempts
    BY DEF TypeOK, Shapes, Someone
  <2>1. entry'.phase \in {"ready", "committing", "reserved"} => entry'.session = entry'.source
    BY <1>13, <2>0 DEF Sources, Settled, Held, Counts, Reserved, TypeOK, Someone, Shapes,
       Detach, Goto, Move, disk, pool, session
  <2>2. Settled' =>
          /\ entry'.source = stored'
          /\ state'.owner = Nobody /\ state'.cursor = Len(stored')
    BY <1>13, <2>0 DEF Sources, Settled, Held, Counts, Reserved, TypeOK, Someone, Shapes,
       Detach, Goto, Move, disk, pool, session
  <2> QED
    BY <2>1, <2>2 DEF Sources
<1>14. ASSUME NEW a \in Attempts, BindIs(a)
      PROVE  Sources'
  <2>1. On("init", a) /\ UNCHANGED <<entry, pc>>
    BY <1>14, ChainType DEF BindIs, Runs1, On
  <2>2. ~(entry.phase \in {"ready", "committing", "reserved"})
    BY <2>1 DEF NoneUnbound
  <2> QED
    BY <2>1, <2>2 DEF Sources, Settled
<1>15. ASSUME NEW a \in Attempts, SeedIs(a)
      PROVE  Sources'
  <2>1. NoEntryLeft \/ UNCHANGED <<stored, state, entry>>
    BY <1>15 DEF SeedIs, Appends, Invalidates
  <2>2. UNCHANGED pc
    BY <1>15 DEF SeedIs
  <2> QED
    BY <2>1, <2>2 DEF Sources, Settled, NoEntryLeft, EntryIs
<1>16. ASSUME NEW a \in Attempts, StartWriteIs(a)
      PROVE  Sources'
  BY <1>16 DEF Sources, Settled, StartWriteIs
<1>17. ASSUME NEW a \in Attempts, WriteIs(a)
      PROVE  Sources'
  BY <1>17 DEF Sources, Settled, WriteIs, Writable
<1>18. ASSUME NEW a \in Attempts, WrittenIs(a)
      PROVE  Sources'
  <2>1. NoEntryLeft \/ UNCHANGED <<stored, state, entry>>
    BY <1>18 DEF WrittenIs, Appends, Invalidates
  <2>2. UNCHANGED pc
    BY <1>18 DEF WrittenIs
  <2> QED
    BY <2>1, <2>2 DEF Sources, Settled, NoEntryLeft, EntryIs
<1>19. ASSUME NEW a \in Attempts, WriteFailsIs(a)
      PROVE  Sources'
  BY <1>19 DEF Sources, Settled, WriteFailsIs
<1>20. ASSUME NEW a \in Attempts, RetireIs(a)
      PROVE  Sources'
  BY <1>20 DEF Sources, Settled, RetireIs
<1>21. ASSUME NEW a \in Attempts, FinalIs(a)
      PROVE  Sources'
  <2>0. entry.phase \notin {"none", "ready"} => entry.holder \in Attempts
    BY DEF TypeOK, Shapes, Someone
  <2>1. entry'.phase \in {"ready", "committing", "reserved"} => entry'.session = entry'.source
    BY <1>21, <2>0 DEF Sources, Settled, Held, Counts, Reserved, TypeOK, Someone, Shapes,
       FinalIs
  <2>2. Settled' =>
          /\ entry'.source = stored'
          /\ state'.owner = Nobody /\ state'.cursor = Len(stored')
    BY <1>21, <2>0 DEF Sources, Settled, Held, Counts, Reserved, TypeOK, Someone, Shapes,
       FinalIs, Unowned
  <2> QED
    BY <2>1, <2>2 DEF Sources
<1>22. CASE Foreign
  <2>0. entry.phase \notin {"none", "ready"} => entry.holder \in Attempts
    BY DEF TypeOK, Shapes, Someone
  <2>1. entry'.phase \in {"ready", "committing", "reserved"} => entry'.session = entry'.source
    BY <1>22, <2>0 DEF Sources, Settled, Held, Counts, Reserved, TypeOK, Someone, Shapes,
       Foreign, pool, calls, session, retiring
  <2>2. Settled' =>
          /\ entry'.source = stored'
          /\ state'.owner = Nobody /\ state'.cursor = Len(stored')
    BY <1>22, <2>0 DEF Sources, Settled, Held, Counts, Reserved, TypeOK, Someone, Shapes,
       Foreign, pool, calls, session, retiring
  <2> QED
    BY <2>1, <2>2 DEF Sources
<1>23. CASE UNCHANGED vars
  BY <1>23 DEF Sources, Settled, vars, disk, pool, calls, session, retiring
<1> QED
  BY Does, <1>1, <1>2, <1>3, <1>4, <1>5, <1>6, <1>7, <1>8, <1>9, <1>10, <1>11, <1>12,
     <1>13, <1>14, <1>15, <1>16, <1>17, <1>18, <1>19, <1>20, <1>21, <1>22, <1>23

\* Every step leaves a log to its Session once it is not the source's.
LEMMA LogsStep ==
  ASSUME TypeOK, Shapes, OneOp, OpFits, Lives, Held, NoneUnbound, Sources, Logs, Owners, [Next]_vars
  PROVE  Logs'
<1> USE OwnershipAssumption
<1>0. log \in [Attempts -> Events]
  BY DEF Shapes
<1>1. ASSUME NEW a \in Attempts, Begin(a)
      PROVE  Logs'
  <2>1. ASSUME NEW b \in Attempts
        PROVE  Continues(b)'
    BY <1>1 DEF Logs, Continues, Own, Begins, Reserved, Begin, Retiring, disk, pool,
       session, retiring, Held, Counts, TypeOK, Lives, Lived
  <2> QED
    BY <2>1 DEF Logs
<1>2. ASSUME NEW a \in Attempts, EnterIs(a)
      PROVE  Logs'
  <2>1. ASSUME NEW b \in Attempts
        PROVE  Continues(b)'
    BY <1>2 DEF Logs, Continues, Own, Begins, Reserved, EnterIs, Moves, Sees, EntryIs,
       Held, Counts, TypeOK, Lives, Lived
  <2> QED
    BY <2>1 DEF Logs
<1>3. ASSUME NEW a \in Attempts, RetirementFailed(a)
      PROVE  Logs'
  <2>1. ASSUME NEW b \in Attempts
        PROVE  Continues(b)'
    BY <1>3 DEF Logs, Continues, Own, Begins, Reserved, RetirementFailed, Over, Move,
       disk, pool, session, retiring, Held, Counts, TypeOK, Lives, Lived
  <2> QED
    BY <2>1 DEF Logs
<1>4. ASSUME NEW a \in Attempts, LoadIs(a)
      PROVE  Logs'
  <2>1. ASSUME NEW b \in Attempts
        PROVE  Continues(b)'
    BY <1>4 DEF Logs, Continues, Own, Begins, Reserved, LoadIs, NoEntryLeft, EntryIs,
       Held, Counts, TypeOK, Lives, Lived
  <2> QED
    BY <2>1 DEF Logs
<1>5. ASSUME NEW a \in Attempts, ShareIs(a)
      PROVE  Logs'
  <2>1. ASSUME NEW b \in Attempts
        PROVE  Continues(b)'
    BY <1>5 DEF Logs, Continues, Own, Begins, Reserved, ShareIs, Moves, Leaves, Sees,
       EntryIs, Held, Counts, TypeOK, Lives, Lived
  <2> QED
    BY <2>1 DEF Logs
<1>6. ASSUME NEW a \in Attempts, CommitIs(a)
      PROVE  Logs'
  <2>0. Fits("commit", a)
    BY <1>6, HeadFits DEF CommitIs, Ops
  <2>1. ASSUME NEW b \in Attempts
        PROVE  Continues(b)'
    BY <1>6, <2>0 DEF Logs, Continues, Own, Begins, Reserved, CommitIs, Moves, Removes,
       Drops, Leaves, Sees, NoEntryLeft, EntryIs, Held, Counts, TypeOK, Lives, Lived, Fits
  <2> QED
    BY <2>1 DEF Logs
<1>7. ASSUME NEW a \in Attempts, ReserveIs(a)
      PROVE  Logs'
  <2>0. seen[a] = "current" => entry.session = entry.source
    BY <1>7 DEF ReserveIs, Held, Counts, Sources
  <2>1. ASSUME NEW b \in Attempts
        PROVE  Continues(b)'
    <3>1. CASE b = a
      BY <1>7, <2>0, <1>0, <3>1 DEF Logs, Continues, Own, Begins, Reserved, ReserveIs,
         Moves, Removes, Drops, Leaves, Sees, NoEntryLeft, EntryIs, Frees, Held, Counts,
         TypeOK, Lives, Lived
    <3>2. CASE b # a
      BY <1>7, <2>0, <1>0, <3>2 DEF Logs, Continues, Own, Begins, Reserved, ReserveIs,
         Moves, Removes, Drops, Leaves, Sees, NoEntryLeft, EntryIs, Frees, Held, Counts,
         TypeOK, Lives, Lived
    <3> QED
      BY <3>1, <3>2
  <2> QED
    BY <2>1 DEF Logs
<1>8. ASSUME NEW a \in Attempts, CreateIs(a)
      PROVE  Logs'
  <2>1. ASSUME NEW b \in Attempts
        PROVE  Continues(b)'
    <3>1. CASE b = a
      BY <1>8, <1>0, EmptyLog, <3>1 DEF Logs, Continues, Own, Begins, Reserved, CreateIs,
         Moves, Held, Counts, TypeOK, Lives, Lived
    <3>2. CASE b # a
      BY <1>8, <1>0, EmptyLog, <3>2 DEF Logs, Continues, Own, Begins, Reserved, CreateIs,
         Moves, Held, Counts, TypeOK, Lives, Lived
    <3> QED
      BY <3>1, <3>2
  <2> QED
    BY <2>1 DEF Logs
<1>9. ASSUME NEW a \in Attempts, AbortIs(a)
      PROVE  Logs'
  <2>1. ASSUME NEW b \in Attempts
        PROVE  Continues(b)'
    <3>1. CASE b = a
      BY <1>9, <3>1 DEF Logs, Continues, Own, Begins, Reserved, AbortIs, Moves, Removes,
         Drops, Leaves, Sees, NoEntryLeft, EntryIs, Held, Counts, TypeOK, Lives, Lived
    <3>2. CASE b # a
      BY <1>9, <3>2 DEF Logs, Continues, Own, Begins, Reserved, AbortIs, Moves, Removes,
         Drops, Leaves, Sees, NoEntryLeft, EntryIs, Held, Counts, TypeOK, Lives, Lived
    <3> QED
      BY <3>1, <3>2
  <2> QED
    BY <2>1 DEF Logs
<1>10. ASSUME NEW a \in Attempts, UnwindIs(a)
      PROVE  Logs'
  <2>1. ASSUME NEW b \in Attempts
        PROVE  Continues(b)'
    <3>1. CASE b = a
      BY <1>10, <1>0, EmptyLog, <3>1 DEF Logs, Continues, Own, Begins, Reserved, UnwindIs,
         Moves, Releases, Reusable, Removes, Drops, Leaves, Sees, NoEntryLeft, EntryIs,
         Frees, Held, Counts, TypeOK, Lives, Lived
    <3>2. CASE b # a
      BY <1>10, <1>0, EmptyLog, <3>2 DEF Logs, Continues, Own, Begins, Reserved, UnwindIs,
         Moves, Releases, Reusable, Removes, Drops, Leaves, Sees, NoEntryLeft, EntryIs,
         Frees, Held, Counts, TypeOK, Lives, Lived
    <3> QED
      BY <3>1, <3>2
  <2> QED
    BY <2>1 DEF Logs
<1>11. ASSUME NEW a \in Attempts, PublishIs(a)
      PROVE  Logs'
  <2>9. Reserved(a) => Attachable(a) /\ seen[a] = "current"
    BY DEF Sources, Settled, Held, Reserved, Attachable
  <2>1. entry' = entry \/ (Reserved(a) /\ entry'.phase = "none")
    BY <1>11, <2>9 DEF PublishIs, Attachable, Removes, Drops, NoEntryLeft, EntryIs
  <2>2. state' = state \/ (state'.owner = a /\ state.owner = Nobody)
    BY <1>11 DEF PublishIs, Attachable, Shapes
  <2>3. /\ log' = log /\ pc[a] = "setup" /\ pc'[a] # "setup"
        /\ \A b \in Attempts \ {a} : pc'[b] = pc[b] /\ init'[b] = init[b]
    BY <1>11 DEF PublishIs, Moves, TypeOK
  <2>4. ASSUME NEW b \in Attempts
        PROVE  Continues(b)'
    <3>1. CASE b = a
      <4>1. Reserved(a)' => FALSE
        BY <1>11, <2>9 DEF PublishIs, Attachable, Removes, Drops, NoEntryLeft, EntryIs,
           Reserved
      <4>2. init'[a] = "pending" /\ state'.owner # a => Own(a, 0)
        BY <1>11, <2>2 DEF PublishIs, Attachable, Logs, Continues, Reserved, Lives, Lived,
           Shapes
      <4> QED
        BY <2>3, <3>1, <4>1, <4>2 DEF Continues, Own
    <3>2. CASE b # a
      BY <2>1, <2>2, <2>3, <3>2 DEF Logs, Continues, Own, Begins, Reserved
    <3> QED
      BY <3>1, <3>2
  <2> QED
    BY <2>4 DEF Logs
<1>12. ASSUME NEW a \in Attempts, LogIs(a)
      PROVE  Logs'
  <2>1. \A i \in 1..Len(log'[a]) : i \in 1..Len(log[a]) \/ i = Len(log[a]) + 1
    BY <1>12, LogLen DEF LogIs, Shapes
  <2>2. Len(entry.source) \in Nat /\ \A b \in Attempts : Len(log[b]) \in Nat
    BY LogLen DEF Shapes
  <2>3. ASSUME NEW b \in Attempts
        PROVE  Continues(b)'
    <3>1. CASE b = a
      <4>1. Reserved(a)' => Begins(entry'.source, log'[a])
        <5>1. Begins(log[a], log'[a]) /\ UNCHANGED entry
          BY <1>12 DEF LogIs
        <5>2. Len(log'[a]) \in Nat
          BY <1>12, <2>2 DEF LogIs
        <5>3. Begins(entry.source, log[a]) => Begins(entry.source, log'[a])
          BY <2>2, <5>1, <5>2 DEF Begins
        <5> QED
          BY <5>1, <5>3 DEF Logs, Continues, Reserved
      <4>2. \A n \in Nat : Own(a, n) => Own(a, n)'
        BY <1>12, <2>1, <2>2 DEF Begins, Own, LogIs
      <4>3. Reserved(a)' => Own(a, Len(entry.source))'
        BY <1>12, <2>2, <4>2 DEF Logs, Continues, Reserved, LogIs
      <4>4. /\ pc'[a] = "setup" /\ ~Reserved(a)' => Own(a, 0)'
            /\ init'[a] = "pending" /\ state'.owner # a => Own(a, 0)'
        BY <1>12, <4>2 DEF Logs, Continues, Reserved, LogIs
      <4> QED
        BY <1>12, <3>1, <4>1, <4>3, <4>4 DEF Continues, LogIs
    <3>2. CASE b # a
      BY <1>12, <3>2 DEF Logs, Continues, Own, Begins, Reserved, LogIs
    <3> QED
      BY <3>1, <3>2
  <2> QED
    BY <2>3 DEF Logs
<1>13. ASSUME NEW a \in Attempts, Detach(a)
      PROVE  Logs'
  <2>1. ASSUME NEW b \in Attempts
        PROVE  Continues(b)'
    BY <1>13 DEF Logs, Continues, Own, Begins, Reserved, Detach, Goto, Move, disk, pool,
       session, Held, Counts, TypeOK, Lives, Lived
  <2> QED
    BY <2>1 DEF Logs
<1>14. ASSUME NEW a \in Attempts, BindIs(a)
      PROVE  Logs'
  <2>1. Fits("init", a)
    BY <1>14, HeadFits DEF BindIs, Ops
  <2>2. UNCHANGED <<entry, pc, log>> /\ (state'.owner = a \/ UNCHANGED state)
        /\ (init' = init \/ init' = [init EXCEPT ![a] = "failed"] \/ init' = [init EXCEPT ![a] = "ready"])
    BY <1>14 DEF BindIs
  <2>3. init' = init => state'.owner = a
    BY <1>14, <2>1 DEF BindIs, TypeOK, Fits
  <2>4. ASSUME NEW b \in Attempts, state.owner = b, state'.owner # b
        PROVE  Own(b, 0)
    <3>1. stored = <<>> /\ state.owner # a /\ Len(stored) = 0
      BY <1>14, <2>2, <2>4, EmptyLog DEF BindIs, Collides
    <3> QED
      BY <2>4, <3>1 DEF Owners, Continued
  <2> QED
    BY <2>2, <2>3, <2>4 DEF Logs, Continues, Own, Begins, Reserved, TypeOK
<1>15. ASSUME NEW a \in Attempts, SeedIs(a)
      PROVE  Logs'
  <2>1. state.owner = a
    BY <1>15, OwnerRuns DEF SeedIs
  <2>2. entry.phase # "reserved"
    BY <2>1 DEF Sources, Settled
  <2>3. /\ UNCHANGED <<pc, log>> /\ state'.owner = state.owner
        /\ entry'.phase # "reserved"
        /\ \A b \in Attempts \ {a} : init'[b] = init[b]
    BY <1>15, <2>2 DEF SeedIs, Appends, Invalidates, NoEntryLeft, EntryIs, Shapes, TypeOK
  <2> QED
    BY <2>1, <2>2, <2>3 DEF Logs, Continues, Own, Reserved
<1>16. ASSUME NEW a \in Attempts, StartWriteIs(a)
      PROVE  Logs'
  BY <1>16 DEF Logs, Continues, Own, Begins, Reserved, StartWriteIs
<1>17. ASSUME NEW a \in Attempts, WriteIs(a)
      PROVE  Logs'
  BY <1>17 DEF Logs, Continues, Own, Begins, Reserved, WriteIs
<1>18. ASSUME NEW a \in Attempts, WrittenIs(a)
      PROVE  Logs'
  <2>1. state.owner = a
    BY <1>18, OwnerRuns DEF WrittenIs
  <2>2. entry.phase # "reserved"
    BY <2>1 DEF Sources, Settled
  <2>3. /\ UNCHANGED <<pc, log>> /\ state'.owner = state.owner
        /\ entry'.phase # "reserved"
        /\ \A b \in Attempts \ {a} : init'[b] = init[b]
    BY <1>18, <2>2 DEF WrittenIs, Appends, Invalidates, NoEntryLeft, EntryIs, Shapes,
       TypeOK
  <2> QED
    BY <2>1, <2>2, <2>3 DEF Logs, Continues, Own, Reserved
<1>19. ASSUME NEW a \in Attempts, WriteFailsIs(a)
      PROVE  Logs'
  BY <1>19 DEF Logs, Continues, Own, Begins, Reserved, WriteFailsIs
<1>20. ASSUME NEW a \in Attempts, RetireIs(a)
      PROVE  Logs'
  BY <1>20 DEF Logs, Continues, Own, Begins, Reserved, RetireIs
<1>21. ASSUME NEW a \in Attempts, FinalIs(a)
      PROVE  Logs'
  <2>1. Fits("final", a)
    BY <1>21, HeadFits DEF FinalIs, Ops
  <2> QED
    BY <1>21, <2>1 DEF FinalIs, Unowned, Fits, Logs, Continues, Own, Begins, Reserved
<1>22. CASE Foreign
  <2>1. ASSUME NEW b \in Attempts
        PROVE  Continues(b)'
    BY <1>22 DEF Logs, Continues, Own, Begins, Reserved, Foreign, pool, calls, session,
       retiring, Held, Counts, TypeOK, Lives, Lived
  <2> QED
    BY <2>1 DEF Logs
<1>23. CASE UNCHANGED vars
  BY <1>23 DEF Logs, Continues, Own, Begins, Reserved, vars, disk, pool, calls, session,
     retiring
<1> QED
  BY Does, <1>1, <1>2, <1>3, <1>4, <1>5, <1>6, <1>7, <1>8, <1>9, <1>10, <1>11, <1>12,
     <1>13, <1>14, <1>15, <1>16, <1>17, <1>18, <1>19, <1>20, <1>21, <1>22, <1>23

\* Every step leaves the published session behind every other to be bound.
LEMMA BoundStep ==
  ASSUME TypeOK, Shapes, OneOp, OpFits, Lives, NoneUnbound, Owners, [Next]_vars
  PROVE  (\A b \in Attempts : BoundLast(b))'
<1> USE OwnershipAssumption
<1>1. ASSUME NEW a \in Attempts, Begin(a)
      PROVE  (\A b \in Attempts : BoundLast(b))'
  <2>1. \A b \in Attempts : Behind(b) => Behind(b)'
    BY <1>1 DEF Begin, Retiring, disk, pool, session, retiring, Behind
  <2>2. \A b \in Attempts : pc'[b] = "published" => pc[b] = "published"
    BY <1>1 DEF Begin, Retiring, disk, pool, session, retiring, TypeOK
  <2> QED
    BY <2>1, <2>2 DEF Owners, BoundLast
<1>2. ASSUME NEW a \in Attempts, EnterIs(a)
      PROVE  (\A b \in Attempts : BoundLast(b))'
  <2>1. \A b \in Attempts : Behind(b) => Behind(b)'
    BY <1>2, BehindQueued DEF EnterIs, Ops, Behind
  <2>2. \A b \in Attempts : pc'[b] = "published" => pc[b] = "published"
    BY <1>2 DEF EnterIs, Moves, TypeOK
  <2> QED
    BY <2>1, <2>2 DEF Owners, BoundLast
<1>3. ASSUME NEW a \in Attempts, RetirementFailed(a)
      PROVE  (\A b \in Attempts : BoundLast(b))'
  <2>1. \A b \in Attempts : Behind(b) => Behind(b)'
    BY <1>3 DEF RetirementFailed, Over, Move, disk, pool, session, retiring, Behind
  <2>2. \A b \in Attempts : pc'[b] = "published" => pc[b] = "published"
    BY <1>3 DEF RetirementFailed, Over, Move, disk, pool, session, retiring, TypeOK
  <2> QED
    BY <2>1, <2>2 DEF Owners, BoundLast
<1>4. ASSUME NEW a \in Attempts, LoadIs(a)
      PROVE  (\A b \in Attempts : BoundLast(b))'
  <2>1. \A b \in Attempts : Behind(b) => Behind(b)'
    BY <1>4, BehindEnded DEF LoadIs, Runs1
  <2>2. \A b \in Attempts : pc'[b] = "published" => pc[b] = "published"
    BY <1>4 DEF LoadIs, TypeOK
  <2> QED
    BY <2>1, <2>2 DEF Owners, BoundLast
<1>5. ASSUME NEW a \in Attempts, ShareIs(a)
      PROVE  (\A b \in Attempts : BoundLast(b))'
  <2>1. \A b \in Attempts : Behind(b) => Behind(b)'
    BY <1>5, BehindQueued DEF ShareIs, Ops, Behind
  <2>2. \A b \in Attempts : pc'[b] = "published" => pc[b] = "published"
    BY <1>5 DEF ShareIs, Moves, TypeOK
  <2> QED
    BY <2>1, <2>2 DEF Owners, BoundLast
<1>6. ASSUME NEW a \in Attempts, CommitIs(a)
      PROVE  (\A b \in Attempts : BoundLast(b))'
  <2>1. \A b \in Attempts : Behind(b) => Behind(b)'
    BY <1>6, BehindEnded DEF CommitIs, Runs1
  <2>2. \A b \in Attempts : pc'[b] = "published" => pc[b] = "published"
    BY <1>6 DEF CommitIs, Moves, TypeOK
  <2> QED
    BY <2>1, <2>2 DEF Owners, BoundLast
<1>7. ASSUME NEW a \in Attempts, ReserveIs(a)
      PROVE  (\A b \in Attempts : BoundLast(b))'
  <2>1. \A b \in Attempts : Behind(b) => Behind(b)'
    BY <1>7 DEF ReserveIs, Behind
  <2>2. \A b \in Attempts : pc'[b] = "published" => pc[b] = "published"
    BY <1>7 DEF ReserveIs, Moves, TypeOK
  <2> QED
    BY <2>1, <2>2 DEF Owners, BoundLast
<1>8. ASSUME NEW a \in Attempts, CreateIs(a)
      PROVE  (\A b \in Attempts : BoundLast(b))'
  <2>1. \A b \in Attempts : Behind(b) => Behind(b)'
    BY <1>8 DEF CreateIs, Behind
  <2>2. \A b \in Attempts : pc'[b] = "published" => pc[b] = "published"
    BY <1>8 DEF CreateIs, Moves, TypeOK
  <2> QED
    BY <2>1, <2>2 DEF Owners, BoundLast
<1>9. ASSUME NEW a \in Attempts, AbortIs(a)
      PROVE  (\A b \in Attempts : BoundLast(b))'
  <2>1. \A b \in Attempts : Behind(b) => Behind(b)'
    BY <1>9 DEF AbortIs, Behind
  <2>2. \A b \in Attempts : pc'[b] = "published" => pc[b] = "published"
    BY <1>9 DEF AbortIs, Moves, TypeOK
  <2> QED
    BY <2>1, <2>2 DEF Owners, BoundLast
<1>10. ASSUME NEW a \in Attempts, UnwindIs(a)
      PROVE  (\A b \in Attempts : BoundLast(b))'
  <2>1. \A b \in Attempts : Behind(b) => Behind(b)'
    BY <1>10 DEF UnwindIs, Behind
  <2>2. \A b \in Attempts : pc'[b] = "published" => pc[b] = "published"
    BY <1>10 DEF UnwindIs, Moves, TypeOK
  <2> QED
    BY <2>1, <2>2 DEF Owners, BoundLast
<1>11. ASSUME NEW a \in Attempts, PublishIs(a)
      PROVE  (\A b \in Attempts : BoundLast(b))'
  <2>1. Attachable(a) => \A i \in 1..Len(chain) : chain[i].op # "init"
    BY ChainType DEF Attachable, Reserved, NoneUnbound, On, Ops
  <2>2. Len(chain) \in Nat
    BY ChainType
  <2>3. pc'[a] = "published" => Behind(a)'
    <3>1. CASE Queued("init", a)
      <4>1. Len(chain') \in 1..Len(chain') /\ chain'[Len(chain')] = Op("init", a)
        BY <2>2, <3>1 DEF Queued
      <4>2. \A j \in 1..Len(chain') : chain'[j].for # a => Len(chain') \in j + 1..Len(chain')
        BY <2>2, <3>1, <4>1 DEF Queued, Op
      <4> QED
        BY <4>1, <4>2 DEF Behind, Op
    <3>2. CASE Attachable(a) /\ UNCHANGED chain
      BY <2>1, <3>2 DEF Behind
    <3> QED
      BY <1>11, <3>1, <3>2 DEF PublishIs, Moves
  <2>4. \A b \in Attempts : b # a => pc'[b] # "published"
    BY <1>11 DEF PublishIs, Moves, Lives, Lived
  <2> QED
    BY <2>3, <2>4 DEF BoundLast
<1>12. ASSUME NEW a \in Attempts, LogIs(a)
      PROVE  (\A b \in Attempts : BoundLast(b))'
  <2>1. \A b \in Attempts : Behind(b) => Behind(b)'
    BY <1>12 DEF LogIs, Behind
  <2>2. \A b \in Attempts : pc'[b] = "published" => pc[b] = "published"
    BY <1>12 DEF LogIs, TypeOK
  <2> QED
    BY <2>1, <2>2 DEF Owners, BoundLast
<1>13. ASSUME NEW a \in Attempts, Detach(a)
      PROVE  (\A b \in Attempts : BoundLast(b))'
  <2>1. \A b \in Attempts : Behind(b) => Behind(b)'
    BY <1>13 DEF Detach, Goto, Move, disk, pool, session, Behind
  <2>2. \A b \in Attempts : pc'[b] = "published" => pc[b] = "published"
    BY <1>13 DEF Detach, Goto, Move, disk, pool, session, TypeOK
  <2> QED
    BY <2>1, <2>2 DEF Owners, BoundLast
<1>14. ASSUME NEW a \in Attempts, BindIs(a)
      PROVE  (\A b \in Attempts : BoundLast(b))'
  <2>1. \A b \in Attempts : Behind(b) => Behind(b)'
    BY <1>14, BehindEnded, BehindAdvanced DEF BindIs, Runs1, Ops
  <2>2. \A b \in Attempts : pc'[b] = "published" => pc[b] = "published"
    BY <1>14 DEF BindIs, TypeOK
  <2> QED
    BY <2>1, <2>2 DEF Owners, BoundLast
<1>15. ASSUME NEW a \in Attempts, SeedIs(a)
      PROVE  (\A b \in Attempts : BoundLast(b))'
  <2>1. \A b \in Attempts : Behind(b) => Behind(b)'
    BY <1>15, BehindEnded DEF SeedIs, Runs1
  <2>2. \A b \in Attempts : pc'[b] = "published" => pc[b] = "published"
    BY <1>15 DEF SeedIs, TypeOK
  <2> QED
    BY <2>1, <2>2 DEF Owners, BoundLast
<1>16. ASSUME NEW a \in Attempts, StartWriteIs(a)
      PROVE  (\A b \in Attempts : BoundLast(b))'
  <2>1. \A b \in Attempts : Behind(b) => Behind(b)'
    BY <1>16, BehindQueued DEF StartWriteIs, Ops, Behind
  <2>2. \A b \in Attempts : pc'[b] = "published" => pc[b] = "published"
    BY <1>16 DEF StartWriteIs, TypeOK
  <2> QED
    BY <2>1, <2>2 DEF Owners, BoundLast
<1>17. ASSUME NEW a \in Attempts, WriteIs(a)
      PROVE  (\A b \in Attempts : BoundLast(b))'
  <2>1. \A b \in Attempts : Behind(b) => Behind(b)'
    BY <1>17, BehindEnded, BehindAdvanced DEF WriteIs, Runs1, Ops
  <2>2. \A b \in Attempts : pc'[b] = "published" => pc[b] = "published"
    BY <1>17 DEF WriteIs, TypeOK
  <2> QED
    BY <2>1, <2>2 DEF Owners, BoundLast
<1>18. ASSUME NEW a \in Attempts, WrittenIs(a)
      PROVE  (\A b \in Attempts : BoundLast(b))'
  <2>1. \A b \in Attempts : Behind(b) => Behind(b)'
    BY <1>18, BehindEnded DEF WrittenIs, Runs1
  <2>2. \A b \in Attempts : pc'[b] = "published" => pc[b] = "published"
    BY <1>18 DEF WrittenIs, TypeOK
  <2> QED
    BY <2>1, <2>2 DEF Owners, BoundLast
<1>19. ASSUME NEW a \in Attempts, WriteFailsIs(a)
      PROVE  (\A b \in Attempts : BoundLast(b))'
  <2>1. \A b \in Attempts : Behind(b) => Behind(b)'
    BY <1>19, BehindEnded DEF WriteFailsIs, Runs1
  <2>2. \A b \in Attempts : pc'[b] = "published" => pc[b] = "published"
    BY <1>19 DEF WriteFailsIs, TypeOK
  <2> QED
    BY <2>1, <2>2 DEF Owners, BoundLast
<1>20. ASSUME NEW a \in Attempts, RetireIs(a)
      PROVE  (\A b \in Attempts : BoundLast(b))'
  <2>1. \A b \in Attempts : Behind(b) => Behind(b)'
    BY <1>20, BehindQueued DEF RetireIs, Ops, Behind
  <2>2. \A b \in Attempts : pc'[b] = "published" => pc[b] = "published"
    BY <1>20 DEF RetireIs, TypeOK
  <2> QED
    BY <2>1, <2>2 DEF Owners, BoundLast
<1>21. ASSUME NEW a \in Attempts, FinalIs(a)
      PROVE  (\A b \in Attempts : BoundLast(b))'
  <2>1. \A b \in Attempts : Behind(b) => Behind(b)'
    BY <1>21, BehindEnded DEF FinalIs, Runs1
  <2>2. \A b \in Attempts : pc'[b] = "published" => pc[b] = "published"
    BY <1>21 DEF FinalIs, TypeOK
  <2> QED
    BY <2>1, <2>2 DEF Owners, BoundLast
<1>22. CASE Foreign
  <2>1. \A b \in Attempts : Behind(b) => Behind(b)'
    BY <1>22 DEF Foreign, pool, calls, session, retiring, Behind
  <2>2. \A b \in Attempts : pc'[b] = "published" => pc[b] = "published"
    BY <1>22 DEF Foreign, pool, calls, session, retiring, TypeOK
  <2> QED
    BY <2>1, <2>2 DEF Owners, BoundLast
<1>23. CASE UNCHANGED vars
  <2>1. \A b \in Attempts : Behind(b) => Behind(b)'
    BY <1>23 DEF vars, disk, pool, calls, session, retiring, Behind
  <2>2. \A b \in Attempts : pc'[b] = "published" => pc[b] = "published"
    BY <1>23 DEF vars, disk, pool, calls, session, retiring, TypeOK
  <2> QED
    BY <2>1, <2>2 DEF Owners, BoundLast
<1> QED
  BY Does, <1>1, <1>2, <1>3, <1>4, <1>5, <1>6, <1>7, <1>8, <1>9, <1>10, <1>11, <1>12,
     <1>13, <1>14, <1>15, <1>16, <1>17, <1>18, <1>19, <1>20, <1>21, <1>22, <1>23

\* Every step leaves an owner whose log continues what is stored.
LEMMA ContinuedStep ==
  ASSUME IInv, Shapes', [Next]_vars
  PROVE  (\A b \in Attempts : Continued(b))'
<1> USE OwnershipAssumption
<1>0. log \in [Attempts -> Events] /\ saved \in [Attempts -> Nat]
  BY DEF IInv, Shapes
<1>stored. stored' \in Events
  BY DEF Shapes
<1> USE DEF IInv
<1>1. ASSUME NEW a \in Attempts, Begin(a)
      PROVE  (\A b \in Attempts : Continued(b))'
  <2>1. ASSUME NEW b \in Attempts, state'.owner = b
        PROVE  /\ pc[b] \in {"published", "gone"} /\ pc'[b] \in {"published", "gone"}
               /\ UNCHANGED <<stored, state>> /\ log'[b] = log[b] /\ saved'[b] = saved[b]
               /\ init'[b] = init[b]
    BY <1>1, <1>0, <2>1, EmptyLog DEF Owners, Continued, Lives, Lived, TypeOK, Begin,
       Retiring, disk, pool, session, retiring
  <2> QED
    BY <2>1 DEF Owners, Continued, Own
<1>2. ASSUME NEW a \in Attempts, EnterIs(a)
      PROVE  (\A b \in Attempts : Continued(b))'
  <2>1. ASSUME NEW b \in Attempts, state'.owner = b
        PROVE  /\ pc[b] \in {"published", "gone"} /\ pc'[b] \in {"published", "gone"}
               /\ UNCHANGED <<stored, state>> /\ log'[b] = log[b] /\ saved'[b] = saved[b]
               /\ init'[b] = init[b]
    BY <1>2, <1>0, <2>1, EmptyLog DEF Owners, Continued, Lives, Lived, TypeOK, EnterIs,
       Moves
  <2> QED
    BY <2>1 DEF Owners, Continued, Own
<1>3. ASSUME NEW a \in Attempts, RetirementFailed(a)
      PROVE  (\A b \in Attempts : Continued(b))'
  <2>1. ASSUME NEW b \in Attempts, state'.owner = b
        PROVE  /\ pc[b] \in {"published", "gone"} /\ pc'[b] \in {"published", "gone"}
               /\ UNCHANGED <<stored, state>> /\ log'[b] = log[b] /\ saved'[b] = saved[b]
               /\ init'[b] = init[b]
    BY <1>3, <1>0, <2>1, EmptyLog DEF Owners, Continued, Lives, Lived, TypeOK,
       RetirementFailed, Over, Move, disk, pool, session, retiring
  <2> QED
    BY <2>1 DEF Owners, Continued, Own
<1>4. ASSUME NEW a \in Attempts, LoadIs(a)
      PROVE  (\A b \in Attempts : Continued(b))'
  <2>1. ASSUME NEW b \in Attempts, state'.owner = b
        PROVE  /\ pc[b] \in {"published", "gone"} /\ pc'[b] \in {"published", "gone"}
               /\ UNCHANGED <<stored, state>> /\ log'[b] = log[b] /\ saved'[b] = saved[b]
               /\ init'[b] = init[b]
    BY <1>4, <1>0, <2>1, EmptyLog DEF Owners, Continued, Lives, Lived, TypeOK, LoadIs
  <2> QED
    BY <2>1 DEF Owners, Continued, Own
<1>5. ASSUME NEW a \in Attempts, ShareIs(a)
      PROVE  (\A b \in Attempts : Continued(b))'
  <2>1. ASSUME NEW b \in Attempts, state'.owner = b
        PROVE  /\ pc[b] \in {"published", "gone"} /\ pc'[b] \in {"published", "gone"}
               /\ UNCHANGED <<stored, state>> /\ log'[b] = log[b] /\ saved'[b] = saved[b]
               /\ init'[b] = init[b]
    BY <1>5, <1>0, <2>1, EmptyLog DEF Owners, Continued, Lives, Lived, TypeOK, ShareIs,
       Moves
  <2> QED
    BY <2>1 DEF Owners, Continued, Own
<1>6. ASSUME NEW a \in Attempts, CommitIs(a)
      PROVE  (\A b \in Attempts : Continued(b))'
  <2>1. \/ state'.owner = Nobody
        \/ UNCHANGED <<stored, state, log, saved, init>> /\ \A b \in Attempts \ {a} : pc'[b] = pc[b]
    BY <1>6 DEF CommitIs, Moves
  <2>2. Fits("commit", a)
    BY <1>6, HeadFits DEF CommitIs, Ops
  <2> QED
    BY <2>1, <2>2 DEF Owners, Continued, Own, Fits
<1>7. ASSUME NEW a \in Attempts, ReserveIs(a)
      PROVE  (\A b \in Attempts : Continued(b))'
  <2>1. ASSUME NEW b \in Attempts, state'.owner = b
        PROVE  /\ pc[b] \in {"published", "gone"} /\ pc'[b] \in {"published", "gone"}
               /\ UNCHANGED <<stored, state>> /\ log'[b] = log[b] /\ saved'[b] = saved[b]
               /\ init'[b] = init[b]
    BY <1>7, <1>0, <2>1, EmptyLog DEF Owners, Continued, Lives, Lived, TypeOK, ReserveIs,
       Moves
  <2> QED
    BY <2>1 DEF Owners, Continued, Own
<1>8. ASSUME NEW a \in Attempts, CreateIs(a)
      PROVE  (\A b \in Attempts : Continued(b))'
  <2>1. ASSUME NEW b \in Attempts, state'.owner = b
        PROVE  /\ pc[b] \in {"published", "gone"} /\ pc'[b] \in {"published", "gone"}
               /\ UNCHANGED <<stored, state>> /\ log'[b] = log[b] /\ saved'[b] = saved[b]
               /\ init'[b] = init[b]
    BY <1>8, <1>0, <2>1, EmptyLog DEF Owners, Continued, Lives, Lived, TypeOK, CreateIs,
       Moves
  <2> QED
    BY <2>1 DEF Owners, Continued, Own
<1>9. ASSUME NEW a \in Attempts, AbortIs(a)
      PROVE  (\A b \in Attempts : Continued(b))'
  <2>1. ASSUME NEW b \in Attempts, state'.owner = b
        PROVE  /\ pc[b] \in {"published", "gone"} /\ pc'[b] \in {"published", "gone"}
               /\ UNCHANGED <<stored, state>> /\ log'[b] = log[b] /\ saved'[b] = saved[b]
               /\ init'[b] = init[b]
    BY <1>9, <1>0, <2>1, EmptyLog DEF Owners, Continued, Lives, Lived, TypeOK, AbortIs,
       Moves
  <2> QED
    BY <2>1 DEF Owners, Continued, Own
<1>10. ASSUME NEW a \in Attempts, UnwindIs(a)
      PROVE  (\A b \in Attempts : Continued(b))'
  <2>1. ASSUME NEW b \in Attempts, state'.owner = b
        PROVE  /\ pc[b] \in {"published", "gone"} /\ pc'[b] \in {"published", "gone"}
               /\ UNCHANGED <<stored, state>> /\ log'[b] = log[b] /\ saved'[b] = saved[b]
               /\ init'[b] = init[b]
    BY <1>10, <1>0, <2>1, EmptyLog DEF Owners, Continued, Lives, Lived, TypeOK, UnwindIs,
       Moves
  <2> QED
    BY <2>1 DEF Owners, Continued, Own
<1>11. ASSUME NEW a \in Attempts, PublishIs(a)
      PROVE  (\A b \in Attempts : Continued(b))'
  <2>1. Reserved(a) => state.cursor = Len(stored) /\ entry.source = stored
    BY DEF Sources, Settled, Reserved
  <2>2. Len(stored) \in Nat /\ Len(log[a]) \in Nat
    BY LogLen DEF Shapes
  <2>3. CASE Attachable(a) /\ state' = [state EXCEPT !.owner = a]
    <3>1. state'.owner = a /\ state'.cursor = state.cursor
      BY <2>3 DEF Shapes
    <3>2. pc'[a] = "published" /\ saved'[a] = Len(log[a]) /\ UNCHANGED <<stored, log>>
      BY <1>11, <1>0, <2>3 DEF PublishIs, Moves, Attachable
    <3>3. Begins(stored, log[a]) /\ Own(a, Len(stored))
      BY <2>1, <2>3 DEF Attachable, Logs, Continues
    <3> QED
      BY <2>1, <2>2, <2>3, <3>1, <3>2, <3>3 DEF Continued, Own, Begins, Attachable
  <2>4. CASE UNCHANGED state
    <3>1. state.owner # a
      BY <1>11 DEF PublishIs, Owners, Continued
    <3> QED
      BY <1>11, <1>0, <2>4, <3>1 DEF PublishIs, Moves, Owners, Continued, Own, TypeOK
  <2> QED
    BY <1>11, <2>3, <2>4 DEF PublishIs
<1>12. ASSUME NEW a \in Attempts, LogIs(a)
      PROVE  (\A b \in Attempts : Continued(b))'
  <2>1. \A i \in 1..Len(log'[a]) : i \in 1..Len(log[a]) \/ i = Len(log[a]) + 1
    BY <1>12, LogLen DEF LogIs, Shapes
  <2>2. \A b \in Attempts : Len(log[b]) \in Nat
    BY LogLen DEF Shapes
  <2>3. Len(stored) \in Nat
    BY LogLen DEF Shapes
  <2>4. Begins(stored, log[a]) /\ Own(a, Len(stored)) => Begins(stored, log'[a]) /\ Own(a, Len(stored))'
    BY <1>12, <2>1, <2>2, <2>3 DEF LogIs, Begins, Own
  <2> QED
    BY <1>12, <2>4 DEF LogIs, Owners, Continued, Own
<1>13. ASSUME NEW a \in Attempts, Detach(a)
      PROVE  (\A b \in Attempts : Continued(b))'
  <2>1. ASSUME NEW b \in Attempts, state'.owner = b
        PROVE  /\ pc[b] \in {"published", "gone"} /\ pc'[b] \in {"published", "gone"}
               /\ UNCHANGED <<stored, state>> /\ log'[b] = log[b] /\ saved'[b] = saved[b]
               /\ init'[b] = init[b]
    BY <1>13, <1>0, <2>1, EmptyLog DEF Owners, Continued, Lives, Lived, TypeOK, Detach,
       Goto, Move, disk, pool, session
  <2> QED
    BY <2>1 DEF Owners, Continued, Own
<1>14. ASSUME NEW a \in Attempts, BindIs(a)
      PROVE  (\A b \in Attempts : Continued(b))'
  <2>1. Fits("init", a) /\ UNCHANGED <<stored, log, saved, pc>>
    BY <1>14, HeadFits DEF BindIs, Ops
  <2>2. \A b \in Attempts : init'[b] = "pending" => init[b] = "pending"
    BY <1>14 DEF BindIs, TypeOK
  <2>3. CASE UNCHANGED state
    BY <2>1, <2>2, <2>3 DEF Owners, Continued, Own
  <2>4. CASE state' = [tracked |-> TRUE, owner |-> a, cursor |-> Len(stored)] /\ state.owner = a
    BY <2>1, <2>2, <2>4 DEF Owners, Continued, Own
  <2>5. CASE /\ state' = [tracked |-> TRUE, owner |-> a, cursor |-> Len(stored)]
            /\ state.owner # a /\ ~Collides(a)
    <3>1. Begins(stored, log[a]) /\ Len(stored) <= saved[a]
      BY <2>5, Bindable
    <3>2. Own(a, 0) /\ pc[a] \in {"published", "gone"}
      BY <2>1, <2>5 DEF Fits, Logs, Continues
    <3>3. Own(a, Len(stored))
      <4>1. Len(stored) \in Nat
        BY LogLen DEF Shapes
      <4> QED
        BY <3>2, <4>1, OwnLess
    <3> QED
      BY <2>1, <2>5, <3>1, <3>2, <3>3 DEF Continued, Own
  <2> QED
    BY <1>14, <2>3, <2>4, <2>5 DEF BindIs
<1>15. ASSUME NEW a \in Attempts, SeedIs(a)
      PROVE  (\A b \in Attempts : Continued(b))'
  <2>1. state.owner = a
    BY <1>15, OwnerRuns DEF SeedIs
  <2>2. UNCHANGED <<log, pc>>
    BY <1>15 DEF SeedIs
  <2>3. state'.owner = a
    BY <1>15, <2>1 DEF SeedIs, Appends, Shapes
  <2>4. Fits("seed", a) /\ UNCHANGED saved /\ init'[a] # "pending"
    BY <1>15, HeadFits DEF SeedIs, Ops, TypeOK
  <2>5. CASE Appends(SubSeq(log[a], state.cursor + 1, saved[a]))
    <3>1. stored' = stored \o SubSeq(log[a], state.cursor + 1, saved[a])
      BY <2>5 DEF Appends
    <3>2. Begins(stored', log[a])
      BY <2>1, <2>4, <3>1, OwnerGrows DEF Fits
    <3>3. state'.cursor = Len(stored') /\ Len(stored) <= Len(stored')
      <4>1. state'.cursor = Len(stored')
        BY <2>5 DEF Appends, Shapes
      <4>2. Len(stored) <= Len(stored')
        BY <2>1, <2>4, <3>1, OwnerGrows DEF Fits, Owners, Continued, Begins
      <4> QED
        BY <4>1, <4>2
    <3>4. Own(a, Len(stored)) /\ Len(stored) \in Nat /\ Len(stored') \in Nat
      BY <2>1, LogLen, <1>stored DEF Owners, Continued, Shapes
    <3>5. Own(a, Len(stored'))
      BY <3>3, <3>4, OwnLess
    <3> QED
      BY <2>1, <2>2, <2>3, <2>4, <3>2, <3>3, <3>5 DEF Owners, Continued, Fits, Own
  <2>6. CASE UNCHANGED <<stored, state>>
    BY <2>1, <2>2, <2>3, <2>4, <2>6 DEF Owners, Continued, Own
  <2> QED
    BY <1>15, <2>5, <2>6 DEF SeedIs
<1>16. ASSUME NEW a \in Attempts, StartWriteIs(a)
      PROVE  (\A b \in Attempts : Continued(b))'
  <2>1. ASSUME NEW b \in Attempts, state'.owner = b
        PROVE  /\ pc[b] \in {"published", "gone"} /\ pc'[b] \in {"published", "gone"}
               /\ UNCHANGED <<stored, state>> /\ log'[b] = log[b] /\ saved'[b] = saved[b]
               /\ init'[b] = init[b]
    BY <1>16, <1>0, <2>1, EmptyLog DEF Owners, Continued, Lives, Lived, TypeOK,
       StartWriteIs
  <2> QED
    BY <2>1 DEF Owners, Continued, Own
<1>17. ASSUME NEW a \in Attempts, WriteIs(a)
      PROVE  (\A b \in Attempts : Continued(b))'
  <2>1. ASSUME NEW b \in Attempts, state'.owner = b
        PROVE  /\ pc[b] \in {"published", "gone"} /\ pc'[b] \in {"published", "gone"}
               /\ UNCHANGED <<stored, state>> /\ log'[b] = log[b] /\ saved'[b] = saved[b]
               /\ init'[b] = init[b]
    BY <1>17, <1>0, <2>1, EmptyLog DEF Owners, Continued, Lives, Lived, TypeOK, WriteIs
  <2> QED
    BY <2>1 DEF Owners, Continued, Own
<1>18. ASSUME NEW a \in Attempts, WrittenIs(a)
      PROVE  (\A b \in Attempts : Continued(b))'
  <2>1. state.owner = a
    BY <1>18, OwnerRuns DEF WrittenIs
  <2>2. UNCHANGED <<log, pc>>
    BY <1>18 DEF WrittenIs
  <2>3. state'.owner = a
    BY <1>18, <2>1 DEF WrittenIs, Appends, Shapes
  <2>4. UNCHANGED init /\ (Fits("writing", a) \/ Fits("draining", a))
    BY <1>18, HeadFits DEF WrittenIs, Ops
  <2>5. CASE Appends(Suffix(log[a], state.cursor))
    <3>1. stored' = stored \o Suffix(log[a], state.cursor)
      BY <2>5 DEF Appends
    <3>2. Begins(stored', log[a])
      BY <2>1, <3>1, OwnerGrows
    <3>3. state'.cursor = Len(stored') /\ Len(stored) <= Len(stored')
      <4>1. state'.cursor = Len(stored')
        BY <2>5 DEF Appends, Shapes
      <4>2. Len(stored) <= Len(stored')
        BY <2>1, <2>4, <3>1, OwnerGrows DEF Fits, Owners, Continued, Begins
      <4> QED
        BY <4>1, <4>2
    <3>4. Own(a, Len(stored)) /\ Len(stored) \in Nat /\ Len(stored') \in Nat
      BY <2>1, LogLen, <1>stored DEF Owners, Continued, Shapes
    <3>5. Own(a, Len(stored'))
      BY <3>3, <3>4, OwnLess
    <3> QED
      BY <2>1, <2>2, <2>3, <2>4, <3>2, <3>3, <3>5 DEF Owners, Continued, Fits, Own
  <2> QED
    BY <1>18, <2>5 DEF WrittenIs
<1>19. ASSUME NEW a \in Attempts, WriteFailsIs(a)
      PROVE  (\A b \in Attempts : Continued(b))'
  <2>1. ASSUME NEW b \in Attempts, state'.owner = b
        PROVE  /\ pc[b] \in {"published", "gone"} /\ pc'[b] \in {"published", "gone"}
               /\ UNCHANGED <<stored, state>> /\ log'[b] = log[b] /\ saved'[b] = saved[b]
               /\ init'[b] = init[b]
    BY <1>19, <1>0, <2>1, EmptyLog DEF Owners, Continued, Lives, Lived, TypeOK,
       WriteFailsIs
  <2> QED
    BY <2>1 DEF Owners, Continued, Own
<1>20. ASSUME NEW a \in Attempts, RetireIs(a)
      PROVE  (\A b \in Attempts : Continued(b))'
  <2>1. ASSUME NEW b \in Attempts, state'.owner = b
        PROVE  /\ pc[b] \in {"published", "gone"} /\ pc'[b] \in {"published", "gone"}
               /\ UNCHANGED <<stored, state>> /\ log'[b] = log[b] /\ saved'[b] = saved[b]
               /\ init'[b] = init[b]
    BY <1>20, <1>0, <2>1, EmptyLog DEF Owners, Continued, Lives, Lived, TypeOK, RetireIs
  <2> QED
    BY <2>1 DEF Owners, Continued, Own
<1>21. ASSUME NEW a \in Attempts, FinalIs(a)
      PROVE  (\A b \in Attempts : Continued(b))'
  <2>1. UNCHANGED <<stored, log, saved, init, pc>> /\ (UNCHANGED state \/ state'.owner = Nobody)
    BY <1>21 DEF FinalIs, Unowned
  <2> QED
    BY <2>1 DEF Owners, Continued, Own
<1>22. CASE Foreign
  BY <1>22 DEF Foreign, Continued
<1>23. CASE UNCHANGED vars
  <2>1. ASSUME NEW b \in Attempts, state'.owner = b
        PROVE  /\ pc[b] \in {"published", "gone"} /\ pc'[b] \in {"published", "gone"}
               /\ UNCHANGED <<stored, state>> /\ log'[b] = log[b] /\ saved'[b] = saved[b]
               /\ init'[b] = init[b]
    BY <1>23, <1>0, <2>1, EmptyLog DEF Owners, Continued, Lives, Lived, TypeOK, vars, disk,
       pool, calls, session, retiring
  <2> QED
    BY <2>1 DEF Owners, Continued, Own
<1> QED
  BY Does, <1>1, <1>2, <1>3, <1>4, <1>5, <1>6, <1>7, <1>8, <1>9, <1>10, <1>11, <1>12,
     <1>13, <1>14, <1>15, <1>16, <1>17, <1>18, <1>19, <1>20, <1>21, <1>22, <1>23

\* Every step leaves the id to a bound session that may write.
LEMMA OwnedStep ==
  ASSUME IInv, [Next]_vars
  PROVE  (\A b \in Attempts : Owned(b))'
<1> USE OwnershipAssumption
<1>0. log \in [Attempts -> Events] /\ saved \in [Attempts -> Nat]
  BY DEF IInv, Shapes
<1> USE DEF IInv
<1>1. ASSUME NEW a \in Attempts, Begin(a)
      PROVE  (\A b \in Attempts : Owned(b))'
  <2>1. \A op \in Ops, b \in Attempts : On(op, b)' => On(op, b) \/ op \notin {"seed", "write", "writing", "drain", "draining"}
    BY <1>1, OnSame DEF Begin, Retiring, disk, pool, session, retiring
  <2>2. ASSUME NEW b \in Attempts, init'[b] = "ready", Busy(b)'
        PROVE  init[b] = "ready" /\ Busy(b)
    BY <1>1, <1>0, <2>2, EmptyLog DEF Busy, Lives, Lived, TypeOK, Begin, Retiring, disk,
       pool, session, retiring
  <2>3. state'.owner = state.owner
    BY <1>1 DEF Begin, Retiring, disk, pool, session, retiring
  <2> QED
    BY <2>1, <2>2, <2>3 DEF Owners, Owned, Ops
<1>2. ASSUME NEW a \in Attempts, EnterIs(a)
      PROVE  (\A b \in Attempts : Owned(b))'
  <2>1. \A op \in Ops, b \in Attempts : On(op, b)' => On(op, b) \/ op \notin {"seed", "write", "writing", "drain", "draining"}
    BY <1>2, OnSame, OnQueued DEF EnterIs, Ops
  <2>2. ASSUME NEW b \in Attempts, init'[b] = "ready", Busy(b)'
        PROVE  init[b] = "ready" /\ Busy(b)
    BY <1>2, <1>0, <2>2, EmptyLog DEF Busy, Lives, Lived, TypeOK, EnterIs, Moves
  <2>3. state'.owner = state.owner
    BY <1>2 DEF EnterIs
  <2> QED
    BY <2>1, <2>2, <2>3 DEF Owners, Owned, Ops
<1>3. ASSUME NEW a \in Attempts, RetirementFailed(a)
      PROVE  (\A b \in Attempts : Owned(b))'
  <2>1. \A op \in Ops, b \in Attempts : On(op, b)' => On(op, b) \/ op \notin {"seed", "write", "writing", "drain", "draining"}
    BY <1>3, OnSame DEF RetirementFailed, Over, Move, disk, pool, session, retiring
  <2>2. ASSUME NEW b \in Attempts, init'[b] = "ready", Busy(b)'
        PROVE  init[b] = "ready" /\ Busy(b)
    BY <1>3, <1>0, <2>2, EmptyLog DEF Busy, Lives, Lived, TypeOK, RetirementFailed, Over,
       Move, disk, pool, session, retiring
  <2>3. state'.owner = state.owner
    BY <1>3 DEF RetirementFailed, Over, Move, disk, pool, session, retiring
  <2> QED
    BY <2>1, <2>2, <2>3 DEF Owners, Owned, Ops
<1>4. ASSUME NEW a \in Attempts, LoadIs(a)
      PROVE  (\A b \in Attempts : Owned(b))'
  <2>1. \A op \in Ops, b \in Attempts : On(op, b)' => On(op, b) \/ op \notin {"seed", "write", "writing", "drain", "draining"}
    BY <1>4, OnEnded DEF LoadIs, Runs1, Op
  <2>2. ASSUME NEW b \in Attempts, init'[b] = "ready", Busy(b)'
        PROVE  init[b] = "ready" /\ Busy(b)
    BY <1>4, <1>0, <2>2, EmptyLog DEF Busy, Lives, Lived, TypeOK, LoadIs
  <2>3. state'.owner = state.owner
    BY <1>4 DEF LoadIs
  <2> QED
    BY <2>1, <2>2, <2>3 DEF Owners, Owned, Ops
<1>5. ASSUME NEW a \in Attempts, ShareIs(a)
      PROVE  (\A b \in Attempts : Owned(b))'
  <2>1. \A op \in Ops, b \in Attempts : On(op, b)' => On(op, b) \/ op \notin {"seed", "write", "writing", "drain", "draining"}
    BY <1>5, OnSame, OnQueued DEF ShareIs, Ops
  <2>2. ASSUME NEW b \in Attempts, init'[b] = "ready", Busy(b)'
        PROVE  init[b] = "ready" /\ Busy(b)
    BY <1>5, <1>0, <2>2, EmptyLog DEF Busy, Lives, Lived, TypeOK, ShareIs, Moves
  <2>3. state'.owner = state.owner
    BY <1>5 DEF ShareIs
  <2> QED
    BY <2>1, <2>2, <2>3 DEF Owners, Owned, Ops
<1>6. ASSUME NEW a \in Attempts, CommitIs(a)
      PROVE  (\A b \in Attempts : Owned(b))'
  <2>1. \A op \in Ops, b \in Attempts : On(op, b)' => On(op, b) \/ op \notin {"seed", "write", "writing", "drain", "draining"}
    BY <1>6, OnEnded DEF CommitIs, Runs1, Op
  <2>2. ASSUME NEW b \in Attempts, init'[b] = "ready", Busy(b)'
        PROVE  init[b] = "ready" /\ Busy(b)
    BY <1>6, <1>0, <2>2, EmptyLog DEF Busy, Lives, Lived, TypeOK, CommitIs, Moves
  <2>3. state'.owner = state.owner
    BY <1>6 DEF CommitIs
  <2> QED
    BY <2>1, <2>2, <2>3 DEF Owners, Owned, Ops
<1>7. ASSUME NEW a \in Attempts, ReserveIs(a)
      PROVE  (\A b \in Attempts : Owned(b))'
  <2>1. \A op \in Ops, b \in Attempts : On(op, b)' => On(op, b) \/ op \notin {"seed", "write", "writing", "drain", "draining"}
    BY <1>7, OnSame DEF ReserveIs
  <2>2. ASSUME NEW b \in Attempts, init'[b] = "ready", Busy(b)'
        PROVE  init[b] = "ready" /\ Busy(b)
    BY <1>7, <1>0, <2>2, EmptyLog DEF Busy, Lives, Lived, TypeOK, ReserveIs, Moves
  <2>3. state'.owner = state.owner
    BY <1>7 DEF ReserveIs
  <2> QED
    BY <2>1, <2>2, <2>3 DEF Owners, Owned, Ops
<1>8. ASSUME NEW a \in Attempts, CreateIs(a)
      PROVE  (\A b \in Attempts : Owned(b))'
  <2>1. \A op \in Ops, b \in Attempts : On(op, b)' => On(op, b) \/ op \notin {"seed", "write", "writing", "drain", "draining"}
    BY <1>8, OnSame DEF CreateIs
  <2>2. ASSUME NEW b \in Attempts, init'[b] = "ready", Busy(b)'
        PROVE  init[b] = "ready" /\ Busy(b)
    BY <1>8, <1>0, <2>2, EmptyLog DEF Busy, Lives, Lived, TypeOK, CreateIs, Moves
  <2>3. state'.owner = state.owner
    BY <1>8 DEF CreateIs
  <2> QED
    BY <2>1, <2>2, <2>3 DEF Owners, Owned, Ops
<1>9. ASSUME NEW a \in Attempts, AbortIs(a)
      PROVE  (\A b \in Attempts : Owned(b))'
  <2>1. \A op \in Ops, b \in Attempts : On(op, b)' => On(op, b) \/ op \notin {"seed", "write", "writing", "drain", "draining"}
    BY <1>9, OnSame DEF AbortIs
  <2>2. ASSUME NEW b \in Attempts, init'[b] = "ready", Busy(b)'
        PROVE  init[b] = "ready" /\ Busy(b)
    BY <1>9, <1>0, <2>2, EmptyLog DEF Busy, Lives, Lived, TypeOK, AbortIs, Moves
  <2>3. state'.owner = state.owner
    BY <1>9 DEF AbortIs
  <2> QED
    BY <2>1, <2>2, <2>3 DEF Owners, Owned, Ops
<1>10. ASSUME NEW a \in Attempts, UnwindIs(a)
      PROVE  (\A b \in Attempts : Owned(b))'
  <2>1. \A op \in Ops, b \in Attempts : On(op, b)' => On(op, b) \/ op \notin {"seed", "write", "writing", "drain", "draining"}
    BY <1>10, OnSame DEF UnwindIs
  <2>2. ASSUME NEW b \in Attempts, init'[b] = "ready", Busy(b)'
        PROVE  init[b] = "ready" /\ Busy(b)
    BY <1>10, <1>0, <2>2, EmptyLog DEF Busy, Lives, Lived, TypeOK, UnwindIs, Moves
  <2>3. state'.owner = state.owner
    BY <1>10 DEF UnwindIs
  <2> QED
    BY <2>1, <2>2, <2>3 DEF Owners, Owned, Ops
<1>11. ASSUME NEW a \in Attempts, PublishIs(a)
      PROVE  (\A b \in Attempts : Owned(b))'
  <2>1. \A op \in Ops, b \in Attempts : On(op, b)' => On(op, b) \/ op = "init"
    BY <1>11, OnSame, OnQueued DEF PublishIs, Ops
  <2>2. CASE Attachable(a) /\ state' = [state EXCEPT !.owner = a]
    <3>1. state'.owner = a /\ state.owner = Nobody
      BY <2>2 DEF Attachable, Shapes
    <3>2. \A b \in Attempts \ {a} : init'[b] = init[b] /\ (Busy(b)' => Busy(b))
      BY <1>11 DEF PublishIs, Moves, Busy, TypeOK
    <3> QED
      BY <2>1, <3>1, <3>2 DEF Owners, Owned, Ops
  <2>3. CASE UNCHANGED state /\ (init'[a] = "pending" \/ init' = init)
    <3>1. \A b \in Attempts : init'[b] = "ready" /\ Busy(b)' => init[b] = "ready" /\ Busy(b)
      <4>1. init'[a] # "ready"
        BY <1>11, <2>3 DEF PublishIs, Lives, Lived
      <4> QED
        BY <1>11, <4>1 DEF PublishIs, Moves, Busy, TypeOK
    <3> QED
      BY <2>1, <2>3, <3>1 DEF Owners, Owned, Ops
  <2> QED
    BY <1>11, <2>2, <2>3 DEF PublishIs, TypeOK
<1>12. ASSUME NEW a \in Attempts, LogIs(a)
      PROVE  (\A b \in Attempts : Owned(b))'
  <2>1. \A op \in Ops, b \in Attempts : On(op, b)' => On(op, b) \/ op \notin {"seed", "write", "writing", "drain", "draining"}
    BY <1>12, OnSame DEF LogIs
  <2>2. ASSUME NEW b \in Attempts, init'[b] = "ready", Busy(b)'
        PROVE  init[b] = "ready" /\ Busy(b)
    BY <1>12, <1>0, <2>2, EmptyLog DEF Busy, Lives, Lived, TypeOK, LogIs
  <2>3. state'.owner = state.owner
    BY <1>12 DEF LogIs
  <2> QED
    BY <2>1, <2>2, <2>3 DEF Owners, Owned, Ops
<1>13. ASSUME NEW a \in Attempts, Detach(a)
      PROVE  (\A b \in Attempts : Owned(b))'
  <2>1. \A op \in Ops, b \in Attempts : On(op, b)' => On(op, b) \/ op \notin {"seed", "write", "writing", "drain", "draining"}
    BY <1>13, OnSame DEF Detach, Goto, Move, disk, pool, session
  <2>2. ASSUME NEW b \in Attempts, init'[b] = "ready", Busy(b)'
        PROVE  init[b] = "ready" /\ Busy(b)
    BY <1>13, <1>0, <2>2, EmptyLog DEF Busy, Lives, Lived, TypeOK, Detach, Goto, Move,
       disk, pool, session
  <2>3. state'.owner = state.owner
    BY <1>13 DEF Detach, Goto, Move, disk, pool, session
  <2> QED
    BY <2>1, <2>2, <2>3 DEF Owners, Owned, Ops
<1>14. ASSUME NEW a \in Attempts, BindIs(a)
      PROVE  (\A b \in Attempts : Owned(b))'
  <2>1. Len(chain) \in Nat
    BY ChainType
  <2>2. /\ UNCHANGED <<pc, log, retired>> /\ \A b \in Attempts \ {a} : init'[b] = init[b]
        /\ UNCHANGED state => init'[a] # "ready" \/ state.owner = a
    BY <1>14 DEF BindIs, TypeOK
  <2>3. \A op \in Ops, b \in Attempts : On(op, b)' =>
          On(op, b) \/ (op \in {"seed", "write", "writing", "drain", "draining"} /\ b = a /\ state'.owner = a) \/ op \notin {"seed", "write", "writing", "drain", "draining"}
    BY <1>14, OnEnded, OnAdvanced DEF BindIs, Runs1, Op, Ops
  <2>4. CASE state'.owner = state.owner
    BY <1>14, <2>2, <2>3, <2>4 DEF BindIs, TypeOK, Owners, Owned, Busy, Ops
  <2>5. CASE state.owner # a /\ state'.owner = a /\ ~Collides(a)
    <3>1. ASSUME NEW b \in Attempts, b = state.owner
          PROVE  ~HasOp(b) /\ ~(init[b] = "ready" /\ Busy(b))
      <4>1. stored = <<>> /\ ~HasWork(b)
        BY <2>5, <3>1, Bindable, OwnershipAssumption DEF IInv
      <4>2. ~HasOp(b) /\ ~(Len(log[b]) > saved[b])
        BY <4>1 DEF HasWork
      <4>3. pc[b] # "published"
        <5>1. On("init", b) => HasOp(b)
          BY HasOpOn DEF Ops
        <5>2. Behind(b) => On("init", b)
          BY <1>14, <2>1, <2>5, <3>1 DEF BindIs, Runs1, Op, Behind, On
        <5> QED
          BY <4>2, <5>1, <5>2 DEF Owners, BoundLast
      <4>4. init[b] = "ready" => log[b] = <<>>
        <5>1. init[b] = "ready" => saved[b] <= 0
          BY <4>1, EmptyLog DEF Saved, Kept
        <5>2. log[b] \in Events /\ saved[b] \in Nat
          BY <1>0
        <5> QED
          BY <4>2, <5>1, <5>2 DEF Events
      <4> QED
        BY <4>2, <4>3, <4>4 DEF Busy
    <3>2. \A b \in Attempts, op \in Ops : On(op, b) => HasOp(b)
      BY HasOpOn
    <3> QED
      BY <2>2, <2>3, <2>5, <3>1, <3>2 DEF Owners, Owned, Busy, Ops
  <2> QED
    BY <1>14, <2>4, <2>5 DEF BindIs
<1>15. ASSUME NEW a \in Attempts, SeedIs(a)
      PROVE  (\A b \in Attempts : Owned(b))'
  <2>1. \A op \in Ops, b \in Attempts : On(op, b)' => On(op, b)
    BY <1>15, OnEnded DEF SeedIs, Runs1, Op
  <2>2. state.owner = a
    BY <1>15, OwnerRuns DEF SeedIs
  <2>3. state'.owner = a
    BY <1>15, <2>2 DEF SeedIs, Appends, Shapes
  <2>4. /\ UNCHANGED <<pc, log, retired>>
        /\ \A b \in Attempts \ {a} : init'[b] = init[b]
    BY <1>15 DEF SeedIs, TypeOK
  <2> QED
    BY <2>1, <2>2, <2>3, <2>4 DEF Owners, Owned, Busy, Ops
<1>16. ASSUME NEW a \in Attempts, StartWriteIs(a)
      PROVE  (\A b \in Attempts : Owned(b))'
  <2>1. PICK kind \in {"write", "drain"} : Queued(kind, a)
    BY <1>16 DEF StartWriteIs
  <2>2. \A op \in Ops, b \in Attempts : On(op, b)' => On(op, b) \/ (op = kind /\ b = a)
    BY <2>1, OnQueued DEF Ops
  <2>3. state.owner = a
    <3>1. Len(log[a]) \in Nat /\ saved[a] \in Nat
      BY <1>0, LogLen DEF StartWriteIs
    <3>2. Busy(a)
      BY <1>16, <3>1, EmptyLog DEF StartWriteIs, Busy
    <3> QED
      BY <1>16, <3>2 DEF StartWriteIs, Owners, Owned
  <2> QED
    BY <1>16, <2>2, <2>3 DEF StartWriteIs, Owners, Owned, Busy, Ops
<1>17. ASSUME NEW a \in Attempts, WriteIs(a)
      PROVE  (\A b \in Attempts : Owned(b))'
  <2>1. PICK kind \in {"writing", "draining"} : Advanced(kind, a) /\ Len(chain) > 0 /\ chain[1].for = a
    BY <1>17 DEF WriteIs, Runs1, Op
  <2>2. \A op \in Ops, b \in Attempts : On(op, b)' => On(op, b) \/ (op = kind /\ b = a)
    BY <2>1, OnAdvanced DEF Ops
  <2>3. state.owner = a
    BY <1>17, OwnerRuns DEF WriteIs
  <2> QED
    BY <1>17, <2>2, <2>3 DEF WriteIs, Owners, Owned, Busy, Ops
<1>18. ASSUME NEW a \in Attempts, WrittenIs(a)
      PROVE  (\A b \in Attempts : Owned(b))'
  <2>1. \A op \in Ops, b \in Attempts : On(op, b)' => On(op, b)
    BY <1>18, OnEnded DEF WrittenIs, Runs1, Op
  <2>2. state.owner = a
    BY <1>18, OwnerRuns DEF WrittenIs
  <2>3. state'.owner = a
    BY <1>18, <2>2 DEF WrittenIs, Appends, Shapes
  <2>4. /\ UNCHANGED <<pc, log, retired>>
        /\ \A b \in Attempts \ {a} : init'[b] = init[b]
    BY <1>18 DEF WrittenIs, TypeOK
  <2> QED
    BY <2>1, <2>2, <2>3, <2>4 DEF Owners, Owned, Busy, Ops
<1>19. ASSUME NEW a \in Attempts, WriteFailsIs(a)
      PROVE  (\A b \in Attempts : Owned(b))'
  <2>1. \A op \in Ops, b \in Attempts : On(op, b)' => On(op, b)
    BY <1>19, OnEnded DEF WriteFailsIs
  <2>2. Fits(chain[1].op, a)
    BY <1>19, ChainType DEF OpFits, On, WriteFailsIs
  <2>3. \A b \in Attempts : retired[b] = "done" => retired'[b] = "done"
    BY <1>19, <2>2 DEF WriteFailsIs, Fits, TypeOK
  <2> QED
    BY <1>19, <2>1, <2>3 DEF WriteFailsIs, Owners, Owned, Busy, Ops
<1>20. ASSUME NEW a \in Attempts, RetireIs(a)
      PROVE  (\A b \in Attempts : Owned(b))'
  <2>1. \A op \in Ops, b \in Attempts : On(op, b)' => On(op, b) \/ op \notin {"seed", "write", "writing", "drain", "draining"}
    BY <1>20, OnSame, OnQueued DEF RetireIs, Ops
  <2>2. ASSUME NEW b \in Attempts, init'[b] = "ready", Busy(b)'
        PROVE  init[b] = "ready" /\ Busy(b)
    BY <1>20, <1>0, <2>2, EmptyLog DEF Busy, Lives, Lived, TypeOK, RetireIs
  <2>3. state'.owner = state.owner
    BY <1>20 DEF RetireIs
  <2> QED
    BY <2>1, <2>2, <2>3 DEF Owners, Owned, Ops
<1>21. ASSUME NEW a \in Attempts, FinalIs(a)
      PROVE  (\A b \in Attempts : Owned(b))'
  <2>1. \A op \in Ops, b \in Attempts : On(op, b)' => On(op, b) /\ b # a
    BY <1>21, OnEnded DEF FinalIs, Runs1, Op
  <2>2. Fits("final", a)
    BY <1>21, HeadFits DEF FinalIs, Ops
  <2>3. ~Busy(a)'
    BY <1>21, <2>2 DEF FinalIs, Fits, Busy, Lives, Lived, TypeOK
  <2>4. /\ UNCHANGED <<pc, log, init>> /\ \A b \in Attempts \ {a} : retired'[b] = retired[b]
        /\ \A b \in Attempts \ {a} : state.owner = b => state'.owner = b
    BY <1>21 DEF FinalIs, TypeOK
  <2> QED
    BY <2>1, <2>3, <2>4 DEF Owners, Owned, Busy, Ops
<1>22. CASE Foreign
  <2>1. \A op \in Ops, b \in Attempts : On(op, b)' => On(op, b) \/ op \notin {"seed", "write", "writing", "drain", "draining"}
    BY <1>22, OnSame DEF Foreign, pool, calls, session, retiring
  <2>2. ASSUME NEW b \in Attempts, init'[b] = "ready", Busy(b)'
        PROVE  init[b] = "ready" /\ Busy(b)
    BY <1>22, <1>0, <2>2, EmptyLog DEF Busy, Lives, Lived, TypeOK, Foreign, pool, calls,
       session, retiring
  <2>3. state'.owner = state.owner
    BY <1>22 DEF Foreign, pool, calls, session, retiring
  <2> QED
    BY <2>1, <2>2, <2>3 DEF Owners, Owned, Ops
<1>23. CASE UNCHANGED vars
  <2>1. \A op \in Ops, b \in Attempts : On(op, b)' => On(op, b) \/ op \notin {"seed", "write", "writing", "drain", "draining"}
    BY <1>23, OnSame DEF vars, disk, pool, calls, session, retiring
  <2>2. ASSUME NEW b \in Attempts, init'[b] = "ready", Busy(b)'
        PROVE  init[b] = "ready" /\ Busy(b)
    BY <1>23, <1>0, <2>2, EmptyLog DEF Busy, Lives, Lived, TypeOK, vars, disk, pool, calls,
       session, retiring
  <2>3. state'.owner = state.owner
    BY <1>23 DEF vars, disk, pool, calls, session, retiring
  <2> QED
    BY <2>1, <2>2, <2>3 DEF Owners, Owned, Ops
<1> QED
  BY Does, <1>1, <1>2, <1>3, <1>4, <1>5, <1>6, <1>7, <1>8, <1>9, <1>10, <1>11, <1>12,
     <1>13, <1>14, <1>15, <1>16, <1>17, <1>18, <1>19, <1>20, <1>21, <1>22, <1>23

\* The stored log only grows.
LEMMA OnlyGrows ==
  ASSUME TypeOK, Shapes, Lives, [Next]_vars
  PROVE  Begins(stored, stored')
<1> USE OwnershipAssumption
<1>0. stored \in Events /\ Len(stored) \in Nat
  BY LogLen DEF Shapes
<1>same. Begins(stored, stored)
  BY <1>0, <1>0 DEF Begins
<1>more. ASSUME NEW t \in Events
          PROVE  Begins(stored, stored \o t)
  BY <1>0, <1>0, LogLen, AppendedIs DEF Begins
<1>1. ASSUME NEW a \in Attempts, Begin(a)
      PROVE  Begins(stored, stored')
  BY <1>0, <1>1 DEF Begin, Retiring, disk, pool, session, retiring, Begins
<1>2. ASSUME NEW a \in Attempts, EnterIs(a)
      PROVE  Begins(stored, stored')
  BY <1>0, <1>2 DEF EnterIs, Begins
<1>3. ASSUME NEW a \in Attempts, RetirementFailed(a)
      PROVE  Begins(stored, stored')
  BY <1>0, <1>3 DEF RetirementFailed, Over, Move, disk, pool, session, retiring, Begins
<1>4. ASSUME NEW a \in Attempts, LoadIs(a)
      PROVE  Begins(stored, stored')
  BY <1>0, <1>4 DEF LoadIs, Begins
<1>5. ASSUME NEW a \in Attempts, ShareIs(a)
      PROVE  Begins(stored, stored')
  BY <1>0, <1>5 DEF ShareIs, Begins
<1>6. ASSUME NEW a \in Attempts, CommitIs(a)
      PROVE  Begins(stored, stored')
  BY <1>0, <1>6, LoggedIs DEF CommitIs, Begins
<1>7. ASSUME NEW a \in Attempts, ReserveIs(a)
      PROVE  Begins(stored, stored')
  BY <1>0, <1>7 DEF ReserveIs, Begins
<1>8. ASSUME NEW a \in Attempts, CreateIs(a)
      PROVE  Begins(stored, stored')
  BY <1>0, <1>8 DEF CreateIs, Begins
<1>9. ASSUME NEW a \in Attempts, AbortIs(a)
      PROVE  Begins(stored, stored')
  BY <1>0, <1>9 DEF AbortIs, Begins
<1>10. ASSUME NEW a \in Attempts, UnwindIs(a)
      PROVE  Begins(stored, stored')
  BY <1>0, <1>10 DEF UnwindIs, Begins
<1>11. ASSUME NEW a \in Attempts, PublishIs(a)
      PROVE  Begins(stored, stored')
  BY <1>0, <1>11 DEF PublishIs, Begins
<1>12. ASSUME NEW a \in Attempts, LogIs(a)
      PROVE  Begins(stored, stored')
  BY <1>0, <1>12 DEF LogIs, Begins
<1>13. ASSUME NEW a \in Attempts, Detach(a)
      PROVE  Begins(stored, stored')
  BY <1>0, <1>13 DEF Detach, Goto, Move, disk, pool, session, Begins
<1>14. ASSUME NEW a \in Attempts, BindIs(a)
      PROVE  Begins(stored, stored')
  BY <1>0, <1>14 DEF BindIs, Begins
<1>15. ASSUME NEW a \in Attempts, SeedIs(a)
      PROVE  Begins(stored, stored')
  <2>1. SubSeq(log[a], state.cursor + 1, saved[a]) \in Events
    BY <1>0, SliceIs DEF Shapes, Lives, Lived
  <2>2. UNCHANGED stored \/ stored' = stored \o SubSeq(log[a], state.cursor + 1, saved[a])
    BY <1>0, <1>15 DEF SeedIs, Appends
  <2> QED
    BY <1>0, <1>0, <1>same, <1>more, <2>1, <2>2
<1>16. ASSUME NEW a \in Attempts, StartWriteIs(a)
      PROVE  Begins(stored, stored')
  BY <1>0, <1>16 DEF StartWriteIs, Begins
<1>17. ASSUME NEW a \in Attempts, WriteIs(a)
      PROVE  Begins(stored, stored')
  BY <1>0, <1>17 DEF WriteIs, Begins
<1>18. ASSUME NEW a \in Attempts, WrittenIs(a)
      PROVE  Begins(stored, stored')
  <2>1. Suffix(log[a], state.cursor) \in Events
    BY <1>0, SliceIs, LogLen DEF Shapes, Suffix
  <2> QED
    BY <1>0, <1>18, <1>more, <2>1 DEF WrittenIs, Appends
<1>19. ASSUME NEW a \in Attempts, WriteFailsIs(a)
      PROVE  Begins(stored, stored')
  BY <1>0, <1>19 DEF WriteFailsIs, Begins
<1>20. ASSUME NEW a \in Attempts, RetireIs(a)
      PROVE  Begins(stored, stored')
  BY <1>0, <1>20 DEF RetireIs, Begins
<1>21. ASSUME NEW a \in Attempts, FinalIs(a)
      PROVE  Begins(stored, stored')
  BY <1>0, <1>21 DEF FinalIs, Begins
<1>22. CASE Foreign
  BY <1>0, <1>22, LoggedIs DEF Foreign, Begins
<1>23. CASE UNCHANGED vars
  BY <1>0, <1>23 DEF vars, disk, pool, calls, session, retiring, Begins
<1> QED
  BY Does, <1>1, <1>2, <1>3, <1>4, <1>5, <1>6, <1>7, <1>8, <1>9, <1>10, <1>11, <1>12,
     <1>13, <1>14, <1>15, <1>16, <1>17, <1>18, <1>19, <1>20, <1>21, <1>22, <1>23

\* Every step leaves stored what needs no write.
LEMMA SavedStep ==
  ASSUME IInv, Shapes', Begins(stored, stored'), [Next]_vars
  PROVE  Saved'
<1> USE OwnershipAssumption
<1>0. log \in [Attempts -> Events] /\ saved \in [Attempts -> Nat]
  BY DEF IInv, Shapes
<1> USE DEF IInv
<1>1. ASSUME NEW a \in Attempts, Begin(a)
      PROVE  Saved'
  <2>1. ASSUME NEW b \in Attempts
        PROVE  /\ init'[b] = "ready" => init[b] = "ready" /\ saved'[b] = saved[b]
               /\ retired'[b] = "done" => retired[b] = "done"
               /\ init[b] = "ready" \/ retired[b] = "done" => log'[b] = log[b]
    BY <1>1, <1>0 DEF Lives, Lived, TypeOK, Begin, Retiring, disk, pool, session, retiring
  <2> QED
    BY <2>1, KeptGrows DEF Saved
<1>2. ASSUME NEW a \in Attempts, EnterIs(a)
      PROVE  Saved'
  <2>1. ASSUME NEW b \in Attempts
        PROVE  /\ init'[b] = "ready" => init[b] = "ready" /\ saved'[b] = saved[b]
               /\ retired'[b] = "done" => retired[b] = "done"
               /\ init[b] = "ready" \/ retired[b] = "done" => log'[b] = log[b]
    BY <1>2, <1>0 DEF Lives, Lived, TypeOK, EnterIs
  <2> QED
    BY <2>1, KeptGrows DEF Saved
<1>3. ASSUME NEW a \in Attempts, RetirementFailed(a)
      PROVE  Saved'
  <2>1. ASSUME NEW b \in Attempts
        PROVE  /\ init'[b] = "ready" => init[b] = "ready" /\ saved'[b] = saved[b]
               /\ retired'[b] = "done" => retired[b] = "done"
               /\ init[b] = "ready" \/ retired[b] = "done" => log'[b] = log[b]
    BY <1>3, <1>0 DEF Lives, Lived, TypeOK, RetirementFailed, Over, Move, disk, pool,
       session, retiring
  <2> QED
    BY <2>1, KeptGrows DEF Saved
<1>4. ASSUME NEW a \in Attempts, LoadIs(a)
      PROVE  Saved'
  <2>1. ASSUME NEW b \in Attempts
        PROVE  /\ init'[b] = "ready" => init[b] = "ready" /\ saved'[b] = saved[b]
               /\ retired'[b] = "done" => retired[b] = "done"
               /\ init[b] = "ready" \/ retired[b] = "done" => log'[b] = log[b]
    BY <1>4, <1>0 DEF Lives, Lived, TypeOK, LoadIs
  <2> QED
    BY <2>1, KeptGrows DEF Saved
<1>5. ASSUME NEW a \in Attempts, ShareIs(a)
      PROVE  Saved'
  <2>1. ASSUME NEW b \in Attempts
        PROVE  /\ init'[b] = "ready" => init[b] = "ready" /\ saved'[b] = saved[b]
               /\ retired'[b] = "done" => retired[b] = "done"
               /\ init[b] = "ready" \/ retired[b] = "done" => log'[b] = log[b]
    BY <1>5, <1>0 DEF Lives, Lived, TypeOK, ShareIs
  <2> QED
    BY <2>1, KeptGrows DEF Saved
<1>6. ASSUME NEW a \in Attempts, CommitIs(a)
      PROVE  Saved'
  <2>1. ASSUME NEW b \in Attempts
        PROVE  /\ init'[b] = "ready" => init[b] = "ready" /\ saved'[b] = saved[b]
               /\ retired'[b] = "done" => retired[b] = "done"
               /\ init[b] = "ready" \/ retired[b] = "done" => log'[b] = log[b]
    BY <1>6, <1>0 DEF Lives, Lived, TypeOK, CommitIs
  <2> QED
    BY <2>1, KeptGrows DEF Saved
<1>7. ASSUME NEW a \in Attempts, ReserveIs(a)
      PROVE  Saved'
  <2>1. ASSUME NEW b \in Attempts
        PROVE  /\ init'[b] = "ready" => init[b] = "ready" /\ saved'[b] = saved[b]
               /\ retired'[b] = "done" => retired[b] = "done"
               /\ init[b] = "ready" \/ retired[b] = "done" => log'[b] = log[b]
    BY <1>7, <1>0 DEF Lives, Lived, TypeOK, ReserveIs
  <2> QED
    BY <2>1, KeptGrows DEF Saved
<1>8. ASSUME NEW a \in Attempts, CreateIs(a)
      PROVE  Saved'
  <2>1. ASSUME NEW b \in Attempts
        PROVE  /\ init'[b] = "ready" => init[b] = "ready" /\ saved'[b] = saved[b]
               /\ retired'[b] = "done" => retired[b] = "done"
               /\ init[b] = "ready" \/ retired[b] = "done" => log'[b] = log[b]
    BY <1>8, <1>0 DEF Lives, Lived, TypeOK, CreateIs
  <2> QED
    BY <2>1, KeptGrows DEF Saved
<1>9. ASSUME NEW a \in Attempts, AbortIs(a)
      PROVE  Saved'
  <2>1. ASSUME NEW b \in Attempts
        PROVE  /\ init'[b] = "ready" => init[b] = "ready" /\ saved'[b] = saved[b]
               /\ retired'[b] = "done" => retired[b] = "done"
               /\ init[b] = "ready" \/ retired[b] = "done" => log'[b] = log[b]
    BY <1>9, <1>0 DEF Lives, Lived, TypeOK, AbortIs
  <2> QED
    BY <2>1, KeptGrows DEF Saved
<1>10. ASSUME NEW a \in Attempts, UnwindIs(a)
      PROVE  Saved'
  <2>1. ASSUME NEW b \in Attempts
        PROVE  /\ init'[b] = "ready" => init[b] = "ready" /\ saved'[b] = saved[b]
               /\ retired'[b] = "done" => retired[b] = "done"
               /\ init[b] = "ready" \/ retired[b] = "done" => log'[b] = log[b]
    BY <1>10, <1>0 DEF Lives, Lived, TypeOK, UnwindIs
  <2> QED
    BY <2>1, KeptGrows DEF Saved
<1>11. ASSUME NEW a \in Attempts, PublishIs(a)
      PROVE  Saved'
  <2>a. ASSUME NEW b \in Attempts \ {a}
        PROVE  Kept(b)'
    <3>1. /\ init'[b] = init[b] /\ saved'[b] = saved[b] /\ log'[b] = log[b]
          /\ retired'[b] = retired[b]
      BY <1>11, <1>0 DEF PublishIs, TypeOK
    <3> QED
      BY <3>1, KeptGrows DEF Saved
  <2>b. Kept(a)'
    <3>1. retired'[a] # "done"
      BY <1>11 DEF PublishIs, Lives, Lived
    <3>2. ASSUME init'[a] = "ready"
          PROVE  saved'[a] = Len(log[a]) /\ Len(log[a]) = Len(stored) /\ Begins(stored, log[a])
      <4>1. /\ Attachable(a) /\ saved'[a] = Len(log[a]) /\ ~(Len(log[a]) > state.cursor)
        BY <1>11, <1>0, <3>2 DEF PublishIs, TypeOK, Lives, Lived
      <4>2. Begins(stored, log[a]) /\ state.cursor = Len(stored)
        BY <4>1 DEF Attachable, Reserved, Sources, Settled, Logs, Continues
      <4>3. Len(log[a]) \in Nat /\ Len(stored) \in Nat
        BY LogLen DEF Shapes
      <4> QED
        BY <4>1, <4>2, <4>3 DEF Begins
    <3> QED
      BY <1>11, <3>1, <3>2 DEF PublishIs, Kept, Begins
  <2> QED
    BY <2>a, <2>b DEF Saved
<1>12. ASSUME NEW a \in Attempts, LogIs(a)
      PROVE  Saved'
  <2>1. ASSUME NEW b \in Attempts, init[b] = "ready"
        PROVE  \A i \in 1..saved[b] : log'[b][i] = log[b][i]
    <3>1. saved[b] <= Len(log[b]) /\ saved[b] \in Nat /\ Len(log[b]) \in Nat
      BY <1>0, LogLen DEF Lives, Lived
    <3> QED
      BY <1>12, <3>1 DEF LogIs, Begins
  <2>2. \A b \in Attempts : retired[b] = "done" => log'[b] = log[b]
    BY <1>12 DEF LogIs, Lives, Lived
  <2> QED
    BY <1>12, <2>1, <2>2 DEF LogIs, Saved, Kept, Begins
<1>13. ASSUME NEW a \in Attempts, Detach(a)
      PROVE  Saved'
  <2>1. ASSUME NEW b \in Attempts
        PROVE  /\ init'[b] = "ready" => init[b] = "ready" /\ saved'[b] = saved[b]
               /\ retired'[b] = "done" => retired[b] = "done"
               /\ init[b] = "ready" \/ retired[b] = "done" => log'[b] = log[b]
    BY <1>13, <1>0 DEF Lives, Lived, TypeOK, Detach, Goto, Move, disk, pool, session
  <2> QED
    BY <2>1, KeptGrows DEF Saved
<1>14. ASSUME NEW a \in Attempts, BindIs(a)
      PROVE  Saved'
  <2>a. ASSUME NEW b \in Attempts \ {a}
        PROVE  Kept(b)'
    <3>1. /\ init'[b] = init[b] /\ saved'[b] = saved[b] /\ log'[b] = log[b]
          /\ retired'[b] = retired[b]
      BY <1>14, <1>0 DEF BindIs, TypeOK
    <3> QED
      BY <3>1, KeptGrows DEF Saved
  <2>b. Kept(a)'
    <3>1. retired[a] = "done" => Begins(log[a], stored)
      BY DEF Saved, Kept
    <3>2. init'[a] = "ready" => saved[a] = Len(stored) /\ Begins(stored, log[a])
      <4>1. Fits("init", a)
        BY <1>14, HeadFits DEF BindIs, Ops
      <4>2. init'[a] = "ready" => saved[a] = Len(stored) /\ (state.owner # a => ~Collides(a))
        BY <1>14, <4>1 DEF BindIs, TypeOK, Fits
      <4>3. state.owner = a => Begins(stored, log[a])
        BY DEF Owners, Continued
      <4> QED
        BY <4>2, <4>3, Bindable
    <3> QED
      BY <1>14, <3>1, <3>2 DEF BindIs, Kept, Begins
  <2> QED
    BY <2>a, <2>b DEF Saved
<1>15. ASSUME NEW a \in Attempts, SeedIs(a)
      PROVE  Saved'
  <2>a. ASSUME NEW b \in Attempts \ {a}
        PROVE  Kept(b)'
    <3>1. /\ init'[b] = init[b] /\ saved'[b] = saved[b] /\ log'[b] = log[b]
          /\ retired'[b] = retired[b]
      BY <1>15, <1>0 DEF SeedIs, TypeOK
    <3> QED
      BY <3>1, KeptGrows DEF Saved
  <2>b. Kept(a)'
    <3>1. init[a] = "pending" /\ state.owner = a
      BY <1>15, HeadFits, OwnerRuns DEF SeedIs, Ops, Fits
    <3>2. init'[a] = "ready" => Len(stored') = saved[a] /\ Begins(stored', log[a])
      BY <1>15, <3>1, OwnerGrows DEF SeedIs, Appends, TypeOK
    <3>3. retired[a] = "done" => Begins(log[a], stored')
      <4>1. retired[a] = "done" => Begins(log[a], stored)
        BY DEF Saved, Kept
      <4> QED
        BY <1>0, <1>1, <4>1, BeginsTrans DEF Shapes
    <3> QED
      BY <1>15, <1>0, <3>2, <3>3 DEF SeedIs, Kept, Begins
  <2> QED
    BY <2>a, <2>b DEF Saved
<1>16. ASSUME NEW a \in Attempts, StartWriteIs(a)
      PROVE  Saved'
  <2>1. ASSUME NEW b \in Attempts
        PROVE  /\ init'[b] = "ready" => init[b] = "ready" /\ saved'[b] = saved[b]
               /\ retired'[b] = "done" => retired[b] = "done"
               /\ init[b] = "ready" \/ retired[b] = "done" => log'[b] = log[b]
    BY <1>16, <1>0 DEF Lives, Lived, TypeOK, StartWriteIs
  <2> QED
    BY <2>1, KeptGrows DEF Saved
<1>17. ASSUME NEW a \in Attempts, WriteIs(a)
      PROVE  Saved'
  <2>1. ASSUME NEW b \in Attempts
        PROVE  /\ init'[b] = "ready" => init[b] = "ready" /\ saved'[b] = saved[b]
               /\ retired'[b] = "done" => retired[b] = "done"
               /\ init[b] = "ready" \/ retired[b] = "done" => log'[b] = log[b]
    BY <1>17, <1>0 DEF Lives, Lived, TypeOK, WriteIs
  <2> QED
    BY <2>1, KeptGrows DEF Saved
<1>18. ASSUME NEW a \in Attempts, WrittenIs(a)
      PROVE  Saved'
  <2>a. ASSUME NEW b \in Attempts \ {a}
        PROVE  Kept(b)'
    <3>1. /\ init'[b] = init[b] /\ saved'[b] = saved[b] /\ log'[b] = log[b]
          /\ retired'[b] = retired[b]
      BY <1>18, <1>0 DEF WrittenIs, TypeOK
    <3> QED
      BY <3>1, KeptGrows DEF Saved
  <2>b. Kept(a)'
    <3>1. state.owner = a
      BY <1>18, OwnerRuns DEF WrittenIs
    <3>2. Len(stored') = Len(log[a]) /\ Begins(stored', log[a])
      BY <1>18, <3>1, OwnerGrows DEF WrittenIs, Appends
    <3>3. UNCHANGED log /\ saved'[a] = Len(log[a]) /\ Len(log[a]) \in Nat
      BY <1>18, <1>0, LogLen DEF WrittenIs
    <3> QED
      BY <3>2, <3>3 DEF Kept, Begins
  <2> QED
    BY <2>a, <2>b DEF Saved
<1>19. ASSUME NEW a \in Attempts, WriteFailsIs(a)
      PROVE  Saved'
  <2>1. ASSUME NEW b \in Attempts
        PROVE  /\ init'[b] = "ready" => init[b] = "ready" /\ saved'[b] = saved[b]
               /\ retired'[b] = "done" => retired[b] = "done"
               /\ init[b] = "ready" \/ retired[b] = "done" => log'[b] = log[b]
    BY <1>19, <1>0 DEF Lives, Lived, TypeOK, WriteFailsIs
  <2> QED
    BY <2>1, KeptGrows DEF Saved
<1>20. ASSUME NEW a \in Attempts, RetireIs(a)
      PROVE  Saved'
  <2>1. ASSUME NEW b \in Attempts
        PROVE  /\ init'[b] = "ready" => init[b] = "ready" /\ saved'[b] = saved[b]
               /\ retired'[b] = "done" => retired[b] = "done"
               /\ init[b] = "ready" \/ retired[b] = "done" => log'[b] = log[b]
    BY <1>20, <1>0 DEF Lives, Lived, TypeOK, RetireIs
  <2> QED
    BY <2>1, KeptGrows DEF Saved
<1>21. ASSUME NEW a \in Attempts, FinalIs(a)
      PROVE  Saved'
  <2>a. ASSUME NEW b \in Attempts \ {a}
        PROVE  Kept(b)'
    <3>1. /\ init'[b] = init[b] /\ saved'[b] = saved[b] /\ log'[b] = log[b]
          /\ retired'[b] = retired[b]
      BY <1>21, <1>0 DEF FinalIs, TypeOK
    <3> QED
      BY <3>1, KeptGrows DEF Saved
  <2>b. Kept(a)'
    <3>1. Fits("final", a)
      BY <1>21, HeadFits DEF FinalIs, Ops
    <3>2. UNCHANGED <<log, saved, stored, init>> /\ Len(log[a]) \in Nat
      BY <1>21, <1>0, LogLen DEF FinalIs
    <3> QED
      BY <3>1, <3>2 DEF Fits, Saved, Kept, Begins
  <2> QED
    BY <2>a, <2>b DEF Saved
<1>22. CASE Foreign
  <2>1. ASSUME NEW b \in Attempts
        PROVE  /\ init'[b] = "ready" => init[b] = "ready" /\ saved'[b] = saved[b]
               /\ retired'[b] = "done" => retired[b] = "done"
               /\ init[b] = "ready" \/ retired[b] = "done" => log'[b] = log[b]
    BY <1>22, <1>0 DEF Lives, Lived, TypeOK, Foreign, pool, calls, session, retiring
  <2> QED
    BY <2>1, KeptGrows DEF Saved
<1>23. CASE UNCHANGED vars
  <2>1. ASSUME NEW b \in Attempts
        PROVE  /\ init'[b] = "ready" => init[b] = "ready" /\ saved'[b] = saved[b]
               /\ retired'[b] = "done" => retired[b] = "done"
               /\ init[b] = "ready" \/ retired[b] = "done" => log'[b] = log[b]
    BY <1>23, <1>0 DEF Lives, Lived, TypeOK, vars, disk, pool, calls, session, retiring
  <2> QED
    BY <2>1, KeptGrows DEF Saved
<1> QED
  BY Does, <1>1, <1>2, <1>3, <1>4, <1>5, <1>6, <1>7, <1>8, <1>9, <1>10, <1>11, <1>12,
     <1>13, <1>14, <1>15, <1>16, <1>17, <1>18, <1>19, <1>20, <1>21, <1>22, <1>23

\* Only a commit appends a repair, and none is appended while somebody owns the id.
LEMMA RepairStep ==
  ASSUME IInv, Shapes', [Next]_vars,
         Len(stored') > Len(stored), Last(stored').by = Repair
  PROVE  \A b \in Attempts : ~BoundAndBusy(b)
<1> USE OwnershipAssumption
<1>0. /\ stored \in Events /\ Len(stored) \in Nat
      /\ stored' \in Events /\ Len(stored') \in Nat /\ Len(stored') > Len(stored)
  BY LogLen DEF IInv, Shapes
<1> USE DEF IInv
<1>1. ASSUME NEW a \in Attempts, Begin(a)
      PROVE  \A b \in Attempts : ~BoundAndBusy(b)
  BY <1>0, <1>1 DEF Begin, Retiring, disk, pool, session, retiring
<1>2. ASSUME NEW a \in Attempts, EnterIs(a)
      PROVE  \A b \in Attempts : ~BoundAndBusy(b)
  BY <1>0, <1>2 DEF EnterIs
<1>3. ASSUME NEW a \in Attempts, RetirementFailed(a)
      PROVE  \A b \in Attempts : ~BoundAndBusy(b)
  BY <1>0, <1>3 DEF RetirementFailed, Over, Move, disk, pool, session, retiring
<1>4. ASSUME NEW a \in Attempts, LoadIs(a)
      PROVE  \A b \in Attempts : ~BoundAndBusy(b)
  BY <1>0, <1>4 DEF LoadIs
<1>5. ASSUME NEW a \in Attempts, ShareIs(a)
      PROVE  \A b \in Attempts : ~BoundAndBusy(b)
  BY <1>0, <1>5 DEF ShareIs
<1>6. ASSUME NEW a \in Attempts, CommitIs(a)
      PROVE  \A b \in Attempts : ~BoundAndBusy(b)
  <2>1. state.owner = Nobody \/ UNCHANGED stored
    BY <1>0, <1>6 DEF CommitIs
  <2>2. ASSUME NEW b \in Attempts, BoundAndBusy(b)
        PROVE  state.owner = b
    <3>1. init[b] = "ready" /\ Busy(b)
      BY <2>2 DEF BoundAndBusy, Busy, TypeOK, Lives, Lived
    <3> QED
      BY <3>1 DEF Owners, Owned
  <2> QED
    BY <1>0, <2>1, <2>2
<1>7. ASSUME NEW a \in Attempts, ReserveIs(a)
      PROVE  \A b \in Attempts : ~BoundAndBusy(b)
  BY <1>0, <1>7 DEF ReserveIs
<1>8. ASSUME NEW a \in Attempts, CreateIs(a)
      PROVE  \A b \in Attempts : ~BoundAndBusy(b)
  BY <1>0, <1>8 DEF CreateIs
<1>9. ASSUME NEW a \in Attempts, AbortIs(a)
      PROVE  \A b \in Attempts : ~BoundAndBusy(b)
  BY <1>0, <1>9 DEF AbortIs
<1>10. ASSUME NEW a \in Attempts, UnwindIs(a)
      PROVE  \A b \in Attempts : ~BoundAndBusy(b)
  BY <1>0, <1>10 DEF UnwindIs
<1>11. ASSUME NEW a \in Attempts, PublishIs(a)
      PROVE  \A b \in Attempts : ~BoundAndBusy(b)
  BY <1>0, <1>11 DEF PublishIs
<1>12. ASSUME NEW a \in Attempts, LogIs(a)
      PROVE  \A b \in Attempts : ~BoundAndBusy(b)
  BY <1>0, <1>12 DEF LogIs
<1>13. ASSUME NEW a \in Attempts, Detach(a)
      PROVE  \A b \in Attempts : ~BoundAndBusy(b)
  BY <1>0, <1>13 DEF Detach, Goto, Move, disk, pool, session
<1>14. ASSUME NEW a \in Attempts, BindIs(a)
      PROVE  \A b \in Attempts : ~BoundAndBusy(b)
  BY <1>0, <1>14 DEF BindIs
<1>15. ASSUME NEW a \in Attempts, SeedIs(a)
      PROVE  \A b \in Attempts : ~BoundAndBusy(b)
  <2>1. state.owner = a
    BY <1>0, <1>15, OwnerRuns DEF SeedIs
  <2>2. Begins(stored', log[a])
    <3>1. Fits("seed", a)
      BY <1>0, <1>15, HeadFits DEF SeedIs, Ops
    <3>2. UNCHANGED stored \/ stored' = stored \o SubSeq(log[a], state.cursor + 1, saved[a])
      BY <1>0, <1>15 DEF SeedIs, Appends
    <3>3. stored' # stored /\ init[a] = "pending"
      BY <1>0, <3>1 DEF Fits
    <3> QED
      BY <2>1, <3>2, <3>3, OwnerGrows
  <2>3. Own(a, Len(stored))
    BY <2>1 DEF Owners, Continued
  <2>4. Last(stored').by = a
    <3>1. Len(log[a]) \in Nat
      BY LogLen DEF Shapes
    <3> QED
      BY <1>0, <2>2, <2>3, <3>1 DEF Begins, Own, Last
  <2> QED
    BY <2>4 DEF Repair
<1>16. ASSUME NEW a \in Attempts, StartWriteIs(a)
      PROVE  \A b \in Attempts : ~BoundAndBusy(b)
  BY <1>0, <1>16 DEF StartWriteIs
<1>17. ASSUME NEW a \in Attempts, WriteIs(a)
      PROVE  \A b \in Attempts : ~BoundAndBusy(b)
  BY <1>0, <1>17 DEF WriteIs
<1>18. ASSUME NEW a \in Attempts, WrittenIs(a)
      PROVE  \A b \in Attempts : ~BoundAndBusy(b)
  <2>1. state.owner = a
    BY <1>0, <1>18, OwnerRuns DEF WrittenIs
  <2>2. Begins(stored', log[a])
    BY <1>0, <1>18, <2>1, OwnerGrows DEF WrittenIs, Appends
  <2>3. Own(a, Len(stored))
    BY <2>1 DEF Owners, Continued
  <2>4. Last(stored').by = a
    <3>1. Len(log[a]) \in Nat
      BY LogLen DEF Shapes
    <3> QED
      BY <1>0, <2>2, <2>3, <3>1 DEF Begins, Own, Last
  <2> QED
    BY <2>4 DEF Repair
<1>19. ASSUME NEW a \in Attempts, WriteFailsIs(a)
      PROVE  \A b \in Attempts : ~BoundAndBusy(b)
  BY <1>0, <1>19 DEF WriteFailsIs
<1>20. ASSUME NEW a \in Attempts, RetireIs(a)
      PROVE  \A b \in Attempts : ~BoundAndBusy(b)
  BY <1>0, <1>20 DEF RetireIs
<1>21. ASSUME NEW a \in Attempts, FinalIs(a)
      PROVE  \A b \in Attempts : ~BoundAndBusy(b)
  BY <1>0, <1>21 DEF FinalIs
<1>22. CASE Foreign
  <2>1. Last(stored').by = Elsewhere
    BY <1>0, <1>22, <1>0, LoggedIs DEF Foreign, Last
  <2> QED
    BY <2>1 DEF Repair, Elsewhere
<1>23. CASE UNCHANGED vars
  BY <1>0, <1>23 DEF vars, disk, pool, calls, session, retiring
<1> QED
  BY Does, <1>1, <1>2, <1>3, <1>4, <1>5, <1>6, <1>7, <1>8, <1>9, <1>10, <1>11, <1>12,
     <1>13, <1>14, <1>15, <1>16, <1>17, <1>18, <1>19, <1>20, <1>21, <1>22, <1>23

\* The invariant holds at the start,
LEMMA InitFits == Init => IInv
<1> SUFFICES ASSUME Init PROVE IInv
  OBVIOUS
<1> USE OwnershipAssumption
<1>1. stored \in Events
  <2> DEFINE one == Logged(<<>>, Elsewhere)
             two == Logged(one, Elsewhere)
  <2>1. one \in Events /\ Len(one) = 1
    BY EmptyLog, LoggedIs
  <2> HIDE DEF one
  <2>2. two \in Events /\ Len(two) = Len(one) + 1
    BY <2>1, LoggedIs
  <2> HIDE DEF two
  <2>3. \A turn \in {0, 1, 2} : Prefix(two, turn) \in Events
    BY <2>1, <2>2, PrefixIs
  <2> QED
    BY <2>3 DEF Init, one, two
<1>2. /\ entry = [phase |-> "none", source |-> <<>>, session |-> <<>>, holder |-> Nobody]
      /\ state = [tracked |-> FALSE, owner |-> Nobody, cursor |-> 0]
  BY DEF Init, NoEntry, Unowned
<1>3. chain = <<>> /\ Len(chain) = 0
  BY DEF Init
<1>4. TypeOK
  BY <1>2 DEF Init, TypeOK, Places
<1>5. Shapes
  <2>1. chain \in Seq([op : Ops, for : Attempts])
    BY <1>3
  <2>2. log \in [Attempts -> Events] /\ saved \in [Attempts -> Nat]
    BY EmptyLog DEF Init
  <2>3. entry \in [phase : {"none", "loading", "ready", "committing", "reserved"},
                   source : Events, session : Events, holder : Someone]
    BY <1>2, EmptyLog DEF Someone
  <2> QED
    BY <1>1, <1>2, <2>1, <2>2, <2>3 DEF Init, Shapes, Someone
<1>6. OneOp /\ OpFits /\ NoneUnbound
  BY <1>2, <1>3 DEF OneOp, OpFits, NoneUnbound, On
<1>7. Lives /\ Held /\ Sources
  BY <1>2, EmptyLog DEF Init, Lives, Lived, Held, Counts, Sources, Settled
<1>8. Logs /\ Owners /\ Saved
  BY <1>2, <1>3 DEF Init, Logs, Continues, Reserved, Owners, Continued, Owned, Busy, BoundLast,
     On, Saved, Kept
<1> QED
  BY <1>4, <1>5, <1>6, <1>7, <1>8 DEF IInv

\* every step keeps it,
LEMMA StepFits == IInv /\ [Next]_vars => IInv'
<1> SUFFICES ASSUME IInv, [Next]_vars PROVE IInv'
  OBVIOUS
<1> USE DEF IInv
<1>1. Held'
  BY HeldStep
<1>2. TypeOK'
  BY <1>1, TypeStep
<1>3. Shapes'
  BY <1>2, ShapesStep
<1>4. OneOp' /\ OpFits' /\ Lives'
  BY OneOpStep, OpFitsStep, LivesStep
<1>5. NoneUnbound' /\ Sources' /\ Logs'
  BY NoneUnboundStep, SourcesStep, LogsStep
<1>6. Owners'
  BY <1>3, ContinuedStep, OwnedStep, BoundStep DEF Owners
<1>7. Saved'
  BY <1>3, OnlyGrows, SavedStep
<1> QED
  BY <1>1, <1>2, <1>3, <1>4, <1>5, <1>6, <1>7

\* and so it holds always.
LEMMA AlwaysFits == Spec => []IInv
BY InitFits, StepFits, PTL DEF Spec

\* Every attempt, the entry of the pool and each retirement stay within the phases
\* coordinator.ts and preparations.ts know, however many agents ask for the id.
THEOREM TypeCorrect == Spec => []TypeOK
<1>1. IInv => TypeOK
  BY DEF IInv
<1> QED
  BY <1>1, AlwaysFits, PTL

\* Whoever holds the id (a resumed agent in setup, the session that onCreated or
\* attachPrepared bound) has the stored log at the beginning of its own.
THEOREM HolderCorrect == Spec => []HolderContinuesLog
<1>1. ASSUME IInv, NEW a \in Attempts, (Reserved(a) /\ pc[a] = "setup") \/ state.owner = a
      PROVE  /\ IsPrefix(stored, log[a]) /\ state.cursor = Len(stored)
             /\ \A i \in Len(stored) + 1 .. Len(log[a]) : log[a][i].by = a
  <2>1. Begins(stored, log[a]) /\ Own(a, Len(stored)) /\ state.cursor = Len(stored)
    BY <1>1 DEF IInv, Reserved, Sources, Settled, Logs, Continues, Owners, Continued
  <2>2. /\ stored \in Events /\ log[a] \in Events
        /\ Len(stored) \in Nat /\ Len(log[a]) \in Nat
    BY <1>1, LogLen DEF IInv, Shapes
  <2>3. IsPrefix(stored, log[a])
    BY <2>1, <2>2, PrefixAt DEF Begins
  <2> QED
    BY <2>1, <2>2, <2>3 DEF Own
<1>2. IInv => HolderContinuesLog
  BY <1>1 DEF HolderContinuesLog
<1> QED
  BY <1>2, AlwaysFits, PTL

\* A retirement that retireCore ended well left the whole log of its session in the
\* store, where it stays.
THEOREM RetiredCorrect == Spec => []RetiredIsStored
<1>1. ASSUME IInv, NEW a \in Attempts, retired[a] = "done"
      PROVE  IsPrefix(log[a], stored)
  <2>1. Begins(log[a], stored)
    BY <1>1 DEF IInv, Saved, Kept
  <2>2. stored \in Events /\ log[a] \in Events
    BY <1>1 DEF IInv, Shapes
  <2> QED
    BY <2>1, <2>2, PrefixAt DEF Begins
<1>2. IInv => RetiredIsStored
  BY <1>1 DEF RetiredIsStored
<1> QED
  BY <1>2, AlwaysFits, PTL

\* commitPrepared closes a turn only when no session that is bound to the id could
\* still close it itself.
THEOREM RepairsCorrect == Spec => RepairsOnlyTheDead
<1>1. ASSUME IInv, IInv', [Next]_vars
      PROVE  Len(stored') > Len(stored) /\ Last(stored').by = Repair
               => \A a \in Attempts : ~BoundAndBusy(a)
  BY <1>1, RepairStep DEF IInv
<1>2. IInv /\ IInv' /\ [Next]_vars =>
        [Len(stored') > Len(stored) /\ Last(stored').by = Repair
           => \A a \in Attempts : ~BoundAndBusy(a)]_vars
  BY <1>1
<1> QED
  BY <1>2, AlwaysFits, PTL DEF Spec, RepairsOnlyTheDead
=============================================================================
