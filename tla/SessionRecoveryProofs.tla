------------------------ MODULE SessionRecoveryProofs ------------------------
(***************************************************************************)
(* Proofs about SessionRecovery: the log and the store stay accepted       *)
(* across crashes and torn repairs, the repair converges, and the          *)
(* transcript is complete and true. The scan and the companion's replay    *)
(* are recursive over a log; the induction they need is drawn from the     *)
(* well-founded order of the natural numbers.                              *)
(***************************************************************************)
EXTENDS SessionRecovery, SequenceTheorems, WellFoundedInduction, TLAPS

-----------------------------------------------------------------------------
(* Induction, and the two recursive functions one event at a time          *)

\* A set of natural numbers has a least one.
LEMMA Least ==
  ASSUME NEW T \in SUBSET Nat, T # {}
  PROVE  \E x \in T : \A y \in T : ~(y < x)
<1>1. PICK x \in T : \A y \in T : <<y, x>> \notin OpToRel(<, Nat)
  BY NatLessThanWellFounded, WFMin, Zenon
<1> QED
  BY <1>1, Zenon DEF OpToRel

\* Induction, over the set of the numbers of which the fact holds.
LEMMA Induction ==
  ASSUME NEW S, 0 \in S, \A n \in Nat : n \in S => n + 1 \in S
  PROVE  Nat \subseteq S
<1> DEFINE T == Nat \ S
<1> SUFFICES ASSUME T # {} PROVE FALSE
  OBVIOUS
<1>1. PICK x \in T : \A y \in T : ~(y < x)
  <2>1. T \in SUBSET Nat
    OBVIOUS
  <2> HIDE DEF T
  <2> QED
    BY <2>1, Least
<1>2. x - 1 \in Nat /\ x - 1 \in S
  BY <1>1
<1> QED
  BY <1>1, <1>2

\* f is the scan after each of the first n events of s.
Scanned(f, s, n) == f = [i \in 0..n |-> IF i = 0 THEN Cleared ELSE Advance(f[i - 1], s[i])]

\* There is such a scan, by induction on n.
LEMMA ScannedExists ==
  ASSUME NEW s
  PROVE  \A n \in Nat : \E f : Scanned(f, s, n)
<1> DEFINE S == {n \in Nat : \E f : Scanned(f, s, n)}
<1>1. 0 \in S
  <2>1. Scanned([i \in 0..0 |-> Cleared], s, 0)
    BY DEF Scanned
  <2> QED
    BY <2>1
<1>2. ASSUME NEW n \in Nat, n \in S
      PROVE  n + 1 \in S
  <2>1. PICK f : Scanned(f, s, n)
    BY <1>2
  <2> DEFINE g == [i \in 0..n + 1 |-> IF i = n + 1 THEN Advance(f[n], s[n + 1]) ELSE f[i]]
  <2>2. ASSUME NEW i \in 0..n + 1
        PROVE  g[i] = IF i = 0 THEN Cleared ELSE Advance(g[i - 1], s[i])
    <3>1. CASE i = n + 1
      BY <3>1
    <3>2. CASE i \in 0..n
      BY <2>1, <3>2 DEF Scanned
    <3> QED
      BY <3>1, <3>2
  <2>3. g = [i \in 0..n + 1 |-> IF i = 0 THEN Cleared ELSE Advance(g[i - 1], s[i])]
    BY <2>2
  <2> HIDE DEF g
  <2> QED
    BY <2>3 DEF Scanned
<1> HIDE DEF S
<1>3. Nat \subseteq S
  BY <1>1, <1>2, Induction
<1> QED
  BY <1>3 DEF S

\* Scans of logs that start alike agree, by induction.
LEMMA ScannedSame ==
  ASSUME NEW s, NEW z, NEW n \in Nat, NEW m \in Nat, n <= m, NEW f, NEW g,
         Scanned(f, s, n), Scanned(g, z, m), \A i \in 1..n : s[i] = z[i]
  PROVE  f[n] = g[n]
<1> DEFINE S == {i \in Nat : i <= n => f[i] = g[i]}
<1>1. 0 \in S
  BY DEF Scanned
<1>2. ASSUME NEW i \in Nat, i \in S
      PROVE  i + 1 \in S
  <2> SUFFICES ASSUME i + 1 <= n PROVE f[i + 1] = g[i + 1]
    OBVIOUS
  <2>1. f[i + 1] = Advance(f[(i + 1) - 1], s[i + 1]) /\ g[i + 1] = Advance(g[(i + 1) - 1], z[i + 1])
    BY DEF Scanned
  <2>2. (i + 1) - 1 = i /\ f[i] = g[i] /\ s[i + 1] = z[i + 1]
    BY <1>2
  <2> QED
    BY <2>1, <2>2
<1> HIDE DEF S
<1>3. Nat \subseteq S
  BY <1>1, <1>2, Induction
<1> QED
  BY <1>3 DEF S

\* Scan picks one of them.
LEMMA ScannedChosen ==
  ASSUME NEW s, Len(s) \in Nat
  PROVE  \E f : Scanned(f, s, Len(s)) /\ Scan(s) = f[Len(s)]
<1>1. Scan(s) = (CHOOSE f : Scanned(f, s, Len(s)))[Len(s)]
  BY DEF Scan, Scanned
<1>2. \E f : Scanned(f, s, Len(s))
  BY ScannedExists
<1> QED
  BY <1>1, <1>2

\* The scan after one more event.
LEMMA ScanAppend ==
  ASSUME NEW s \in Seq(Events), NEW e \in Events
  PROVE  Scan(Append(s, e)) = Advance(Scan(s), e)
<1> DEFINE z == Append(s, e)
<1>1. Len(s) \in Nat /\ Len(z) = Len(s) + 1 /\ z[Len(s) + 1] = e
      /\ \A i \in 1..Len(s) : s[i] = z[i]
  OBVIOUS
<1> HIDE DEF z
<1>2. PICK f : Scanned(f, s, Len(s)) /\ Scan(s) = f[Len(s)]
  BY <1>1, ScannedChosen
<1>3. PICK g : Scanned(g, z, Len(z)) /\ Scan(z) = g[Len(z)]
  BY <1>1, ScannedChosen
<1>4. g[Len(s) + 1] = Advance(g[(Len(s) + 1) - 1], e)
  BY <1>1, <1>3 DEF Scanned
<1>5. f[Len(s)] = g[Len(s)]
  BY <1>1, <1>2, <1>3, ScannedSame
<1> QED
  BY <1>1, <1>2, <1>3, <1>4, <1>5 DEF z

\* The scan of an empty log has nothing open.
LEMMA ScanEmpty == Scan(<<>>) = Cleared
<1>1. PICK f : Scanned(f, <<>>, Len(<<>>)) /\ Scan(<<>>) = f[Len(<<>>)]
  BY ScannedChosen
<1> QED
  BY <1>1 DEF Scanned

\* f is the companion's trace after each of the first n events of s.
Traced(f, s, n) == f = [i \in 0..n |-> IF i = 0 THEN FreshTrace ELSE Record(f[i - 1], s[i])]

\* There is such a replay, by induction on n.
LEMMA TracedExists ==
  ASSUME NEW s
  PROVE  \A n \in Nat : \E f : Traced(f, s, n)
<1> DEFINE S == {n \in Nat : \E f : Traced(f, s, n)}
<1>1. 0 \in S
  <2>1. Traced([i \in 0..0 |-> FreshTrace], s, 0)
    BY DEF Traced
  <2> QED
    BY <2>1
<1>2. ASSUME NEW n \in Nat, n \in S
      PROVE  n + 1 \in S
  <2>1. PICK f : Traced(f, s, n)
    BY <1>2
  <2> DEFINE g == [i \in 0..n + 1 |-> IF i = n + 1 THEN Record(f[n], s[n + 1]) ELSE f[i]]
  <2>2. ASSUME NEW i \in 0..n + 1
        PROVE  g[i] = IF i = 0 THEN FreshTrace ELSE Record(g[i - 1], s[i])
    <3>1. CASE i = n + 1
      BY <3>1
    <3>2. CASE i \in 0..n
      BY <2>1, <3>2 DEF Traced
    <3> QED
      BY <3>1, <3>2
  <2>3. g = [i \in 0..n + 1 |-> IF i = 0 THEN FreshTrace ELSE Record(g[i - 1], s[i])]
    BY <2>2
  <2> HIDE DEF g
  <2> QED
    BY <2>3 DEF Traced
<1> HIDE DEF S
<1>3. Nat \subseteq S
  BY <1>1, <1>2, Induction
<1> QED
  BY <1>3 DEF S

\* Replays of logs that start alike agree, by induction.
LEMMA TracedSame ==
  ASSUME NEW s, NEW z, NEW n \in Nat, NEW m \in Nat, n <= m, NEW f, NEW g,
         Traced(f, s, n), Traced(g, z, m), \A i \in 1..n : s[i] = z[i]
  PROVE  f[n] = g[n]
<1> DEFINE S == {i \in Nat : i <= n => f[i] = g[i]}
<1>1. 0 \in S
  BY DEF Traced
<1>2. ASSUME NEW i \in Nat, i \in S
      PROVE  i + 1 \in S
  <2> SUFFICES ASSUME i + 1 <= n PROVE f[i + 1] = g[i + 1]
    OBVIOUS
  <2>1. f[i + 1] = Record(f[(i + 1) - 1], s[i + 1]) /\ g[i + 1] = Record(g[(i + 1) - 1], z[i + 1])
    BY DEF Traced
  <2>2. (i + 1) - 1 = i /\ f[i] = g[i] /\ s[i + 1] = z[i + 1]
    BY <1>2
  <2> QED
    BY <2>1, <2>2
<1> HIDE DEF S
<1>3. Nat \subseteq S
  BY <1>1, <1>2, Induction
<1> QED
  BY <1>3 DEF S

\* Replayed picks one of them.
LEMMA TracedChosen ==
  ASSUME NEW s, Len(s) \in Nat
  PROVE  \E f : Traced(f, s, Len(s)) /\ Replayed(s) = f[Len(s)]
<1>1. Replayed(s) = (CHOOSE f : Traced(f, s, Len(s)))[Len(s)]
  BY DEF Replayed, Traced
<1>2. \E f : Traced(f, s, Len(s))
  BY TracedExists
<1> QED
  BY <1>1, <1>2

\* The companion's trace after one more event.
LEMMA ReplayedAppend ==
  ASSUME NEW s \in Seq(Events), NEW e \in Events
  PROVE  Replayed(Append(s, e)) = Record(Replayed(s), e)
<1> DEFINE z == Append(s, e)
<1>1. Len(s) \in Nat /\ Len(z) = Len(s) + 1 /\ z[Len(s) + 1] = e
      /\ \A i \in 1..Len(s) : s[i] = z[i]
  OBVIOUS
<1> HIDE DEF z
<1>2. PICK f : Traced(f, s, Len(s)) /\ Replayed(s) = f[Len(s)]
  BY <1>1, TracedChosen
<1>3. PICK g : Traced(g, z, Len(z)) /\ Replayed(z) = g[Len(z)]
  BY <1>1, TracedChosen
<1>4. g[Len(s) + 1] = Record(g[(Len(s) + 1) - 1], e)
  BY <1>1, <1>3 DEF Traced
<1>5. f[Len(s)] = g[Len(s)]
  BY <1>1, <1>2, <1>3, TracedSame
<1> QED
  BY <1>1, <1>2, <1>3, <1>4, <1>5 DEF z

\* The replay of an empty log is the fresh trace.
LEMMA ReplayedEmpty == Replayed(<<>>) = FreshTrace
<1>1. PICK f : Traced(f, <<>>, Len(<<>>)) /\ Replayed(<<>>) = f[Len(<<>>)]
  BY TracedChosen
<1> QED
  BY <1>1 DEF Traced

-----------------------------------------------------------------------------
(* What holds of every log that is live, stored or half repaired           *)

Traces == [openTurn : Nat, openStep : Nat, nextTurn : Nat, nextStep : Nat,
           pendingCalls : SUBSET Calls, ok : BOOLEAN]
Entries == [call : Calls, step : Steps, started : BOOLEAN]
Scans   == [turn : {None} \cup Turns, step : {None} \cup Steps, pending : Seq(Entries)]

\* The companion and the repair stand at the same place, and the companion accepts.
Agree(t, scan) ==
  /\ t \in Traces /\ scan \in Scans /\ t.ok
  /\ t.openTurn = scan.turn /\ t.openStep = scan.step
  /\ scan.turn # None => scan.turn = t.nextTurn
  /\ scan.step # None => scan.turn # None /\ scan.step = t.nextStep
  /\ t.nextTurn # 0 /\ t.nextStep # 0

\* The pending calls are distinct calls of the open step; the companion knows
\* those that started.
PendingFits(t, scan) ==
  /\ scan.pending # <<>> => scan.step # None
  /\ \A i \in DOMAIN scan.pending :
       /\ scan.pending[i].step = scan.step
       /\ scan.pending[i].started => scan.pending[i].call \in t.pendingCalls
       /\ \A j \in DOMAIN scan.pending :
            scan.pending[i].call = scan.pending[j].call => i = j

OfStep(e)   == e.type \in {"step/end", "assistant/message", "tool/call", "tool/result"}
Past(t, e)  == e.turn < t.nextTurn \/ (e.turn = t.openTurn /\ e.step < t.nextStep)
Open(t, e)  == e.turn = t.openTurn /\ e.step = t.openStep
IsResult(e) == e.type = "tool/result"
IsCall(e)   == e.type = "tool/call"

\* An event of a step belongs to the open step or to one that is past; the step's
\* end, to one that is past.
InOrder(s, t) ==
  \A i \in DOMAIN s : OfStep(s[i]) =>
    Past(t, s[i]) \/ (Open(t, s[i]) /\ s[i].type # "step/end")

\* A step that has just started has no events yet.
JustStarted(s, t, scan) ==
  s # <<>> /\ s[Len(s)].type = "step/start" =>
    /\ scan.pending = <<>>
    /\ \A i \in DOMAIN s : OfStep(s[i]) => ~Open(t, s[i])

\* What is pending has no result and, if it is not marked, no tool/call either.
PendingTrue(s, t, scan) ==
  \A i \in DOMAIN s, k \in DOMAIN scan.pending :
    OfStep(s[i]) /\ Open(t, s[i]) =>
      /\ ~(IsResult(s[i]) /\ s[i].call = scan.pending[k].call)
      /\ IsCall(s[i]) /\ s[i].call = scan.pending[k].call => scan.pending[k].started

\* A call has one result, before its step's end, and a result that says the call
\* never started is of a call that was never recorded.
ResultsTrue(s) ==
  \A i, j \in DOMAIN s :
    IsResult(s[i]) =>
      /\ IsResult(s[j]) /\ Identity(s[i]) = Identity(s[j]) => i = j
      /\ s[j].type = "step/end" /\ s[i].turn = s[j].turn /\ s[i].step = s[j].step => i < j
      /\ IsCall(s[j]) /\ Identity(s[i]) = Identity(s[j]) => ~s[i].notStarted

\* Every requested call has its result, is pending, or is of an abandoned step.
Answered(s, i, c) ==
  \E r \in i..Len(s) : /\ IsResult(s[r]) /\ s[r].call = c
                       /\ s[r].turn = s[i].turn /\ s[r].step = s[i].step
AllAnswered(s, t, scan, ab) ==
  \A i \in DOMAIN s :
    s[i].type = "assistant/message" /\ <<s[i].turn, s[i].step>> \notin ab =>
      \A c \in 1..s[i].calls :
        \/ Answered(s, i, c)
        \/ Open(t, s[i]) /\ \E k \in DOMAIN scan.pending : scan.pending[k].call = c

Coherent(s, t, scan, ab) ==
  /\ Agree(t, scan)
  /\ PendingFits(t, scan)
  /\ InOrder(s, t)
  /\ JustStarted(s, t, scan)
  /\ PendingTrue(s, t, scan)
  /\ ResultsTrue(s)
  /\ AllAnswered(s, t, scan, ab)
Fits(s, ab) == Coherent(s, Replayed(s), Scan(s), ab)

\* Every prefix of a log is a log the process may have died with.
Sound(s, ab) == \A n \in 0..Len(s) : Fits(SubSeq(s, 1, n), ab)

\* The bodies that ran have their calls in the store.
RanStored == \A x \in ran : \E i \in DOMAIN durable : durable[i] = ToolCall(x[1], x[2], x[3])

Stored(s, prefix) == Len(prefix) <= Len(s) /\ prefix = SubSeq(s, 1, Len(prefix))

IInv ==
  /\ TypeOK
  /\ Sound(log, abandoned) /\ Sound(durable, abandoned)
  /\ mode = "live" => Stored(log, durable)
  /\ mode # "live" => log = <<>> /\ durable \o Closers(durable) = promised
  /\ closers = IF mode = "prepared" THEN Closers(durable) ELSE <<>>
  /\ RanStored

-----------------------------------------------------------------------------
(* What one event does to a coherent log                                   *)

\* The fields of events.
LEMMA EventIs ==
  ASSUME NEW e \in Events
  PROVE  /\ e.turn \in Turns
         /\ OfStep(e) => e.step \in Steps
         /\ IsResult(e) \/ IsCall(e) => e.call \in Calls
         /\ IsResult(e) => e.notStarted \in BOOLEAN
         /\ e.type = "assistant/message" => e.calls \in 0..MaxCalls
  BY DEF Events, OfStep, IsResult, IsCall

\* The shape of a log with one more event.
LEMMA AppendIs ==
  ASSUME NEW s \in Seq(Events), NEW e \in Events
  PROVE  /\ Append(s, e) \in Seq(Events)
         /\ Len(s) \in Nat /\ Len(Append(s, e)) = Len(s) + 1
         /\ DOMAIN s = 1..Len(s) /\ DOMAIN Append(s, e) = 1..Len(s) + 1
         /\ \A i \in 1..Len(s) : Append(s, e)[i] = s[i] /\ s[i] \in Events
         /\ Append(s, e)[Len(s) + 1] = e
  OBVIOUS

\* The fields of the companion's trace, and the trace after an event it accepts.
TraceIs(t, turn, step, nextTurn, nextStep, calls) ==
  /\ t \in Traces /\ t.ok
  /\ t.openTurn = turn /\ t.openStep = step
  /\ t.nextTurn = nextTurn /\ t.nextStep = nextStep /\ t.pendingCalls = calls

\* Recording an event the companion accepts commits its transition.
LEMMA Accepted ==
  ASSUME NEW t \in Traces, t.ok, NEW e, Valid(t, e), NEW turn, NEW step, NEW nextTurn,
         NEW nextStep, NEW calls, TraceIs(Committed(t, e), turn, step, nextTurn, nextStep, calls)
  PROVE  TraceIs(Record(t, e), turn, step, nextTurn, nextStep, calls)
  BY DEF Record, Traces, TraceIs

\* A boundary says nothing about results.
LEMMA ResultsStay ==
  ASSUME NEW s \in Seq(Events), NEW e \in Events, ~OfStep(e), ResultsTrue(s)
  PROVE  ResultsTrue(Append(s, e))
<1>1. ~IsResult(e) /\ ~IsCall(e) /\ e.type # "step/end"
  BY DEF OfStep, IsResult, IsCall
<1> QED
  BY <1>1, AppendIs DEF ResultsTrue

\* An answer given stays given.
LEMMA AnsweredStays ==
  ASSUME NEW s \in Seq(Events), NEW e \in Events, NEW i \in 1..Len(s), NEW c, Answered(s, i, c)
  PROVE  Answered(Append(s, e), i, c)
  BY AppendIs DEF Answered

\* With nothing pending, every call asked for has been answered, and stays so.
LEMMA SettledStays ==
  ASSUME NEW s \in Seq(Events), NEW e \in Events, e.type # "assistant/message", NEW t, NEW scan,
         scan.pending = <<>>, NEW ab, AllAnswered(s, t, scan, ab), NEW u, NEW after
  PROVE  AllAnswered(Append(s, e), u, after, ab)
<1> SUFFICES ASSUME NEW i \in 1..Len(s), s[i].type = "assistant/message",
                    <<s[i].turn, s[i].step>> \notin ab, NEW c \in 1..s[i].calls
             PROVE  Answered(Append(s, e), i, c)
  BY AppendIs DEF AllAnswered
<1>1. Answered(s, i, c)
  BY AppendIs DEF AllAnswered
<1> QED
  BY <1>1, AnsweredStays

\* A turn starts when none is open.
LEMMA TurnStartFits ==
  ASSUME RecoveryAssumption, NEW s \in Seq(Events), NEW t, NEW scan, NEW ab,
         Coherent(s, t, scan, ab),
         t.openTurn = None, t.nextTurn \in Turns
  PROVE  /\ TurnStart(t.nextTurn) \in Events
         /\ Coherent(Append(s, TurnStart(t.nextTurn)), Record(t, TurnStart(t.nextTurn)),
                     Advance(scan, TurnStart(t.nextTurn)), ab)
<1> DEFINE e == TurnStart(t.nextTurn)
           u == Record(t, e)
           after == Advance(scan, e)
<1>1. e \in Events /\ ~OfStep(e) /\ e.type = "turn/start"
  BY DEF TurnStart, Events, OfStep
<1>2. Agree(t, scan)
  BY DEF Coherent
<1>3. /\ after = [turn |-> t.nextTurn, step |-> None, pending |-> <<>>]
      /\ TraceIs(u, t.nextTurn, t.openStep, t.nextTurn, 1, t.pendingCalls)
  <2>1. Valid(t, e)
    BY <1>2 DEF Agree, Traces, Valid, TurnStart
  <2>2. TraceIs(Committed(t, e), t.nextTurn, t.openStep, t.nextTurn, 1, t.pendingCalls)
    BY <1>2 DEF Agree, Traces, Committed, TurnStart, TraceIs, None
  <2>3. TraceIs(u, t.nextTurn, t.openStep, t.nextTurn, 1, t.pendingCalls)
    BY <1>2, <2>1, <2>2, Accepted DEF Agree
  <2>4. after = [turn |-> t.nextTurn, step |-> None, pending |-> <<>>]
    BY DEF Advance, Cleared, TurnStart
  <2> QED
    BY <2>3, <2>4
<1>4. \A i \in 1..Len(s) : OfStep(s[i]) => s[i].turn < t.nextTurn
  BY <1>2, AppendIs, EventIs, <1>1 DEF Coherent, InOrder, Past, Open, Agree, Turns, None
<1> HIDE DEF e, u, after
<1>5. Agree(u, after) /\ PendingFits(u, after)
  BY <1>2, <1>3 DEF TraceIs, Agree, Traces, Scans, PendingFits, None
<1>6. InOrder(Append(s, e), u)
  BY <1>1, <1>3, <1>4, AppendIs DEF TraceIs, InOrder, Past
<1>7. JustStarted(Append(s, e), u, after) /\ PendingTrue(Append(s, e), u, after)
  BY <1>1, <1>3, AppendIs DEF TraceIs, JustStarted, PendingTrue
<1>8. AllAnswered(Append(s, e), u, after, ab)
  <2>1. scan.pending = <<>>
    BY <1>2 DEF Coherent, PendingFits, Agree
  <2> QED
    BY <1>1, <2>1, SettledStays DEF Coherent, OfStep
<1> QED
  BY <1>1, <1>5, <1>6, <1>7, <1>8, ResultsStay DEF Coherent, e, u, after

\* A step starts in an open turn, with nothing pending.
LEMMA StepStartFits ==
  ASSUME RecoveryAssumption, NEW s \in Seq(Events), NEW t, NEW scan, NEW ab,
         Coherent(s, t, scan, ab),
         t.openTurn # None, t.openStep = None, t.nextStep \in Steps
  PROVE  /\ StepStart(t.openTurn, t.nextStep) \in Events
         /\ Coherent(Append(s, StepStart(t.openTurn, t.nextStep)),
                     Record(t, StepStart(t.openTurn, t.nextStep)),
                     Advance(scan, StepStart(t.openTurn, t.nextStep)), ab)
<1> DEFINE e == StepStart(t.openTurn, t.nextStep)
           u == Record(t, e)
           after == Advance(scan, e)
<1>2. Agree(t, scan) /\ t.openTurn \in Turns /\ scan.pending = <<>>
  BY DEF Coherent, Agree, Scans, PendingFits
<1>1. e \in Events /\ ~OfStep(e) /\ e.type = "step/start"
  BY <1>2 DEF StepStart, Events, OfStep
<1>3. /\ after = [turn |-> scan.turn, step |-> t.nextStep, pending |-> <<>>]
      /\ TraceIs(u, t.openTurn, t.nextStep, t.nextTurn, t.nextStep, t.pendingCalls)
  <2>1. Valid(t, e)
    BY <1>2 DEF Agree, Traces, Valid, StepStart
  <2>2. TraceIs(Committed(t, e), t.openTurn, t.nextStep, t.nextTurn, t.nextStep, t.pendingCalls)
    BY <1>2 DEF Agree, Traces, Committed, StepStart, TraceIs, None
  <2>3. TraceIs(u, t.openTurn, t.nextStep, t.nextTurn, t.nextStep, t.pendingCalls)
    BY <1>2, <2>1, <2>2, Accepted DEF Agree
  <2>4. after = [turn |-> scan.turn, step |-> t.nextStep, pending |-> <<>>]
    BY <1>2 DEF Agree, Scans, Advance, StepStart
  <2> QED
    BY <2>3, <2>4
<1>4. \A i \in 1..Len(s) : OfStep(s[i]) => Past(t, s[i])
  BY <1>2, AppendIs, EventIs, <1>1 DEF Coherent, InOrder, Open, Agree, Steps, None
<1> HIDE DEF e, u, after
<1>5. Agree(u, after) /\ PendingFits(u, after)
  BY <1>2, <1>3 DEF TraceIs, Agree, Traces, Scans, PendingFits, None
<1>6. InOrder(Append(s, e), u)
  BY <1>1, <1>3, <1>4, AppendIs DEF TraceIs, InOrder, Past
<1>7. JustStarted(Append(s, e), u, after) /\ PendingTrue(Append(s, e), u, after)
  <2>1. \A i \in 1..Len(s) : OfStep(s[i]) => ~Open(u, s[i])
    BY <1>2, <1>3, <1>4, AppendIs, EventIs, RecoveryAssumption
       DEF TraceIs, Past, Open, Agree, Traces, Steps, Turns
  <2>2. \A i \in DOMAIN Append(s, e) : OfStep(Append(s, e)[i]) => ~Open(u, Append(s, e)[i])
    BY <1>1, <2>1, AppendIs
  <2> QED
    BY <1>3, <2>2 DEF TraceIs, JustStarted, PendingTrue
<1>8. AllAnswered(Append(s, e), u, after, ab)
  BY <1>1, <1>2, SettledStays DEF Coherent, OfStep
<1> QED
  BY <1>1, <1>5, <1>6, <1>7, <1>8, ResultsStay DEF Coherent, e, u, after

\* A turn ends once its steps have ended.
LEMMA TurnEndFits ==
  ASSUME RecoveryAssumption, NEW s \in Seq(Events), NEW t, NEW scan, NEW ab,
         Coherent(s, t, scan, ab),
         t.openTurn # None, t.openStep = None
  PROVE  /\ TurnEnd(t.openTurn) \in Events
         /\ Coherent(Append(s, TurnEnd(t.openTurn)), Record(t, TurnEnd(t.openTurn)),
                     Advance(scan, TurnEnd(t.openTurn)), ab)
         /\ Advance(scan, TurnEnd(t.openTurn)).turn = None
<1> DEFINE e == TurnEnd(t.openTurn)
           u == Record(t, e)
           after == Advance(scan, e)
<1>2. Agree(t, scan) /\ t.openTurn \in Turns /\ scan.pending = <<>>
  BY DEF Coherent, Agree, Scans, PendingFits
<1>1. e \in Events /\ ~OfStep(e) /\ e.type = "turn/end"
  BY <1>2 DEF TurnEnd, Events, OfStep
<1>3. /\ after = [turn |-> None, step |-> None, pending |-> <<>>]
      /\ TraceIs(u, None, t.openStep, t.nextTurn + 1, t.nextStep, t.pendingCalls)
  <2>1. Valid(t, e)
    BY <1>2 DEF Agree, Traces, Valid, TurnEnd
  <2>2. TraceIs(Committed(t, e), None, t.openStep, t.nextTurn + 1, t.nextStep, t.pendingCalls)
    <3>1. e.type = "turn/end" /\ None = 0
      BY DEF TurnEnd, None
    <3>2. t \in Traces /\ t.ok /\ t.nextTurn + 1 \in Nat
      BY <1>2 DEF Agree, Traces
    <3> HIDE DEF e
    <3>3. Committed(t, e) = [t EXCEPT !.openTurn = None, !.nextTurn = @ + 1]
      BY <3>1 DEF Committed
    <3>4. TraceIs([t EXCEPT !.openTurn = None, !.nextTurn = @ + 1], None, t.openStep,
                  t.nextTurn + 1, t.nextStep, t.pendingCalls)
      BY <3>1, <3>2 DEF Traces, TraceIs
    <3> QED
      BY <3>3, <3>4
  <2>3. TraceIs(u, None, t.openStep, t.nextTurn + 1, t.nextStep, t.pendingCalls)
    BY <1>2, <2>1, <2>2, Accepted DEF Agree
  <2>4. after = [turn |-> None, step |-> None, pending |-> <<>>]
    BY DEF Advance, Cleared, TurnEnd
  <2> QED
    BY <2>3, <2>4
<1>4. \A i \in 1..Len(s) : OfStep(s[i]) => s[i].turn < t.nextTurn + 1
  BY <1>2, AppendIs, EventIs, <1>1, RecoveryAssumption
     DEF Coherent, InOrder, Past, Open, Agree, Turns, None, Traces
<1> HIDE DEF e, u, after
<1>5. Agree(u, after) /\ PendingFits(u, after)
  BY <1>2, <1>3 DEF TraceIs, Agree, Traces, Scans, PendingFits, None
<1>6. InOrder(Append(s, e), u)
  BY <1>1, <1>3, <1>4, AppendIs DEF TraceIs, InOrder, Past
<1>7. JustStarted(Append(s, e), u, after) /\ PendingTrue(Append(s, e), u, after)
  BY <1>1, <1>3, AppendIs DEF TraceIs, JustStarted, PendingTrue
<1>8. AllAnswered(Append(s, e), u, after, ab)
  BY <1>1, <1>2, SettledStays DEF Coherent, OfStep
<1> QED
  BY <1>1, <1>3, <1>5, <1>6, <1>7, <1>8, ResultsStay DEF TraceIs, Coherent, e, u, after

\* An assistant message right behind its step's start makes its calls pending.
LEMMA MessageFits ==
  ASSUME RecoveryAssumption, NEW s \in Seq(Events), NEW t, NEW scan, NEW ab,
         Coherent(s, t, scan, ab),
         t.openStep # None, s # <<>>, s[Len(s)].type = "step/start", NEW n \in 0..MaxCalls
  PROVE  /\ Message(t.openTurn, t.openStep, n) \in Events
         /\ Coherent(Append(s, Message(t.openTurn, t.openStep, n)),
                     Record(t, Message(t.openTurn, t.openStep, n)),
                     Advance(scan, Message(t.openTurn, t.openStep, n)), ab)
<1> DEFINE e == Message(t.openTurn, t.openStep, n)
           u == Record(t, e)
           after == Advance(scan, e)
           new == [c \in 1..n |-> [call |-> c, step |-> t.openStep, started |-> FALSE]]
<1>2. Agree(t, scan) /\ t.openTurn \in Turns /\ t.openStep \in Steps /\ scan.pending = <<>>
  BY DEF Coherent, Agree, Scans, JustStarted
<1>1. /\ e \in Events /\ e.type = "assistant/message" /\ e.turn = t.openTurn
      /\ e.step = t.openStep /\ e.calls = n
  BY <1>2 DEF Message, Events
<1>0. new \in Seq(Entries) /\ Len(new) = n /\ DOMAIN new = 1..n
  <2>1. n \in Nat /\ MaxCalls \in Nat
    BY RecoveryAssumption
  <2>2. new \in [1..n -> Entries]
    BY <1>2, <2>1 DEF Entries, Calls
  <2> QED
    BY <2>1, <2>2
<1>3. /\ after = [turn |-> scan.turn, step |-> scan.step, pending |-> new]
      /\ TraceIs(u, t.openTurn, t.openStep, t.nextTurn, t.nextStep, t.pendingCalls)
  <2>1. Valid(t, e)
    BY <1>2 DEF Agree, Traces, Valid, Message, InOpenStep
  <2>2. TraceIs(Committed(t, e), t.openTurn, t.openStep, t.nextTurn, t.nextStep, t.pendingCalls)
    BY <1>2 DEF Agree, Traces, Committed, Message, TraceIs, None
  <2>3. TraceIs(u, t.openTurn, t.openStep, t.nextTurn, t.nextStep, t.pendingCalls)
    BY <1>2, <2>1, <2>2, Accepted DEF Agree
  <2>5. after = [turn |-> scan.turn, step |-> scan.step, pending |-> scan.pending \o new]
    BY <1>2 DEF Agree, Scans, Advance, Message
  <2>6. <<>> \o new = new
    BY <1>0
  <2> QED
    BY <1>2, <2>3, <2>5, <2>6 DEF Agree
<1>4. \A i \in 1..Len(s) : OfStep(s[i]) => ~Open(t, s[i])
  BY AppendIs, <1>1 DEF Coherent, JustStarted
<1>9. /\ DOMAIN after.pending = 1..n
      /\ \A c \in 1..n : after.pending[c] = [call |-> c, step |-> t.openStep, started |-> FALSE]
  BY <1>0, <1>3 DEF TraceIs
<1> HIDE DEF e, u, after, new
<1>5. Agree(u, after) /\ PendingFits(u, after)
  BY <1>0, <1>2, <1>3, <1>9 DEF TraceIs, Agree, Scans, PendingFits, None, Steps
<1>6. InOrder(Append(s, e), u)
  BY <1>1, <1>3, AppendIs DEF TraceIs, InOrder, Coherent, Open, Past
<1>7. JustStarted(Append(s, e), u, after)
  BY <1>1, AppendIs DEF JustStarted
<1>8. PendingTrue(Append(s, e), u, after)
  BY <1>1, <1>3, <1>4, AppendIs DEF TraceIs, PendingTrue, IsResult, IsCall, Open
<1>10. ResultsTrue(Append(s, e))
  BY <1>1, AppendIs DEF Coherent, ResultsTrue, IsResult, IsCall
<1>11. AllAnswered(Append(s, e), u, after, ab)
  <2>1. ASSUME NEW i \in 1..Len(s), s[i].type = "assistant/message",
               <<s[i].turn, s[i].step>> \notin ab, NEW c \in 1..s[i].calls
        PROVE  Answered(Append(s, e), i, c)
    BY <1>1, <1>4, <2>1, AppendIs, AnsweredStays DEF Coherent, AllAnswered, OfStep
  <2>2. ASSUME NEW c \in 1..n
        PROVE  Open(u, e) /\ \E k \in DOMAIN after.pending : after.pending[k].call = c
    <3>1. c \in DOMAIN after.pending /\ after.pending[c] = [call |-> c, step |-> t.openStep, started |-> FALSE]
      BY <1>9
    <3>2. after.pending[c].call = c
      BY <3>1
    <3> QED
      BY <1>1, <1>3, <3>1, <3>2 DEF TraceIs, Open
  <2> QED
    BY <1>1, <2>1, <2>2, AppendIs DEF AllAnswered
<1> QED
  BY <1>1, <1>5, <1>6, <1>7, <1>8, <1>10, <1>11 DEF Coherent, e, u, after

\* What is past is not open.
LEMMA PastNotOpen ==
  ASSUME NEW t, NEW scan, Agree(t, scan), NEW e \in Events, OfStep(e), Past(t, e)
  PROVE  ~Open(t, e)
<1>1. e.turn \in Nat \ {0} /\ e.step \in Nat \ {0}
  BY EventIs DEF Turns, Steps
<1> QED
  BY <1>1 DEF Agree, Traces, Scans, Past, Open, None

\* The step of the pending calls is open.
LEMMA PendingOpen ==
  ASSUME NEW t, NEW scan, Agree(t, scan), PendingFits(t, scan), NEW i \in DOMAIN scan.pending
  PROVE  /\ scan.pending \in Seq(Entries) /\ scan.pending[i] \in Entries
         /\ scan.turn \in Turns /\ scan.turn = t.openTurn
         /\ scan.step \in Steps /\ scan.step = t.openStep /\ scan.pending[i].step = scan.step
  BY DEF Agree, PendingFits, Scans

\* A tool/call marks one of the pending calls as started.
LEMMA ToolCallFits ==
  ASSUME RecoveryAssumption, NEW s \in Seq(Events), NEW t, NEW scan, NEW ab,
         Coherent(s, t, scan, ab),
         NEW i \in DOMAIN scan.pending
  PROVE  /\ ToolCall(scan.turn, scan.step, scan.pending[i].call) \in Events
         /\ Coherent(Append(s, ToolCall(scan.turn, scan.step, scan.pending[i].call)),
                     Record(t, ToolCall(scan.turn, scan.step, scan.pending[i].call)),
                     Advance(scan, ToolCall(scan.turn, scan.step, scan.pending[i].call)), ab)
<1> DEFINE call == scan.pending[i].call
           e == ToolCall(scan.turn, scan.step, call)
           u == Record(t, e)
           after == Advance(scan, e)
           marked == [k \in DOMAIN scan.pending |->
                        IF scan.pending[k].call = call THEN [scan.pending[k] EXCEPT !.started = TRUE]
                                                       ELSE scan.pending[k]]
<1>2. /\ Agree(t, scan) /\ PendingFits(t, scan) /\ scan.pending \in Seq(Entries)
      /\ t.openTurn = scan.turn /\ scan.turn \in Turns
      /\ t.openStep = scan.step /\ scan.step \in Steps /\ call \in Calls
  BY PendingOpen DEF Coherent, Entries
<1>1. /\ e \in Events /\ e.type = "tool/call" /\ IsCall(e) /\ ~IsResult(e) /\ OfStep(e)
      /\ Open(t, e) /\ e.call = call
  BY <1>2 DEF ToolCall, Events, OfStep, IsCall, IsResult, Open
<1>0. /\ marked \in Seq(Entries) /\ DOMAIN marked = DOMAIN scan.pending
      /\ \A k \in DOMAIN scan.pending :
           /\ marked[k].call = scan.pending[k].call /\ marked[k].step = scan.pending[k].step
           /\ scan.pending[k].call = call => marked[k].started
           /\ scan.pending[k].started => marked[k].started
           /\ scan.pending[k].call # call => marked[k] = scan.pending[k]
  <2>1. DOMAIN scan.pending = 1..Len(scan.pending) /\ Len(scan.pending) \in Nat
        /\ \A k \in DOMAIN scan.pending : scan.pending[k] \in Entries
    BY <1>2
  <2> HIDE DEF call
  <2>2. \A k \in DOMAIN scan.pending :
           /\ marked[k] \in Entries
           /\ marked[k].call = scan.pending[k].call /\ marked[k].step = scan.pending[k].step
           /\ scan.pending[k].call = call => marked[k].started
           /\ scan.pending[k].started => marked[k].started
           /\ scan.pending[k].call # call => marked[k] = scan.pending[k]
    BY <2>1 DEF Entries
  <2>3. marked \in [1..Len(scan.pending) -> Entries]
    BY <2>1, <2>2
  <2> HIDE DEF marked
  <2>4. marked \in Seq(Entries) /\ DOMAIN marked = DOMAIN scan.pending
    BY <2>1, <2>3
  <2> QED
    BY <2>2, <2>4
<1>3. /\ after.turn = scan.turn /\ after.step = scan.step /\ after.pending = marked
      /\ after \in Scans
      /\ TraceIs(u, t.openTurn, t.openStep, t.nextTurn, t.nextStep, t.pendingCalls \cup {call})
  <2>1. Valid(t, e)
    BY <1>2 DEF Agree, Traces, Valid, ToolCall, InOpenStep
  <2>2. TraceIs(Committed(t, e), t.openTurn, t.openStep, t.nextTurn, t.nextStep,
                t.pendingCalls \cup {call})
    BY <1>2 DEF Agree, Traces, Committed, ToolCall, TraceIs, None
  <2>3. TraceIs(u, t.openTurn, t.openStep, t.nextTurn, t.nextStep, t.pendingCalls \cup {call})
    BY <1>2, <2>1, <2>2, Accepted DEF Agree
  <2>4. after = [scan EXCEPT !.pending = marked]
    BY DEF Advance, ToolCall
  <2>5. after.turn = scan.turn /\ after.step = scan.step /\ after.pending = marked
        /\ after \in Scans
    <3> HIDE DEF marked, after
    <3> QED
      BY <1>0, <1>2, <2>4 DEF Agree, Scans
  <2> QED
    BY <2>3, <2>5
<1>4. \A j \in 1..Len(s) : OfStep(s[j]) /\ Open(t, s[j]) => ~(IsResult(s[j]) /\ s[j].call = call)
  BY AppendIs, <1>1 DEF Coherent, PendingTrue
<1> HIDE DEF e, u, after, marked, call
<1>5. Agree(u, after) /\ PendingFits(u, after)
  <2>1. Agree(u, after)
    BY <1>2, <1>3 DEF TraceIs, Agree
  <2>2. after.pending # <<>> => after.step # None
    BY <1>2, <1>3 DEF Steps, None
  <2>3. ASSUME NEW k \in DOMAIN after.pending
        PROVE  /\ after.pending[k].step = after.step
               /\ after.pending[k].started => after.pending[k].call \in u.pendingCalls
               /\ \A j \in DOMAIN after.pending :
                    after.pending[k].call = after.pending[j].call => k = j
    BY <1>0, <1>2, <1>3 DEF TraceIs, PendingFits
  <2> QED
    BY <2>1, <2>2, <2>3 DEF PendingFits
<1>6. InOrder(Append(s, e), u)
  BY <1>1, <1>3, AppendIs DEF TraceIs, InOrder, Coherent, Open, Past
<1>7. JustStarted(Append(s, e), u, after)
  BY <1>1, AppendIs DEF JustStarted
<1>8. PendingTrue(Append(s, e), u, after)
  <2>1. \A j \in 1..Len(s) : Open(u, s[j]) => Open(t, s[j])
    BY <1>3 DEF TraceIs, Open
  <2>2. ASSUME NEW j \in 1..Len(s), NEW k \in DOMAIN scan.pending, OfStep(s[j]), Open(u, s[j])
        PROVE  /\ ~(IsResult(s[j]) /\ s[j].call = marked[k].call)
               /\ IsCall(s[j]) /\ s[j].call = marked[k].call => marked[k].started
    BY <1>0, <2>1, <2>2, AppendIs, <1>1 DEF PendingTrue, Coherent
  <2>3. ASSUME NEW k \in DOMAIN scan.pending
        PROVE  ~IsResult(e) /\ (e.call = marked[k].call => marked[k].started)
    BY <1>0, <1>1
  <2> QED
    BY <1>0, <1>1, <1>3, <2>2, <2>3, AppendIs DEF PendingTrue
<1>9. ResultsTrue(Append(s, e))
  <2>1. \A j \in 1..Len(s) : IsResult(s[j]) => Identity(s[j]) # Identity(e)
    BY <1>1, <1>4 DEF Identity, Open, OfStep, IsResult
  <2> QED
    BY <1>1, <2>1, AppendIs DEF Coherent, ResultsTrue
<1>10. AllAnswered(Append(s, e), u, after, ab)
  <2>1. \A j \in 1..Len(s) : Open(t, s[j]) => Open(u, s[j])
    BY <1>3 DEF TraceIs, Open
  <2>2. ASSUME NEW j \in 1..Len(s), s[j].type = "assistant/message",
               <<s[j].turn, s[j].step>> \notin ab, NEW c \in 1..s[j].calls
        PROVE  \/ Answered(Append(s, e), j, c)
               \/ Open(u, s[j]) /\ \E k \in DOMAIN marked : marked[k].call = c
    <3>1. CASE Answered(s, j, c)
      BY <1>1, <3>1, AnsweredStays
    <3>2. CASE Open(t, s[j]) /\ \E k \in DOMAIN scan.pending : scan.pending[k].call = c
      BY <1>0, <2>1, <3>2
    <3> QED
      BY <1>1, <2>2, <3>1, <3>2, AppendIs DEF Coherent, AllAnswered
  <2> QED
    BY <1>1, <1>3, <2>2, AppendIs DEF AllAnswered
<1> QED
  BY <1>1, <1>5, <1>6, <1>7, <1>8, <1>9, <1>10 DEF Coherent, e, u, after, call

\* Deleting the first of distinct calls leaves the others.
LEMMA DeletedFirst ==
  ASSUME NEW p \in Seq(Entries), p # <<>>,
         \A i, j \in DOMAIN p : p[i].call = p[j].call => i = j
  PROVE  /\ Deleted(p, p[1].call) = Tail(p)
         /\ Tail(p) \in Seq(Entries) /\ Len(Tail(p)) = Len(p) - 1 /\ Len(p) \in Nat \ {0}
         /\ DOMAIN Tail(p) = 1..Len(p) - 1 /\ DOMAIN p = 1..Len(p)
         /\ \A k \in 1..Len(p) - 1 : Tail(p)[k] = p[k + 1]
<1>1. 1 \in DOMAIN p /\ Len(p) \in Nat
  OBVIOUS
<1>2. (CHOOSE j \in DOMAIN p : p[j].call = p[1].call) = 1
  BY <1>1
<1>3. Deleted(p, p[1].call) = SubSeq(p, 1, 1 - 1) \o SubSeq(p, 1 + 1, Len(p))
  BY <1>1, <1>2 DEF Deleted
<1>4. SubSeq(p, 1, 1 - 1) \o SubSeq(p, 1 + 1, Len(p)) = Tail(p)
  OBVIOUS
<1> QED
  BY <1>1, <1>3, <1>4

\* The first pending call gets its result, whether it started or not.
LEMMA ToolResultFits ==
  ASSUME RecoveryAssumption, NEW s \in Seq(Events), NEW t, NEW scan, NEW ab,
         Coherent(s, t, scan, ab),
         scan.pending # <<>>, NEW ns \in BOOLEAN, ns <=> ~scan.pending[1].started
  PROVE  /\ ToolResult(scan.turn, scan.step, scan.pending[1].call, ns) \in Events
         /\ Coherent(Append(s, ToolResult(scan.turn, scan.step, scan.pending[1].call, ns)),
                     Record(t, ToolResult(scan.turn, scan.step, scan.pending[1].call, ns)),
                     Advance(scan, ToolResult(scan.turn, scan.step, scan.pending[1].call, ns)), ab)
         /\ LET after == Advance(scan, ToolResult(scan.turn, scan.step, scan.pending[1].call, ns))
            IN  /\ after.turn = scan.turn /\ after.step = scan.step
                /\ after.pending = Tail(scan.pending)
<1> DEFINE call == scan.pending[1].call
           e == ToolResult(scan.turn, scan.step, call, ns)
           u == Record(t, e)
           after == Advance(scan, e)
           rest == Tail(scan.pending)
<1>0. Agree(t, scan) /\ PendingFits(t, scan) /\ 1 \in DOMAIN scan.pending
      /\ scan.pending \in Seq(Entries)
  BY DEF Coherent, Agree, Scans
<1>2. /\ t.openTurn = scan.turn /\ scan.turn \in Turns
      /\ t.openStep = scan.step /\ scan.step \in Steps /\ call \in Calls
  BY <1>0, PendingOpen DEF Entries
<1>1. /\ e \in Events /\ e.type = "tool/result" /\ IsResult(e) /\ ~IsCall(e) /\ OfStep(e)
      /\ Open(t, e) /\ e.call = call /\ e.turn = scan.turn /\ e.step = scan.step
      /\ e.notStarted = ns
  BY <1>2 DEF ToolResult, Events, OfStep, IsCall, IsResult, Open
<1>3. /\ Deleted(scan.pending, call) = rest /\ rest \in Seq(Entries)
      /\ DOMAIN rest = 1..Len(scan.pending) - 1 /\ DOMAIN scan.pending = 1..Len(scan.pending)
      /\ Len(scan.pending) \in Nat \ {0}
      /\ \A k \in DOMAIN rest : /\ k + 1 \in DOMAIN scan.pending /\ rest[k] = scan.pending[k + 1]
                                 /\ rest[k].call # call /\ k \in Nat
  <2> DEFINE p == scan.pending
  <2>1. \A i, j \in DOMAIN p : p[i].call = p[j].call => i = j
    BY <1>0 DEF PendingFits
  <2>2. /\ Deleted(p, p[1].call) = Tail(p)
        /\ Tail(p) \in Seq(Entries) /\ Len(p) \in Nat \ {0}
        /\ DOMAIN Tail(p) = 1..Len(p) - 1 /\ DOMAIN p = 1..Len(p)
        /\ \A k \in 1..Len(p) - 1 : Tail(p)[k] = p[k + 1]
    BY <1>0, <2>1, DeletedFirst
  <2>3. ASSUME NEW k \in 1..Len(p) - 1
        PROVE  k + 1 \in DOMAIN p /\ k + 1 # 1 /\ k \in Nat /\ p[k + 1].call # p[1].call
    <3>1. k \in Nat /\ k + 1 \in 1..Len(p) /\ k + 1 # 1
      BY <2>2
    <3> QED
      BY <1>0, <2>1, <2>2, <3>1
  <2> QED
    BY <2>2, <2>3
<1>4. /\ after.turn = scan.turn /\ after.step = scan.step /\ after.pending = rest
      /\ after \in Scans
      /\ TraceIs(u, t.openTurn, t.openStep, t.nextTurn, t.nextStep, t.pendingCalls \ {call})
  <2>1. Valid(t, e)
    <3>1. call \in t.pendingCalls \/ ns
      BY <1>0 DEF PendingFits
    <3>2. InOpenStep(t, e)
      BY <1>1, <1>2 DEF InOpenStep
    <3> HIDE DEF e
    <3> QED
      BY <1>1, <3>1, <3>2 DEF Valid
  <2>2. TraceIs(Committed(t, e), t.openTurn, t.openStep, t.nextTurn, t.nextStep,
                t.pendingCalls \ {call})
    BY <1>0, <1>2 DEF Agree, Traces, Committed, ToolResult, TraceIs, None
  <2>3. TraceIs(u, t.openTurn, t.openStep, t.nextTurn, t.nextStep, t.pendingCalls \ {call})
    BY <1>0, <2>1, <2>2, Accepted DEF Agree
  <2>4. after = [scan EXCEPT !.pending = rest]
    BY <1>3 DEF Advance, ToolResult
  <2>5. after.turn = scan.turn /\ after.step = scan.step /\ after.pending = rest
        /\ after \in Scans
    <3> HIDE DEF rest, after
    <3> QED
      BY <1>0, <1>3, <2>4 DEF Agree, Scans
  <2> QED
    BY <2>3, <2>5
<1>5. \A j \in 1..Len(s) : OfStep(s[j]) /\ Open(t, s[j]) =>
         /\ s[j].type # "step/end"
         /\ ~(IsResult(s[j]) /\ s[j].call = call)
         /\ IsCall(s[j]) /\ s[j].call = call => ~ns
  BY <1>0, AppendIs, <1>1, PastNotOpen DEF Coherent, PendingTrue, InOrder
<1> HIDE DEF e, u, after, rest, call
<1>6. Agree(u, after)
  BY <1>0, <1>4 DEF TraceIs, Agree
<1>7. PendingFits(u, after)
  <2>1. after.pending # <<>> => after.step # None
    BY <1>2, <1>4 DEF Steps, None
  <2>2. ASSUME NEW k \in DOMAIN after.pending
        PROVE  /\ after.pending[k].step = after.step
               /\ after.pending[k].started => after.pending[k].call \in u.pendingCalls
               /\ \A j \in DOMAIN after.pending :
                    after.pending[k].call = after.pending[j].call => k = j
    <3>1. k + 1 \in DOMAIN scan.pending /\ rest[k] = scan.pending[k + 1] /\ rest[k].call # call
      BY <1>3, <1>4
    <3>2. ASSUME NEW j \in DOMAIN rest, rest[k].call = rest[j].call
          PROVE  k = j
      <4>1. j + 1 \in DOMAIN scan.pending /\ rest[j] = scan.pending[j + 1] /\ j \in Nat /\ k \in Nat
        BY <1>3, <1>4
      <4>2. k + 1 = j + 1
        BY <1>0, <3>1, <3>2, <4>1 DEF PendingFits
      <4> QED
        BY <4>1, <4>2
    <3> QED
      BY <1>0, <1>4, <3>1, <3>2 DEF TraceIs, PendingFits
  <2> QED
    BY <2>1, <2>2 DEF PendingFits
<1>8. InOrder(Append(s, e), u)
  <2>1. \A x : (Open(t, x) <=> Open(u, x)) /\ (Past(t, x) <=> Past(u, x))
    BY <1>4 DEF TraceIs, Open, Past
  <2> QED
    BY <1>1, <2>1, AppendIs DEF InOrder, Coherent
<1>9. JustStarted(Append(s, e), u, after)
  BY <1>1, AppendIs DEF JustStarted
<1>10. PendingTrue(Append(s, e), u, after)
  <2>1. \A j \in 1..Len(s) : Open(u, s[j]) => Open(t, s[j])
    BY <1>4 DEF TraceIs, Open
  <2>2. ASSUME NEW j \in 1..Len(s), NEW k \in DOMAIN rest, OfStep(s[j]), Open(u, s[j])
        PROVE  /\ ~(IsResult(s[j]) /\ s[j].call = rest[k].call)
               /\ IsCall(s[j]) /\ s[j].call = rest[k].call => rest[k].started
    <3>1. k + 1 \in DOMAIN scan.pending /\ rest[k] = scan.pending[k + 1]
      BY <1>3
    <3>2. j \in DOMAIN s /\ Open(t, s[j])
      BY <1>1, <2>1, <2>2, AppendIs
    <3> QED
      BY <2>2, <3>1, <3>2 DEF PendingTrue, Coherent
  <2>3. \A k \in DOMAIN rest : e.call # rest[k].call
    BY <1>1, <1>3
  <2> QED
    BY <1>1, <1>4, <2>2, <2>3, AppendIs DEF PendingTrue
<1>11. ResultsTrue(Append(s, e))
  <2>1. \A j \in 1..Len(s) :
          /\ IsResult(s[j]) => Identity(s[j]) # Identity(e)
          /\ IsCall(s[j]) /\ Identity(e) = Identity(s[j]) => ~ns
          /\ ~(s[j].type = "step/end" /\ e.turn = s[j].turn /\ e.step = s[j].step)
    BY <1>1, <1>2, <1>5 DEF Identity, Open, OfStep, IsResult, IsCall
  <2> QED
    BY <1>1, <2>1, AppendIs DEF Coherent, ResultsTrue
<1>12. AllAnswered(Append(s, e), u, after, ab)
  <2>1. \A j \in 1..Len(s) : Open(t, s[j]) => Open(u, s[j])
    BY <1>4 DEF TraceIs, Open
  <2>2. ASSUME NEW j \in 1..Len(s), s[j].type = "assistant/message",
               <<s[j].turn, s[j].step>> \notin ab, NEW c \in 1..s[j].calls
        PROVE  \/ Answered(Append(s, e), j, c)
               \/ Open(u, s[j]) /\ \E k \in DOMAIN rest : rest[k].call = c
    <3>1. CASE Answered(s, j, c)
      BY <1>1, <3>1, AnsweredStays
    <3>2. CASE Open(t, s[j]) /\ c = call
      <4>1. Len(s) + 1 \in j..Len(Append(s, e)) /\ Append(s, e)[Len(s) + 1] = e
            /\ Append(s, e)[j] = s[j]
        BY <1>1, AppendIs
      <4>2. IsResult(e) /\ e.call = c /\ e.turn = s[j].turn /\ e.step = s[j].step
        BY <1>1, <1>2, <3>2 DEF Open
      <4> QED
        BY <4>1, <4>2 DEF Answered
    <3>3. CASE Open(t, s[j]) /\ \E k \in DOMAIN scan.pending : scan.pending[k].call = c /\ k # 1
      <4>1. PICK k \in DOMAIN scan.pending : scan.pending[k].call = c /\ k # 1
        BY <3>3
      <4>2. k \in 1..Len(scan.pending) /\ (k - 1) + 1 = k /\ k - 1 \in 1..Len(scan.pending) - 1
        <5>1. k \in 1..Len(scan.pending) /\ k # 1 /\ Len(scan.pending) \in Nat
          BY <1>3, <4>1
        <5> QED
          BY <5>1
      <4>3. k - 1 \in DOMAIN rest /\ rest[k - 1] = scan.pending[(k - 1) + 1]
        BY <1>3, <4>2
      <4> QED
        BY <2>1, <3>3, <4>1, <4>2, <4>3
    <3> QED
      BY <1>1, <2>2, <3>1, <3>2, <3>3, AppendIs DEF Coherent, AllAnswered, call
  <2> QED
    BY <1>1, <1>4, <2>2, AppendIs DEF AllAnswered
<1> QED
  BY <1>1, <1>4, <1>6, <1>7, <1>8, <1>9, <1>10, <1>11, <1>12
     DEF Coherent, e, u, after, call, rest

\* A step ends with nothing pending, or is abandoned.
LEMMA StepEndFits ==
  ASSUME RecoveryAssumption, NEW s \in Seq(Events), NEW t, NEW scan, NEW ab,
         Coherent(s, t, scan, ab),
         scan.step # None, NEW all, ab \subseteq all,
         scan.pending = <<>> \/ <<scan.turn, scan.step>> \in all
  PROVE  /\ StepEnd(scan.turn, scan.step) \in Events
         /\ Coherent(Append(s, StepEnd(scan.turn, scan.step)),
                     Record(t, StepEnd(scan.turn, scan.step)),
                     Advance(scan, StepEnd(scan.turn, scan.step)), all)
         /\ LET after == Advance(scan, StepEnd(scan.turn, scan.step))
            IN  after.turn = scan.turn /\ after.step = None /\ after.pending = <<>>
<1> DEFINE e == StepEnd(scan.turn, scan.step)
           u == Record(t, e)
           after == Advance(scan, e)
<1>0. Agree(t, scan)
  BY DEF Coherent
<1>2. /\ t.openTurn = scan.turn /\ scan.turn \in Turns /\ scan.turn = t.nextTurn
      /\ t.openStep = scan.step /\ scan.step \in Steps /\ scan.step = t.nextStep
      /\ t.nextStep \in Nat
  BY <1>0 DEF Agree, Scans, Traces
<1>1. /\ e \in Events /\ e.type = "step/end" /\ ~IsResult(e) /\ ~IsCall(e)
      /\ e.turn = scan.turn /\ e.step = scan.step
  BY <1>2 DEF StepEnd, Events, IsCall, IsResult
<1>3. /\ after.turn = scan.turn /\ after.step = None /\ after.pending = <<>>
      /\ after \in Scans
      /\ TraceIs(u, t.openTurn, None, t.nextTurn, t.nextStep + 1, {})
  <2>1. Valid(t, e)
    BY <1>2 DEF Valid, StepEnd, InOpenStep
  <2>2. TraceIs(Committed(t, e), t.openTurn, None, t.nextTurn, t.nextStep + 1, {})
    <3>1. e.type = "step/end" /\ None = 0
      BY DEF StepEnd, None
    <3>2. t \in Traces /\ t.ok /\ t.nextStep + 1 \in Nat
      BY <1>0, <1>2 DEF Agree, Traces
    <3> HIDE DEF e
    <3>3. Committed(t, e) = [t EXCEPT !.openStep = None, !.nextStep = @ + 1, !.pendingCalls = {}]
      BY <3>1 DEF Committed
    <3>4. TraceIs([t EXCEPT !.openStep = None, !.nextStep = @ + 1, !.pendingCalls = {}],
                  t.openTurn, None, t.nextTurn, t.nextStep + 1, {})
      BY <3>1, <3>2 DEF Traces, TraceIs
    <3> QED
      BY <3>3, <3>4
  <2>3. TraceIs(u, t.openTurn, None, t.nextTurn, t.nextStep + 1, {})
    BY <1>0, <2>1, <2>2, Accepted DEF Agree
  <2>4. after = [scan EXCEPT !.step = None, !.pending = <<>>]
    BY DEF Advance, StepEnd
  <2>5. after.turn = scan.turn /\ after.step = None /\ after.pending = <<>> /\ after \in Scans
    <3> HIDE DEF after
    <3>1. <<>> \in Seq(Entries) /\ scan \in Scans
      BY <1>0 DEF Agree
    <3>2. after.turn = scan.turn /\ after.step = None /\ after.pending = <<>>
      BY <2>4, <3>1 DEF Scans
    <3>3. after \in Scans
      BY <2>4, <3>1 DEF Scans
    <3> QED
      BY <3>2, <3>3
  <2> QED
    BY <2>3, <2>5
<1>4. \A j \in 1..Len(s) : OfStep(s[j]) => Past(u, s[j])
  <2> SUFFICES ASSUME NEW j \in 1..Len(s), OfStep(s[j])
               PROVE  Past(u, s[j])
    OBVIOUS
  <2>1. Past(t, s[j]) \/ Open(t, s[j])
    BY <1>1, AppendIs DEF Coherent, InOrder
  <2>2. s[j].turn \in Nat /\ s[j].step \in Nat
    BY <1>1, AppendIs, EventIs DEF Turns, Steps
  <2> HIDE DEF u
  <2> QED
    BY <1>2, <1>3, <2>1, <2>2 DEF Past, Open, TraceIs
<1> HIDE DEF e, u, after
<1>5. Agree(u, after) /\ PendingFits(u, after)
  <2>1. after.pending = <<>> /\ DOMAIN after.pending = {}
    BY <1>3
  <2> QED
    BY <1>0, <1>2, <1>3, <2>1 DEF TraceIs, Agree, PendingFits, None, Turns
<1>6. InOrder(Append(s, e), u)
  <2>1. Past(u, e)
    BY <1>1, <1>2, <1>3 DEF Past, TraceIs
  <2> QED
    BY <1>1, <1>4, <2>1, AppendIs DEF InOrder
<1>7. JustStarted(Append(s, e), u, after) /\ PendingTrue(Append(s, e), u, after)
  BY <1>1, <1>3, AppendIs DEF JustStarted, PendingTrue
<1>8. ResultsTrue(Append(s, e))
  BY <1>1, AppendIs DEF Coherent, ResultsTrue
<1>9. AllAnswered(Append(s, e), u, after, all)
  <2> SUFFICES ASSUME NEW j \in 1..Len(s), s[j].type = "assistant/message",
                      <<s[j].turn, s[j].step>> \notin all, NEW c \in 1..s[j].calls
               PROVE  Answered(Append(s, e), j, c)
    BY <1>1, AppendIs DEF AllAnswered
  <2>1. ~(Open(t, s[j]) /\ scan.pending # <<>>)
    BY <1>2 DEF Open
  <2> QED
    BY <1>1, <2>1, AppendIs, AnsweredStays DEF Coherent, AllAnswered
<1> QED
  BY <1>1, <1>3, <1>5, <1>6, <1>7, <1>8, <1>9 DEF Coherent, e, u, after

-----------------------------------------------------------------------------
(* Logs, their prefixes, and their closers                                 *)

\* A sequence of two, put together.
LEMMA PairConcat ==
  ASSUME NEW S, NEW x \in S, NEW y \in S
  PROVE  <<x>> \o <<y>> = <<x, y>>
<1> DEFINE a == <<x>> \o <<y>>
<1>1. <<x>> \in Seq(S) /\ <<y>> \in Seq(S) /\ Len(<<x>>) = 1 /\ Len(<<y>>) = 1
  OBVIOUS
<1>2. a \in Seq(S)
  BY <1>1
<1>3. Len(a) = 2
  BY <1>1
<1>4. a[1] = x
  BY <1>1
<1>5. a[2] = y
  BY <1>1
<1> HIDE DEF a
<1>6. a = <<a[1], a[2]>>
  BY <1>2, <1>3
<1> QED
  BY <1>4, <1>5, <1>6 DEF a

\* Concatenation is associative.
LEMMA Reassociated ==
  ASSUME NEW a \in Seq(Events), NEW b \in Seq(Events), NEW c \in Seq(Events)
  PROVE  (a \o b) \o c = a \o (b \o c)
  OBVIOUS

\* Abandoning more steps asks less of a log.
LEMMA FitsMore ==
  ASSUME NEW s, NEW ab, NEW all, ab \subseteq all, Fits(s, ab)
  PROVE  Fits(s, all)
  BY DEF Fits, Coherent, AllAnswered

\* The same for every prefix of the log.
LEMMA SoundMore ==
  ASSUME NEW s, NEW ab, NEW all, ab \subseteq all, Sound(s, ab)
  PROVE  Sound(s, all)
  BY FitsMore DEF Sound

\* A sound log fits as a whole.
LEMMA SoundFits ==
  ASSUME NEW s \in Seq(Events), NEW ab, Sound(s, ab)
  PROVE  Fits(s, ab)
<1>1. SubSeq(s, 1, Len(s)) = s /\ Len(s) \in 0..Len(s)
  OBVIOUS
<1> QED
  BY <1>1 DEF Sound

\* A prefix of a sound log is sound.
LEMMA SoundPrefix ==
  ASSUME NEW s \in Seq(Events), NEW ab, Sound(s, ab), NEW n \in 0..Len(s)
  PROVE  Sound(SubSeq(s, 1, n), ab)
<1>1. Len(SubSeq(s, 1, n)) = n /\ \A k \in 0..n : SubSeq(SubSeq(s, 1, n), 1, k) = SubSeq(s, 1, k)
  OBVIOUS
<1>2. \A k \in 0..n : k \in 0..Len(s)
  OBVIOUS
<1> QED
  BY <1>1, <1>2 DEF Sound

\* A log fits after one more event if trace and scan, advanced by it, do.
LEMMA FitsAppend ==
  ASSUME NEW s \in Seq(Events), NEW e \in Events, NEW ab,
         Coherent(Append(s, e), Record(Replayed(s), e), Advance(Scan(s), e), ab)
  PROVE  Fits(Append(s, e), ab)
  BY ScanAppend, ReplayedAppend DEF Fits

\* A sound log stays sound when it grows to one that fits.
LEMMA SoundAppend ==
  ASSUME NEW s \in Seq(Events), NEW e \in Events, NEW ab, NEW all, ab \subseteq all,
         Sound(s, ab), Fits(Append(s, e), all)
  PROVE  Sound(Append(s, e), all)
<1>1. Len(Append(s, e)) = Len(s) + 1 /\ Len(s) \in Nat /\ Append(s, e) \in Seq(Events)
  OBVIOUS
<1>2. \A k \in 0..Len(s) : SubSeq(Append(s, e), 1, k) = SubSeq(s, 1, k)
  OBVIOUS
<1>3. SubSeq(Append(s, e), 1, Len(s) + 1) = Append(s, e)
  OBVIOUS
<1>4. \A k \in 0..Len(s) : Fits(SubSeq(s, 1, k), all)
  BY FitsMore DEF Sound
<1>5. \A k \in 0..Len(s) + 1 : k \in 0..Len(s) \/ k = Len(s) + 1
  BY <1>1
<1> QED
  BY <1>1, <1>2, <1>3, <1>4, <1>5 DEF Sound

\* The empty log is sound.
LEMMA SoundEmpty ==
  ASSUME RecoveryAssumption, NEW ab
  PROVE  Sound(<<>>, ab)
<1>1. Agree(FreshTrace, Cleared)
  BY DEF Agree, FreshTrace, Cleared, Traces, Scans, None
<1>2. PendingFits(FreshTrace, Cleared)
  BY DEF PendingFits, Cleared
<1>3. Coherent(<<>>, FreshTrace, Cleared, ab)
  BY <1>1, <1>2 DEF Coherent, InOrder, JustStarted, PendingTrue, ResultsTrue, AllAnswered
<1>4. Fits(<<>>, ab)
  BY <1>3, ScanEmpty, ReplayedEmpty DEF Fits
<1>5. \A n \in 0..Len(<<>>) : SubSeq(<<>>, 1, n) = <<>>
  OBVIOUS
<1> QED
  BY <1>4, <1>5 DEF Sound

\* The boundaries that close what is open behind the results.
Ends(scan) ==
  (IF scan.step = None THEN <<>> ELSE <<StepEnd(scan.turn, scan.step)>>) \o <<TurnEnd(scan.turn)>>

\* The closers of an open turn: the results, then the boundaries.
LEMMA ClosersAre ==
  ASSUME NEW s \in Seq(Events), NEW ab, Fits(s, ab), Scan(s).turn # None
  PROVE  /\ Results(Scan(s)) \in Seq(Events) /\ Ends(Scan(s)) \in Seq(Events)
         /\ Closers(s) = Results(Scan(s)) \o Ends(Scan(s)) /\ Closers(s) \in Seq(Events)
         /\ Len(Results(Scan(s))) = Len(Scan(s).pending)
<1> DEFINE scan == Scan(s)
<1>1. Agree(Replayed(s), scan) /\ PendingFits(Replayed(s), scan) /\ scan \in Scans
  BY DEF Fits, Coherent, Agree
<1>2. /\ scan.turn \in Turns /\ scan.pending \in Seq(Entries)
      /\ scan.step # None => scan.step \in Steps
  BY <1>1 DEF Scans
<1>3. Closers(s) = Results(scan) \o (IF scan.step = None THEN <<>> ELSE <<StepEnd(scan.turn, scan.step)>>)
                     \o <<TurnEnd(scan.turn)>>
  BY DEF Closers
<1> HIDE DEF scan
<1>4. Results(scan) \in [1..Len(scan.pending) -> Events]
  <2>1. ASSUME NEW i \in DOMAIN scan.pending
        PROVE  ToolResult(scan.turn, scan.pending[i].step, scan.pending[i].call,
                          ~scan.pending[i].started) \in Events
    <3>1. scan.pending[i] \in Entries
      BY <1>2
    <3> QED
      BY <1>2, <3>1 DEF ToolResult, Entries, Events
  <2> QED
    BY <1>2, <2>1 DEF Results
<1>5. Results(scan) \in Seq(Events) /\ Len(Results(scan)) = Len(scan.pending)
  BY <1>2, <1>4
<1>6. TurnEnd(scan.turn) \in Events
  BY <1>2 DEF TurnEnd, Events
<1>7. scan.step # None => StepEnd(scan.turn, scan.step) \in Events
  BY <1>2 DEF StepEnd, Events
<1>8. Ends(scan) \in Seq(Events)
  BY <1>6, <1>7 DEF Ends
<1>9. Closers(s) = Results(scan) \o Ends(scan)
  <2> DEFINE middle == IF scan.step = None THEN <<>> ELSE <<StepEnd(scan.turn, scan.step)>>
             last == <<TurnEnd(scan.turn)>>
  <2>1. middle \in Seq(Events) /\ last \in Seq(Events)
    BY <1>6, <1>7
  <2>2. Closers(s) = (Results(scan) \o middle) \o last /\ Ends(scan) = middle \o last
    BY <1>3 DEF Ends
  <2> HIDE DEF middle, last
  <2>3. \A x, y, z \in Seq(Events) : (x \o y) \o z = x \o (y \o z)
    OBVIOUS
  <2>4. (Results(scan) \o middle) \o last = Results(scan) \o (middle \o last)
    <3>1. Results(scan) \in Seq(Events)
      BY <1>5
    <3> HIDE <1>1, <1>2, <1>3, <1>4, <1>6, <1>7, <1>8
    <3> QED
      BY <2>1, <2>3, <3>1, Zenon
  <2> QED
    BY <2>2, <2>4
<1> QED
  BY <1>5, <1>8, <1>9 DEF scan

\* The first closer leaves the others to be written.
LEMMA CloseOne ==
  ASSUME RecoveryAssumption, NEW s \in Seq(Events), NEW ab, Sound(s, ab), Closers(s) # <<>>
  PROVE  /\ Closers(s) \in Seq(Events) /\ Head(Closers(s)) \in Events
         /\ Sound(Append(s, Head(Closers(s))), ab)
         /\ Closers(Append(s, Head(Closers(s)))) = Tail(Closers(s))
<1> DEFINE scan == Scan(s)
           t == Replayed(s)
           e == Head(Closers(s))
           after == Advance(scan, e)
<1>1. Coherent(s, t, scan, ab) /\ Agree(t, scan) /\ PendingFits(t, scan)
  BY SoundFits DEF Fits, Coherent
<1>2. scan.turn # None
  BY DEF Closers
<1>3. /\ Results(scan) \in Seq(Events) /\ Ends(scan) \in Seq(Events)
      /\ Closers(s) = Results(scan) \o Ends(scan) /\ Closers(s) \in Seq(Events)
      /\ Len(Results(scan)) = Len(scan.pending)
  BY <1>2, SoundFits, ClosersAre
<1>4. scan.pending \in Seq(Entries) /\ t.openTurn = scan.turn /\ t.openStep = scan.step
  BY <1>1 DEF Agree, Scans
<1>5. ASSUME e \in Events, Coherent(Append(s, e), Record(t, e), after, ab)
      PROVE  Sound(Append(s, e), ab) /\ Scan(Append(s, e)) = after
    BY <1>5, FitsAppend, SoundAppend, ScanAppend
<1>6. CASE scan.pending # <<>>
  <2> DEFINE p == scan.pending
             first == ToolResult(scan.turn, p[1].step, p[1].call, ~p[1].started)
  <2>1. 1 \in DOMAIN p /\ p[1].step = scan.step /\ Results(scan) # <<>>
        /\ Results(scan)[1] = first
    BY <1>1, <1>3, <1>4, <1>6 DEF PendingFits, Results
  <2>2. e = first /\ Tail(Closers(s)) = Tail(Results(scan)) \o Ends(scan)
    <3>1. e = Results(scan)[1]
      BY <1>3, <2>1
    <3>2. Tail(Results(scan) \o Ends(scan)) = Tail(Results(scan)) \o Ends(scan)
      BY <1>3, <2>1
    <3> QED
      BY <1>3, <2>1, <3>1, <3>2
  <2>3. PICK ns \in BOOLEAN : ns = ~p[1].started
    OBVIOUS
  <2>4. e = ToolResult(scan.turn, scan.step, p[1].call, ns)
    BY <2>1, <2>2, <2>3
  <2> HIDE DEF e
  <2>5. /\ e \in Events /\ Coherent(Append(s, e), Record(t, e), after, ab)
        /\ after.turn = scan.turn /\ after.step = scan.step /\ after.pending = Tail(p)
    <3>1. ns <=> ~scan.pending[1].started
      BY <2>3
    <3> HIDE DEF scan, t
    <3> QED
      BY <1>1, <1>6, <2>4, <3>1, ToolResultFits
  <2>6. Sound(Append(s, e), ab) /\ Scan(Append(s, e)) = after
    BY <1>5, <2>5
  <2> HIDE DEF scan, t, after
  <2>7. Results(after) = Tail(Results(scan))
    <3>1. /\ DOMAIN Tail(p) = 1..Len(p) - 1 /\ Len(p) \in Nat
          /\ \A k \in 1..Len(p) - 1 : Tail(p)[k] = p[k + 1] /\ k + 1 \in DOMAIN p
      BY <1>4, <1>6
    <3>2. Results(scan) = [i \in DOMAIN p |-> ToolResult(scan.turn, p[i].step, p[i].call, ~p[i].started)]
      BY DEF Results
    <3>3. /\ DOMAIN Tail(Results(scan)) = 1..Len(p) - 1
          /\ \A k \in 1..Len(p) - 1 : Tail(Results(scan))[k] = Results(scan)[k + 1]
      BY <1>3, <2>1
    <3>4. \A k \in 1..Len(p) - 1 :
            Tail(Results(scan))[k] = ToolResult(scan.turn, p[k + 1].step, p[k + 1].call, ~p[k + 1].started)
      BY <3>1, <3>2, <3>3
    <3>5. Results(after) = [i \in 1..Len(p) - 1 |-> ToolResult(scan.turn, Tail(p)[i].step,
                              Tail(p)[i].call, ~Tail(p)[i].started)]
      BY <2>5, <3>1 DEF Results
    <3>6. Tail(Results(scan)) = [i \in 1..Len(p) - 1 |-> Tail(Results(scan))[i]]
      <4>1. Tail(Results(scan)) \in Seq(Events)
        BY <1>3, <2>1
      <4>2. \A T \in Seq(Events) : T = [i \in DOMAIN T |-> T[i]]
        OBVIOUS
      <4> QED
        BY <3>3, <4>1, <4>2, Zenon
    <3> QED
      BY <3>1, <3>4, <3>5, <3>6
  <2>8. Ends(after) = Ends(scan)
    BY <2>5 DEF Ends
  <2>9. Closers(Append(s, e)) = Results(after) \o Ends(after)
    <3>1. Append(s, e) \in Seq(Events)
      BY <2>5
    <3> QED
      BY <1>2, <2>5, <2>6, <3>1, SoundFits, ClosersAre
  <2> QED
    BY <1>3, <2>2, <2>5, <2>6, <2>7, <2>8, <2>9 DEF e
<1>7. CASE scan.pending = <<>> /\ scan.step # None
  <2>1. Results(scan) = <<>>
    BY <1>3, <1>7
  <2>2. Closers(s) = <<StepEnd(scan.turn, scan.step), TurnEnd(scan.turn)>>
    <3>1. Closers(s) = Ends(scan)
      BY <1>3, <2>1
    <3>2. Ends(scan) = <<StepEnd(scan.turn, scan.step)>> \o <<TurnEnd(scan.turn)>>
      BY <1>7 DEF Ends
    <3>3. \A x, y \in Events : <<x>> \o <<y>> = <<x, y>>
      BY PairConcat
    <3>4. StepEnd(scan.turn, scan.step) \in Events /\ TurnEnd(scan.turn) \in Events
      BY <1>1, <1>2, <1>7 DEF Agree, Scans, StepEnd, TurnEnd, Events
    <3> HIDE DEF scan
    <3> QED
      BY <3>1, <3>2, <3>3, <3>4
  <2>3. e = StepEnd(scan.turn, scan.step) /\ Tail(Closers(s)) = <<TurnEnd(scan.turn)>>
    BY <2>2
  <2>4. /\ e \in Events /\ Coherent(Append(s, e), Record(t, e), after, ab)
        /\ after.turn = scan.turn /\ after.step = None /\ after.pending = <<>>
    <3> HIDE DEF e
    <3> QED
      BY <1>1, <1>7, <2>3, StepEndFits
  <2>5. Sound(Append(s, e), ab) /\ Scan(Append(s, e)) = after /\ Append(s, e) \in Seq(Events)
    BY <1>5, <2>4
  <2>6. /\ Closers(Append(s, e)) = Results(after) \o Ends(after)
        /\ Results(after) \in Seq(Events) /\ Len(Results(after)) = Len(after.pending)
    <3> HIDE DEF e
    <3> QED
      BY <1>2, <2>4, <2>5, SoundFits, ClosersAre
  <2> HIDE DEF e, after, scan
  <2>7. Results(after) = <<>> /\ Ends(after) = <<>> \o <<TurnEnd(scan.turn)>>
    BY <2>4, <2>6 DEF Ends
  <2>8. Closers(Append(s, e)) = <<TurnEnd(scan.turn)>>
    BY <2>6, <2>7
  <2> QED
    BY <1>3, <2>3, <2>4, <2>5, <2>8 DEF e
<1>8. CASE scan.pending = <<>> /\ scan.step = None
  <2>1. Results(scan) = <<>>
    BY <1>3, <1>8
  <2>2. Closers(s) = <<TurnEnd(scan.turn)>>
    BY <1>3, <1>8, <2>1 DEF Ends
  <2>3. e = TurnEnd(scan.turn) /\ Tail(Closers(s)) = <<>>
    BY <2>2
  <2>4. e \in Events /\ Coherent(Append(s, e), Record(t, e), after, ab) /\ after.turn = None
    <3> HIDE DEF e
    <3> QED
      BY <1>1, <1>2, <1>4, <1>8, <2>3, TurnEndFits
  <2>5. Sound(Append(s, e), ab) /\ Scan(Append(s, e)) = after
    BY <1>5, <2>4
  <2>6. Closers(Append(s, e)) = <<>>
    <3> HIDE DEF e, after
    <3> QED
      BY <2>4, <2>5 DEF Closers
  <2> QED
    BY <1>3, <2>3, <2>4, <2>5, <2>6
<1> QED
  BY <1>6, <1>7, <1>8


\* An element appended to a concatenation is appended to its second part.
LEMMA AppendBehind ==
  ASSUME NEW a \in Seq(Events), NEW b \in Seq(Events), NEW x \in Events
  PROVE  Append(a \o b, x) = a \o Append(b, x)
<1> DEFINE l == Append(a \o b, x)
           r == a \o Append(b, x)
<1>1. l \in Seq(Events) /\ r \in Seq(Events)
  OBVIOUS
<1>2. Len(l) = Len(r)
  OBVIOUS
<1>3. \A i \in 1..Len(l) : l[i] = r[i]
  OBVIOUS
<1> HIDE DEF l, r
<1>4. l = r
  BY <1>1, <1>2, <1>3
<1> QED
  BY <1>4 DEF l, r

\* A log continued by one more element of a sequence.
LEMMA OneMore ==
  ASSUME NEW s \in Seq(Events), NEW c \in Seq(Events), NEW n \in Nat, n + 1 <= Len(c)
  PROVE  /\ SubSeq(c, n + 1, Len(c)) # <<>>
         /\ Head(SubSeq(c, n + 1, Len(c))) = c[n + 1]
         /\ Tail(SubSeq(c, n + 1, Len(c))) = SubSeq(c, n + 2, Len(c))
         /\ Append(s \o SubSeq(c, 1, n), c[n + 1]) = s \o SubSeq(c, 1, n + 1)
<1>1. n + 1 \in 1..Len(c) /\ Len(c) \in (n + 1)..Len(c) /\ (n + 1) + 1 = n + 2
  OBVIOUS
<1>2. SubSeq(c, n + 1, Len(c)) # <<>>
  <2>1. Len(SubSeq(c, n + 1, Len(c))) = Len(c) - n /\ Len(c) - n # 0
    OBVIOUS
  <2> QED
    BY <2>1
<1>3. /\ Head(SubSeq(c, n + 1, Len(c))) = c[n + 1]
      /\ Tail(SubSeq(c, n + 1, Len(c))) = SubSeq(c, (n + 1) + 1, Len(c))
  BY <1>1, HeadTailOfSubSeq
<1>4. Append(s \o SubSeq(c, 1, n), c[n + 1]) = s \o SubSeq(c, 1, n + 1)
  <2>1. SubSeq(c, 1, n) \in Seq(Events) /\ c[n + 1] \in Events
    OBVIOUS
  <2>2. SubSeq(c, 1, n + 1) = Append(SubSeq(c, 1, n), c[n + 1])
    OBVIOUS
  <2>3. Append(s \o SubSeq(c, 1, n), c[n + 1]) = s \o Append(SubSeq(c, 1, n), c[n + 1])
    <3> DEFINE b == SubSeq(c, 1, n)
               x == c[n + 1]
    <3>1. b \in Seq(Events) /\ x \in Events
      BY <2>1
    <3> HIDE DEF b, x
    <3>2. Append(s \o b, x) = s \o Append(b, x)
      BY <3>1, AppendBehind, Zenon
    <3> QED
      BY <3>2 DEF b, x
  <2> QED
    BY <2>2, <2>3, Zenon
<1> QED
  BY <1>1, <1>2, <1>3, <1>4, Zenon

\* After any number of the closers, the log is one the process may have died
\* with, and the repair has the others left to write.
LEMMA CloseMany ==
  ASSUME RecoveryAssumption, NEW s \in Seq(Events), NEW ab, Sound(s, ab)
  PROVE  /\ Closers(s) \in Seq(Events)
         /\ \A n \in 0..Len(Closers(s)) :
              /\ s \o SubSeq(Closers(s), 1, n) \in Seq(Events)
              /\ Sound(s \o SubSeq(Closers(s), 1, n), ab)
              /\ Closers(s \o SubSeq(Closers(s), 1, n))
                   = SubSeq(Closers(s), n + 1, Len(Closers(s)))
<1> DEFINE c == Closers(s)
           z(n) == s \o SubSeq(c, 1, n)
           Done(n) == Sound(z(n), ab) /\ Closers(z(n)) = SubSeq(c, n + 1, Len(c))
           S == {n \in Nat : n <= Len(c) => Done(n)}
<1>1. c \in Seq(Events)
  <2>1. CASE c = <<>>
    BY <2>1
  <2>2. CASE c # <<>>
    BY <2>2, CloseOne
  <2> QED
    BY <2>1, <2>2
<1>2. \A n \in 0..Len(c) : z(n) \in Seq(Events)
  <2> HIDE DEF c
  <2> QED
    BY <1>1
<1>3. 0 \in S
  <2>1. z(0) = s /\ c = SubSeq(c, 0 + 1, Len(c))
    <3> HIDE DEF c
    <3> QED
      BY <1>1
  <2>2. Done(0)
    BY <2>1
  <2> QED
    BY <2>2
<1>4. ASSUME NEW n \in Nat, n \in S
      PROVE  n + 1 \in S
  <2> HIDE DEF c
  <2> HIDE DEF z, Done
  <2> SUFFICES ASSUME n + 1 <= Len(c) PROVE Done(n + 1)
    OBVIOUS
  <2>1. Len(c) \in Nat /\ n <= Len(c) /\ n \in 0..Len(c)
    BY <1>1
  <2>2. /\ Sound(z(n), ab) /\ Closers(z(n)) = SubSeq(c, n + 1, Len(c))
        /\ z(n) \in Seq(Events)
    BY <1>2, <1>4, <2>1 DEF Done
  <2>3. /\ SubSeq(c, n + 1, Len(c)) # <<>>
        /\ Head(SubSeq(c, n + 1, Len(c))) = c[n + 1]
        /\ Tail(SubSeq(c, n + 1, Len(c))) = SubSeq(c, n + 2, Len(c))
        /\ Append(z(n), c[n + 1]) = z(n + 1)
    BY <1>1, OneMore DEF z
  <2>4. Sound(Append(z(n), c[n + 1]), ab) /\ Closers(Append(z(n), c[n + 1])) = SubSeq(c, n + 2, Len(c))
    BY <2>2, <2>3, CloseOne
  <2>5. (n + 1) + 1 = n + 2
    OBVIOUS
  <2> QED
    BY <2>3, <2>4, <2>5 DEF Done
<1> HIDE DEF c, z, Done
<1>5. Nat \subseteq S
  BY <1>3, <1>4, Induction
<1>6. \A n \in 0..Len(c) : n \in Nat /\ n <= Len(c)
  BY <1>1
<1>7. \A n \in 0..Len(c) : Done(n)
  BY <1>5, <1>6
<1> QED
  BY <1>1, <1>2, <1>7 DEF c, z, Done

\* A repaired log is balanced.
LEMMA CloseAll ==
  ASSUME RecoveryAssumption, NEW s \in Seq(Events), NEW ab, Sound(s, ab)
  PROVE  /\ s \o Closers(s) \in Seq(Events) /\ Sound(s \o Closers(s), ab)
         /\ Closers(s \o Closers(s)) = <<>>
<1> DEFINE c == Closers(s)
<1>1. c \in Seq(Events) /\ s \o c \in Seq(Events)
  BY CloseMany
<1>2. Sound(s \o SubSeq(c, 1, Len(c)), ab)
      /\ Closers(s \o SubSeq(c, 1, Len(c))) = SubSeq(c, Len(c) + 1, Len(c))
  <2>1. Len(c) \in 0..Len(c)
    BY <1>1
  <2> QED
    BY <2>1, CloseMany
<1>3. SubSeq(c, 1, Len(c)) = c /\ SubSeq(c, Len(c) + 1, Len(c)) = <<>>
  <2> HIDE DEF c
  <2> QED
    BY <1>1
<1> QED
  BY <1>1, <1>2, <1>3

-----------------------------------------------------------------------------
(* The invariant, action by action                                         *)

\* The empty log of a fresh session satisfies the invariant.
LEMMA InitInv ==
  ASSUME RecoveryAssumption, Init
  PROVE  IInv
<1>1. Sound(<<>>, abandoned)
  BY SoundEmpty
<1>2. TypeOK
  BY DEF Init, TypeOK, RecoveryAssumption
<1>3. Stored(<<>>, <<>>)
  BY DEF Stored
<1> QED
  BY <1>1, <1>2, <1>3 DEF Init, IInv, RanStored

\* A live log that grows by one fitting event keeps the invariant.
LEMMA Extended ==
  ASSUME RecoveryAssumption, IInv, NEW e \in Events, Appended(e),
         Coherent(Append(log, e), Record(Replayed(log), e), Advance(Scan(log), e), abandoned'),
         abandoned \subseteq abandoned', abandoned' \subseteq Turns \X Steps,
         UNCHANGED <<ran, promised>>
  PROVE  IInv'
<1>1. /\ mode = "live" /\ log' = Append(log, e) /\ UNCHANGED <<mode, durable, closers, crashes>>
      /\ log \in Seq(Events) /\ durable \in Seq(Events)
  BY DEF Appended, IInv, TypeOK
<1>2. log' \in Seq(Events)
  BY <1>1
<1>3. TypeOK'
  BY <1>1, <1>2 DEF IInv, TypeOK
<1>4. Sound(log, abandoned) /\ Sound(durable, abandoned) /\ Stored(log, durable)
      /\ closers = <<>> /\ RanStored
  BY <1>1 DEF IInv
<1>5. Fits(log', abandoned')
  BY <1>1, FitsAppend
<1>6. Sound(log', abandoned') /\ Sound(durable', abandoned')
  BY <1>1, <1>4, <1>5, SoundAppend, SoundMore
<1>7. Stored(log', durable')
  <2>1. Len(Append(log, e)) = Len(log) + 1 /\ Len(log) \in Nat /\ Len(durable) \in Nat
    BY <1>1
  <2>2. \A n \in 0..Len(log) : SubSeq(Append(log, e), 1, n) = SubSeq(log, 1, n)
    BY <1>1
  <2> QED
    BY <1>1, <1>4, <2>1, <2>2 DEF Stored
<1>8. RanStored'
  BY <1>1, <1>4 DEF RanStored
<1> QED
  BY <1>1, <1>3, <1>4, <1>6, <1>7, <1>8 DEF IInv

\* What a live session's state says about its log.
LEMMA LiveLog ==
  ASSUME IInv
  PROVE  /\ log \in Seq(Events) /\ abandoned \subseteq Turns \X Steps
         /\ Coherent(log, Replayed(log), Scan(log), abandoned)
         /\ Agree(Replayed(log), Scan(log))
         /\ Scan(log).pending \in Seq(Entries)
<1>1. log \in Seq(Events) /\ abandoned \subseteq Turns \X Steps /\ Sound(log, abandoned)
  BY DEF IInv, TypeOK
<1> QED
  BY <1>1, SoundFits DEF Fits, Coherent, Agree, Scans

\* turn/start is appended.
LEMMA OpenTurnStep ==
  ASSUME RecoveryAssumption, IInv, OpenTurn
  PROVE  IInv'
<1> DEFINE t == Replayed(log)
           e == TurnStart(t.nextTurn)
<1>1. t.openTurn = None /\ Appended(e) /\ UNCHANGED history /\ t.nextTurn <= MaxTurns
  BY DEF OpenTurn
<1>2. t.nextTurn \in Turns
  BY <1>1, LiveLog DEF Agree, Traces, Turns, RecoveryAssumption
<1>3. e \in Events /\ Coherent(Append(log, e), Record(t, e), Advance(Scan(log), e), abandoned)
  BY <1>1, <1>2, LiveLog, TurnStartFits
<1> HIDE DEF e, t
<1> QED
  BY <1>1, <1>3, LiveLog, Extended DEF history, t

\* step/start is appended.
LEMMA OpenStepStep ==
  ASSUME RecoveryAssumption, IInv, OpenStep
  PROVE  IInv'
<1> DEFINE t == Replayed(log)
           e == StepStart(t.openTurn, t.nextStep)
<1>1. /\ t.openTurn # None /\ t.openStep = None /\ Appended(e)
      /\ UNCHANGED history /\ t.nextStep <= MaxSteps
  BY DEF OpenStep
<1>2. t.nextStep \in Steps
  BY <1>1, LiveLog DEF Agree, Traces, Steps, RecoveryAssumption
<1>3. e \in Events /\ Coherent(Append(log, e), Record(t, e), Advance(Scan(log), e), abandoned)
  BY <1>1, <1>2, LiveLog, StepStartFits
<1> HIDE DEF e, t
<1> QED
  BY <1>1, <1>3, LiveLog, Extended DEF history, t

\* The assistant message is appended.
LEMMA AnswerStep ==
  ASSUME RecoveryAssumption, IInv, NEW n \in 0..MaxCalls, Answer(n)
  PROVE  IInv'
<1> DEFINE t == Replayed(log)
           e == Message(t.openTurn, t.openStep, n)
<1>1. /\ t.openStep # None /\ log[Len(log)].type = "step/start" /\ Appended(e)
      /\ UNCHANGED history
  BY DEF Answer
<1>2. log # <<>>
  BY <1>1, ReplayedEmpty DEF FreshTrace
<1>3. e \in Events /\ Coherent(Append(log, e), Record(t, e), Advance(Scan(log), e), abandoned)
  BY <1>1, <1>2, LiveLog, MessageFits
<1> HIDE DEF e, t
<1> QED
  BY <1>1, <1>3, LiveLog, Extended DEF history, t

\* tool/call is appended.
LEMMA CallToolStep ==
  ASSUME RecoveryAssumption, IInv, CallTool
  PROVE  IInv'
<1> DEFINE scan == Scan(log)
<1>1. PICK i \in DOMAIN scan.pending :
        Appended(ToolCall(scan.turn, scan.step, scan.pending[i].call)) /\ UNCHANGED history
  BY DEF CallTool
<1> DEFINE e == ToolCall(scan.turn, scan.step, scan.pending[i].call)
<1>2. e \in Events /\ Coherent(Append(log, e), Record(Replayed(log), e), Advance(scan, e), abandoned)
  BY LiveLog, ToolCallFits
<1> HIDE DEF e
<1>3. Appended(e) /\ UNCHANGED history
  BY <1>1 DEF e
<1> QED
  BY <1>2, <1>3, LiveLog, Extended DEF history

\* The result of a started call is appended.
LEMMA RecordResultStep ==
  ASSUME RecoveryAssumption, IInv, RecordResult
  PROVE  IInv'
<1> DEFINE scan == Scan(log)
           e == ToolResult(scan.turn, scan.step, scan.pending[1].call, FALSE)
<1>1. /\ scan.pending # <<>> /\ scan.pending[1].started /\ Appended(e) /\ UNCHANGED history
  BY DEF RecordResult
<1>2. FALSE <=> ~scan.pending[1].started
  BY <1>1
<1>3. e \in Events /\ Coherent(Append(log, e), Record(Replayed(log), e), Advance(scan, e), abandoned)
  <2> HIDE DEF scan
  <2> QED
    BY <1>1, <1>2, LiveLog, ToolResultFits DEF scan
<1> HIDE DEF e
<1> QED
  BY <1>1, <1>3, LiveLog, Extended DEF history

\* step/end is appended; a scheduler failure abandons the pending calls.
LEMMA EndStepStep ==
  ASSUME RecoveryAssumption, IInv, EndStep
  PROVE  IInv'
<1> DEFINE scan == Scan(log)
           e == StepEnd(scan.turn, scan.step)
<1>1. /\ scan.step # None /\ Appended(e) /\ UNCHANGED <<ran, promised>>
      /\ abandoned' = IF scan.pending = <<>> THEN abandoned
                      ELSE abandoned \cup {<<scan.turn, scan.step>>}
  BY DEF EndStep
<1>2. scan.turn \in Turns /\ scan.step \in Steps
  BY <1>1, LiveLog DEF Agree, Scans
<1>3. abandoned \subseteq abandoned' /\ abandoned' \subseteq Turns \X Steps
      /\ (scan.pending = <<>> \/ <<scan.turn, scan.step>> \in abandoned')
  BY <1>1, <1>2, LiveLog
<1>4. e \in Events /\ Coherent(Append(log, e), Record(Replayed(log), e), Advance(scan, e), abandoned')
  BY <1>1, <1>3, LiveLog, StepEndFits
<1> HIDE DEF e
<1> QED
  BY <1>1, <1>3, <1>4, LiveLog, Extended

\* turn/end is appended.
LEMMA EndTurnStep ==
  ASSUME RecoveryAssumption, IInv, EndTurn
  PROVE  IInv'
<1> DEFINE t == Replayed(log)
           e == TurnEnd(t.openTurn)
<1>1. t.openTurn # None /\ t.openStep = None /\ Appended(e) /\ UNCHANGED history
  BY DEF EndTurn
<1>2. e \in Events /\ Coherent(Append(log, e), Record(t, e), Advance(Scan(log), e), abandoned)
  BY <1>1, LiveLog, TurnEndFits
<1> HIDE DEF e, t
<1> QED
  BY <1>1, <1>2, LiveLog, Extended DEF history, t

\* A body that runs has its call in the store.
LEMMA RunBodyStep ==
  ASSUME RecoveryAssumption, IInv, NEW i \in Calls, RunBody(i)
  PROVE  IInv'
<1> DEFINE scan == Scan(log)
           x == <<scan.turn, scan.step, scan.pending[i].call>>
<1>1. /\ mode = "live" /\ i \in DOMAIN scan.pending
      /\ Checkpointed(scan.turn, scan.step, scan.pending[i].call)
      /\ ran' = ran \cup {x}
      /\ UNCHANGED <<mode, log, durable, closers, crashes, abandoned, promised>>
  BY DEF RunBody
<1>2. x \in Turns \X Steps \X Calls
  <2>1. Agree(Replayed(log), scan) /\ PendingFits(Replayed(log), scan)
    BY LiveLog DEF Coherent
  <2> HIDE DEF scan
  <2> QED
    BY <1>1, <2>1, PendingOpen DEF Entries
<1>3. TypeOK'
  BY <1>1, <1>2 DEF IInv, TypeOK
<1>4. RanStored'
  <2> HIDE DEF scan
  <2>1. \E k \in DOMAIN durable : durable[k] = ToolCall(x[1], x[2], x[3])
    BY <1>1 DEF Checkpointed
  <2> HIDE DEF x
  <2> QED
    BY <1>1, <2>1 DEF IInv, RanStored
<1> QED
  BY <1>1, <1>3, <1>4 DEF IInv

\* A store that grows keeps the calls that ran.
LEMMA RanStays ==
  ASSUME RanStored, durable \in Seq(Events), durable' \in Seq(Events), ran' = ran,
         Len(durable) <= Len(durable'), \A i \in 1..Len(durable) : durable'[i] = durable[i]
  PROVE  RanStored'
<1>1. \A i \in DOMAIN durable : i \in 1..Len(durable) /\ i \in DOMAIN durable'
  OBVIOUS
<1> QED
  BY <1>1 DEF RanStored

\* A longer prefix of the log is stored.
LEMMA PersistStep ==
  ASSUME IInv, NEW n, Persist(n)
  PROVE  IInv'
<1>1. /\ mode = "live" /\ n \in (Len(durable) + 1)..Len(log)
      /\ durable' = SubSeq(log, 1, n)
      /\ UNCHANGED <<mode, log, closers, crashes, ran, abandoned, promised>>
  BY DEF Persist, history
<1>2. /\ log \in Seq(Events) /\ durable \in Seq(Events) /\ Sound(log, abandoned)
      /\ Stored(log, durable) /\ closers = <<>> /\ RanStored
  BY <1>1 DEF IInv, TypeOK
<1>3. n \in 0..Len(log) /\ Len(durable) \in Nat /\ Len(durable) <= n
  BY <1>1, <1>2
<1>4. durable' \in Seq(Events) /\ Len(durable') = n
      /\ \A i \in 1..n : durable'[i] = log[i]
  BY <1>1, <1>2, <1>3
<1>5. TypeOK'
  BY <1>1, <1>4 DEF IInv, TypeOK
<1>6. Sound(durable', abandoned)
  BY <1>1, <1>2, <1>3, SoundPrefix
<1>7. Stored(log', durable')
  BY <1>1, <1>3, <1>4 DEF Stored
<1>8. RanStored'
  <2>1. \A i \in 1..Len(durable) : durable[i] = log[i] /\ i \in 1..n
    BY <1>2, <1>3 DEF Stored
  <2> QED
    BY <1>1, <1>2, <1>3, <1>4, <2>1, RanStays
<1> QED
  BY <1>1, <1>2, <1>5, <1>6, <1>7, <1>8 DEF IInv

\* The process dies: the log is lost, the store stays.
LEMMA CrashStep ==
  ASSUME RecoveryAssumption, IInv, Crash
  PROVE  IInv'
<1>1. /\ mode \in {"live", "prepared"} /\ crashes < MaxCrashes
      /\ crashes' = crashes + 1
      /\ promised' = IF mode = "live" THEN durable \o Closers(durable) ELSE promised
      /\ mode' = "down" /\ log' = <<>> /\ closers' = <<>>
      /\ UNCHANGED <<durable, ran, abandoned>>
  BY DEF Crash
<1>2. durable \in Seq(Events) /\ Sound(durable, abandoned) /\ promised \in Seq(Events)
  BY DEF IInv, TypeOK
<1>3. durable \o Closers(durable) \in Seq(Events)
  BY <1>2, CloseAll
<1>4. promised' = durable \o Closers(durable)
  BY <1>1 DEF IInv
<1>5. crashes' \in 0..MaxCrashes
  BY <1>1 DEF IInv, TypeOK, RecoveryAssumption
<1>6. TypeOK'
  BY <1>1, <1>3, <1>4, <1>5 DEF IInv, TypeOK
<1>7. Sound(log', abandoned)
  BY <1>1, SoundEmpty
<1>8. RanStored'
  BY <1>1 DEF IInv, RanStored
<1> QED
  BY <1>1, <1>2, <1>4, <1>6, <1>7, <1>8 DEF IInv

\* The next process computes the closers.
LEMMA PrepareStep ==
  ASSUME RecoveryAssumption, IInv, Prepare
  PROVE  IInv'
<1>1. /\ mode = "down" /\ closers' = Closers(durable) /\ mode' = "prepared"
      /\ UNCHANGED <<log, durable, crashes, ran, abandoned, promised>>
  BY DEF Prepare, history
<1>2. closers' \in Seq(Events)
  BY <1>1, CloseMany DEF IInv, TypeOK
<1>3. TypeOK'
  BY <1>1, <1>2 DEF IInv, TypeOK
<1>4. RanStored'
  BY <1>1 DEF IInv, RanStored
<1> QED
  BY <1>1, <1>3, <1>4 DEF IInv

\* The store with the first n of its closers behind it.
LEMMA Closed ==
  ASSUME RecoveryAssumption, IInv, mode = "prepared", NEW n \in 0..Len(closers),
         durable' = durable \o SubSeq(closers, 1, n), UNCHANGED <<ran, abandoned>>
  PROVE  /\ durable' \in Seq(Events) /\ Sound(durable', abandoned')
         /\ durable' \o Closers(durable') = promised
         /\ RanStored'
<1>1. /\ durable \in Seq(Events) /\ Sound(durable, abandoned) /\ closers = Closers(durable)
      /\ durable \o closers = promised /\ RanStored /\ closers \in Seq(Events)
  BY DEF IInv, TypeOK
<1>2. /\ durable' \in Seq(Events) /\ Sound(durable', abandoned)
      /\ Closers(durable') = SubSeq(closers, n + 1, Len(closers))
  BY <1>1, CloseMany
<1>3. durable' \o Closers(durable') = durable \o closers
  <2> DEFINE a == SubSeq(closers, 1, n)
             b == SubSeq(closers, n + 1, Len(closers))
  <2>1. a \in Seq(Events) /\ b \in Seq(Events)
    BY <1>1
  <2>2. a \o b = closers
    <3>1. /\ 1 \in 1..Len(closers) + 1 /\ n \in (1 - 1)..Len(closers)
          /\ Len(closers) \in n..Len(closers)
      BY <1>1
    <3>2. a \o b = SubSeq(closers, 1, Len(closers))
      BY <1>1, <3>1, ConcatAdjacentSubSeq
    <3>3. SubSeq(closers, 1, Len(closers)) = closers
      BY <1>1
    <3> HIDE DEF a, b
    <3> QED
      BY <3>2, <3>3
  <2>3. durable' = durable \o a /\ Closers(durable') = b
    BY <1>2
  <2> HIDE DEF a, b
  <2>4. (durable \o a) \o b = durable \o (a \o b)
    BY <1>1, <2>1, Reassociated, Zenon
  <2> QED
    BY <2>2, <2>3, <2>4
<1>4. /\ Len(durable) <= Len(durable')
      /\ \A i \in 1..Len(durable) : durable'[i] = durable[i]
  <2>1. SubSeq(closers, 1, n) \in Seq(Events)
    BY <1>1
  <2> QED
    BY <1>1, <2>1
<1> QED
  BY <1>1, <1>2, <1>3, <1>4, RanStays

\* All of the closers are stored.
LEMMA CommitRepairStep ==
  ASSUME RecoveryAssumption, IInv, CommitRepair
  PROVE  IInv'
<1>1. /\ mode = "prepared" /\ durable' = durable \o closers
      /\ closers' = <<>> /\ mode' = "down"
      /\ UNCHANGED <<log, crashes, ran, abandoned, promised>>
  BY DEF CommitRepair, history
<1>2. closers = SubSeq(closers, 1, Len(closers)) /\ Len(closers) \in 0..Len(closers)
  BY DEF IInv, TypeOK
<1>3. /\ durable' \in Seq(Events) /\ Sound(durable', abandoned')
      /\ durable' \o Closers(durable') = promised /\ RanStored'
  BY <1>1, <1>2, Closed
<1>4. TypeOK'
  BY <1>1, <1>3 DEF IInv, TypeOK
<1> QED
  BY <1>1, <1>3, <1>4 DEF IInv

\* Some of the closers are stored, and the process dies again.
LEMMA RepairTornStep ==
  ASSUME RecoveryAssumption, IInv, NEW n \in 1..Len(closers), RepairTorn(n)
  PROVE  IInv'
<1>1. /\ mode = "prepared" /\ durable' = durable \o SubSeq(closers, 1, n)
      /\ crashes < MaxCrashes /\ crashes' = crashes + 1
      /\ closers' = <<>> /\ mode' = "down"
      /\ UNCHANGED <<log, ran, abandoned, promised>>
  BY DEF RepairTorn, history
<1>2. n \in 0..Len(closers)
  OBVIOUS
<1>3. /\ durable' \in Seq(Events) /\ Sound(durable', abandoned')
      /\ durable' \o Closers(durable') = promised /\ RanStored'
  BY <1>1, <1>2, Closed
<1>4. crashes' \in 0..MaxCrashes
  BY <1>1 DEF IInv, TypeOK, RecoveryAssumption
<1>5. TypeOK'
  BY <1>1, <1>3, <1>4 DEF IInv, TypeOK
<1> QED
  BY <1>1, <1>3, <1>5 DEF IInv

\* A balanced store becomes the live log.
LEMMA ResumeStep ==
  ASSUME IInv, Resume
  PROVE  IInv'
<1>1. /\ mode = "prepared" /\ closers = <<>> /\ log' = durable /\ promised' = <<>>
      /\ mode' = "live" /\ UNCHANGED <<durable, closers, crashes, ran, abandoned>>
  BY DEF Resume
<1>2. durable \in Seq(Events) /\ <<>> \in Seq(Events)
  BY DEF IInv, TypeOK
<1>3. TypeOK'
  BY <1>1, <1>2 DEF IInv, TypeOK
<1>4. Stored(durable, durable)
  BY <1>2 DEF Stored
<1>5. RanStored'
  BY <1>1 DEF IInv, RanStored
<1> QED
  BY <1>1, <1>3, <1>4, <1>5 DEF IInv

\* Every step keeps the invariant.
LEMMA NextInv ==
  ASSUME RecoveryAssumption, IInv, [Next]_vars
  PROVE  IInv'
<1>1. CASE Live
  BY <1>1, OpenTurnStep, OpenStepStep, AnswerStep, CallToolStep, RecordResultStep,
     EndStepStep, EndTurnStep, RunBodyStep, PersistStep DEF Live
<1>2. CASE Crash
  BY <1>2, CrashStep
<1>3. CASE Recovery
  BY <1>3, PrepareStep, CommitRepairStep, ResumeStep DEF Recovery
<1>4. CASE \E n \in 1..Len(closers) : RepairTorn(n)
  BY <1>4, RepairTornStep
<1>5. CASE UNCHANGED vars
  BY <1>5 DEF vars, IInv, TypeOK, RanStored
<1> QED
  BY <1>1, <1>2, <1>3, <1>4, <1>5 DEF Next

-----------------------------------------------------------------------------
(* What follows                                                            *)

\* A closed step that was not abandoned has each of its calls' results once.
LEMMA PairedOf ==
  ASSUME IInv
  PROVE  TranscriptPaired
<1>1. /\ log \in Seq(Events) /\ Agree(Replayed(log), Scan(log))
      /\ InOrder(log, Replayed(log)) /\ ResultsTrue(log)
      /\ AllAnswered(log, Replayed(log), Scan(log), abandoned)
  BY LiveLog DEF Coherent
<1> SUFFICES ASSUME NEW i \in DOMAIN log, NEW j \in DOMAIN log,
                    log[i].type = "assistant/message", log[j].type = "step/end",
                    log[j].turn = log[i].turn, log[j].step = log[i].step,
                    <<log[i].turn, log[i].step>> \notin abandoned,
                    NEW c \in 1..log[i].calls
             PROVE  \E r \in i..j :
                      /\ log[r].type = "tool/result" /\ log[r].call = c
                      /\ \A q \in DOMAIN log :
                           log[q].type = "tool/result" /\ Identity(log[q]) = Identity(log[r]) => q = r
  BY DEF TranscriptPaired
<1>2. ~Open(Replayed(log), log[i])
  <2>1. log[j] \in Events /\ OfStep(log[j])
    BY <1>1 DEF OfStep
  <2>2. Past(Replayed(log), log[j])
    BY <1>1, <2>1 DEF InOrder
  <2>3. ~Open(Replayed(log), log[j])
    BY <1>1, <2>1, <2>2, PastNotOpen
  <2> QED
    BY <2>3 DEF Open
<1>3. Answered(log, i, c)
  BY <1>1, <1>2 DEF AllAnswered
<1>4. PICK r \in i..Len(log) : /\ IsResult(log[r]) /\ log[r].call = c
                               /\ log[r].turn = log[i].turn /\ log[r].step = log[i].step
  BY <1>3 DEF Answered
<1>5. r \in DOMAIN log /\ i \in Nat /\ j \in Nat /\ i <= r
  BY <1>1
<1>6. r < j
  BY <1>1, <1>4, <1>5 DEF ResultsTrue
<1>7. \A q \in DOMAIN log : IsResult(log[q]) /\ Identity(log[q]) = Identity(log[r]) => q = r
  BY <1>1, <1>4, <1>5 DEF ResultsTrue
<1>8. r \in i..j
  BY <1>5, <1>6
<1> QED
  BY <1>4, <1>7, <1>8 DEF IsResult

\* A call whose body ran has its tool/call in the log, so no result denies it.
LEMMA NotStartedOf ==
  ASSUME IInv
  PROVE  NotStartedIsTrue
<1>1. log \in Seq(Events) /\ ResultsTrue(log) /\ durable \in Seq(Events)
  BY LiveLog DEF Coherent, IInv, TypeOK
<1> SUFFICES ASSUME NEW i \in DOMAIN log, IsResult(log[i]), Identity(log[i]) \in ran
             PROVE  ~log[i].notStarted
  BY DEF NotStartedIsTrue, IsResult
<1>2. Stored(log, durable)
  <2>1. log # <<>>
    OBVIOUS
  <2> QED
    BY <2>1 DEF IInv
<1>3. PICK k \in DOMAIN durable :
        durable[k] = ToolCall(log[i].turn, log[i].step, log[i].call)
  <2>1. PICK x \in ran : x = Identity(log[i])
    OBVIOUS
  <2>2. x[1] = log[i].turn /\ x[2] = log[i].step /\ x[3] = log[i].call
    BY <2>1 DEF Identity
  <2> QED
    BY <2>2 DEF IInv, RanStored
<1>4. k \in DOMAIN log /\ log[k] = durable[k]
  BY <1>1, <1>2 DEF Stored
<1>5. IsCall(log[k]) /\ Identity(log[i]) = Identity(log[k])
  BY <1>3, <1>4 DEF IsCall, Identity, ToolCall
<1> QED
  BY <1>1, <1>4, <1>5 DEF ResultsTrue

\* The inductive invariant: every prefix of the live log and of the store is a
\* log the process may have died with, one that the companion's replay and the
\* repair's scan read alike, whose open step has its pending calls, and whose
\* closed steps have their results.
THEOREM Inductive == Spec => []IInv
<1>1. Init => IInv
  BY RecoveryAssumption, InitInv
<1>2. IInv /\ [Next]_vars => IInv'
  BY RecoveryAssumption, NextInv
<1> QED
  BY <1>1, <1>2, PTL DEF Spec

\* Log, store and prepared closers are sequences of session events, across
\* crashes, torn repairs and resumes.
THEOREM TypeCorrect == Spec => []TypeOK
<1>1. IInv => TypeOK
  BY DEF IInv
<1> QED
  BY <1>1, Inductive, PTL

\* The session companion accepts the live log and the stored one at every
\* moment, so whatever a crash or a torn repair leaves behind loads again.
THEOREM LogCorrect == Spec => []LogAccepted
<1>1. IInv => LogAccepted
  <2> SUFFICES ASSUME IInv PROVE LogAccepted
    OBVIOUS
  <2>1. log \in Seq(Events) /\ durable \in Seq(Events)
        /\ Sound(log, abandoned) /\ Sound(durable, abandoned)
    BY DEF IInv, TypeOK
  <2>2. Fits(log, abandoned) /\ Fits(durable, abandoned)
    BY <2>1, SoundFits
  <2> QED
    BY <2>2 DEF Fits, Coherent, Agree, LogAccepted
<1> QED
  BY <1>1, Inductive, PTL

\* interruptedTurnClosers converges: a repair cut short after any of its events,
\* as often as the process dies, goes on to the log one repair would have written.
THEOREM RepairCorrect == Spec => []RepairConverges
<1>1. IInv => RepairConverges
  BY DEF IInv, RepairConverges
<1> QED
  BY <1>1, Inductive, PTL

\* What a resumed session shows the model is complete and true: a closed step
\* has one result for each requested call, and none denies a body that ran.
THEOREM TranscriptCorrect == Spec => []TranscriptTrue
<1>1. IInv => TranscriptTrue
  BY PairedOf, NotStartedOf DEF TranscriptTrue
<1> QED
  BY <1>1, Inductive, PTL
=============================================================================
