----------------------- MODULE AgentDriverInboxProofs -----------------------
(* Theorems about where AgentDriver keeps a message from send to its end:  *)
(* one place at a time, the stages of MessageDelivery, prompts in order,   *)
(* and the wake that a pending message is owed.                            *)
EXTENDS AgentDriverProofs

-----------------------------------------------------------------------------
(* Lists of distinct messages and their splices.                           *)

\* The messages that a splice takes out of a list.
Cut(q, start, count) == {q[i] : i \in start + 1..start + count}

\* What a list holds after a splice.
After(q, start, count, inserted) == (Elems(q) \ Cut(q, start, count)) \cup Elems(inserted)

Distinct(q) == \A i, j \in DOMAIN q : q[i] = q[j] => i = j

\* List q holds exactly the messages of E, each once.
Lists(q, E) == q \in Seq(Msgs) /\ Distinct(q) /\ Elems(q) = E

\* A concatenation holds the messages of both lists, each once when no message
\* is in both.
LEMMA ConcatHomes ==
  ASSUME NEW q \in Seq(Msgs), NEW r \in Seq(Msgs)
  PROVE  /\ q \o r \in Seq(Msgs)
         /\ Elems(q \o r) = Elems(q) \cup Elems(r)
         /\ Distinct(q) /\ Distinct(r) /\ Elems(q) \cap Elems(r) = {} => Distinct(q \o r)
<1> DEFINE s == q \o r
<1>1. /\ Len(q) \in Nat /\ DOMAIN q = 1..Len(q)
      /\ Len(r) \in Nat /\ DOMAIN r = 1..Len(r)
  BY LenProperties
<1>2. /\ s \in Seq(Msgs) /\ Len(s) = Len(q) + Len(r)
      /\ \A i \in 1..Len(q) + Len(r) : s[i] = IF i <= Len(q) THEN q[i] ELSE r[i - Len(q)]
  BY ConcatProperties
<1>3. DOMAIN s = 1..Len(q) + Len(r)
  BY <1>2, LenProperties
<1> HIDE DEF s
<1>4. Elems(q) \cup Elems(r) \subseteq Elems(s)
  <2>1. ASSUME NEW i \in DOMAIN q PROVE q[i] \in Elems(s)
    BY <1>1, <1>2, <1>3 DEF Elems
  <2>2. ASSUME NEW i \in DOMAIN r PROVE r[i] \in Elems(s)
    <3>1. i + Len(q) \in DOMAIN s /\ s[i + Len(q)] = r[i]
      BY <1>1, <1>2, <1>3
    <3> QED
      BY <3>1 DEF Elems
  <2> QED
    BY <2>1, <2>2 DEF Elems
<1>5. \A i \in DOMAIN s : \/ i \in DOMAIN q /\ s[i] = q[i]
                          \/ i - Len(q) \in DOMAIN r /\ s[i] = r[i - Len(q)]
  BY <1>1, <1>2, <1>3
<1>6. Elems(s) \subseteq Elems(q) \cup Elems(r)
  BY <1>5 DEF Elems
<1>7. ASSUME Distinct(q), Distinct(r), Elems(q) \cap Elems(r) = {}
      PROVE  Distinct(s)
  <2> SUFFICES ASSUME NEW i \in DOMAIN s, NEW j \in DOMAIN s, s[i] = s[j]
               PROVE  i = j
    BY DEF Distinct
  <2>1. CASE i \in DOMAIN q /\ s[i] = q[i] /\ j \in DOMAIN q /\ s[j] = q[j]
    BY <1>7, <2>1 DEF Distinct
  <2>2. CASE /\ i - Len(q) \in DOMAIN r /\ s[i] = r[i - Len(q)]
             /\ j - Len(q) \in DOMAIN r /\ s[j] = r[j - Len(q)]
    <3>1. i - Len(q) = j - Len(q)
      BY <1>7, <2>2 DEF Distinct
    <3> QED
      BY <1>1, <1>3, <3>1
  <2>3. ~(s[i] \in Elems(q) /\ s[i] \in Elems(r))
    BY <1>7
  <2> QED
    BY <1>5, <2>1, <2>2, <2>3 DEF Elems
<1> QED
  BY <1>2, <1>4, <1>6, <1>7 DEF s

\* A part of a list of distinct messages holds those of its positions, once.
LEMMA SubSeqHomes ==
  ASSUME NEW q \in Seq(Msgs), NEW m \in Nat \ {0}, NEW n \in Nat, n <= Len(q)
  PROVE  /\ SubSeq(q, m, n) \in Seq(Msgs)
         /\ Elems(SubSeq(q, m, n)) = {q[i] : i \in m..n}
         /\ Distinct(q) => Distinct(SubSeq(q, m, n))
<1> DEFINE s == SubSeq(q, m, n)
<1>1. Len(q) \in Nat /\ DOMAIN q = 1..Len(q) /\ \A i \in 1..Len(q) : q[i] \in Msgs
  BY LenProperties, ElementOfSeq
<1>2. \A i \in m..n : q[i] \in Msgs
  BY <1>1
<1>3. /\ s \in Seq(Msgs)
      /\ Len(s) = IF m <= n THEN n - m + 1 ELSE 0
      /\ \A i \in 1..n - m + 1 : s[i] = q[m + i - 1]
  BY <1>2, SubSeqProperties
<1>4. DOMAIN s = 1..n - m + 1
  BY <1>3, LenProperties
<1> HIDE DEF s
<1>5. Elems(s) \subseteq {q[i] : i \in m..n}
  <2>1. ASSUME NEW i \in DOMAIN s PROVE s[i] = q[m + i - 1] /\ m + i - 1 \in m..n
    BY <1>3, <1>4
  <2> QED
    BY <2>1 DEF Elems
<1>6. {q[i] : i \in m..n} \subseteq Elems(s)
  <2>1. ASSUME NEW i \in m..n PROVE q[i] \in Elems(s)
    <3>1. i - m + 1 \in DOMAIN s /\ s[i - m + 1] = q[i]
      BY <1>3, <1>4
    <3> QED
      BY <3>1 DEF Elems
  <2> QED
    BY <2>1
<1>7. Distinct(q) => Distinct(s)
  <2> SUFFICES ASSUME Distinct(q), NEW i \in DOMAIN s, NEW j \in DOMAIN s, s[i] = s[j]
               PROVE  i = j
    BY DEF Distinct
  <2>1. /\ m + i - 1 \in DOMAIN q /\ m + j - 1 \in DOMAIN q
        /\ q[m + i - 1] = q[m + j - 1]
    <3>1. i \in 1..n - m + 1 /\ j \in 1..n - m + 1
      BY <1>4
    <3>2. m + i - 1 \in DOMAIN q /\ m + j - 1 \in DOMAIN q
      BY <1>1, <3>1
    <3>3. s[i] = q[m + i - 1] /\ s[j] = q[m + j - 1]
      BY <1>3, <3>1
    <3> QED
      BY <3>2, <3>3
  <2>2. m + i - 1 = m + j - 1
    BY <2>1 DEF Distinct
  <2>3. i \in Int /\ j \in Int
    BY <1>4
  <2> QED
    BY <2>2, <2>3
<1> QED
  BY <1>3, <1>5, <1>6, <1>7 DEF s

\* inbox.mutate: the cut messages give way to the inserted ones, and if those
\* are not elsewhere in the list, no message stands in it twice.
LEMMA SplicedHomes ==
  ASSUME NEW q \in Seq(Msgs), NEW start \in Nat, NEW count \in Nat,
         start + count <= Len(q), NEW inserted \in Seq(Msgs),
         Distinct(q), Distinct(inserted),
         Elems(inserted) \cap (Elems(q) \ Cut(q, start, count)) = {}
  PROVE  Lists(Spliced(q, start, count, inserted), After(q, start, count, inserted))
<1> DEFINE cut == Cut(q, start, count)
           a == SubSeq(q, 1, start)
           b == SubSeq(q, start + count + 1, Len(q))
<1>1. Len(q) \in Nat /\ DOMAIN q = 1..Len(q)
  BY LenProperties
<1>2. /\ a \in Seq(Msgs) /\ Distinct(a) /\ Elems(a) = {q[i] : i \in 1..start}
      /\ b \in Seq(Msgs) /\ Distinct(b)
      /\ Elems(b) = {q[i] : i \in start + count + 1..Len(q)}
  <2>1. start <= Len(q) /\ 1 \in Nat \ {0}
    BY <1>1
  <2>2. start + count + 1 \in Nat \ {0} /\ Len(q) <= Len(q)
    BY <1>1
  <2>3. a \in Seq(Msgs) /\ Distinct(a) /\ Elems(a) = {q[i] : i \in 1..start}
    BY <2>1, SubSeqHomes
  <2>4. /\ b \in Seq(Msgs) /\ Distinct(b)
        /\ Elems(b) = {q[i] : i \in start + count + 1..Len(q)}
    BY <1>1, <2>2, SubSeqHomes
  <2> QED
    BY <2>3, <2>4
<1> HIDE DEF a, b
<1>3. Elems(a) \cap Elems(b) = {}
  <2>1. ASSUME NEW i \in 1..start, NEW j \in start + count + 1..Len(q), q[i] = q[j]
        PROVE  FALSE
    <3>1. i \in DOMAIN q /\ j \in DOMAIN q /\ i # j
      BY <1>1
    <3> QED
      BY <2>1, <3>1 DEF Distinct
  <2> QED
    BY <1>2, <2>1
<1>4. Elems(a) \cup Elems(b) = Elems(q) \ cut
  <2> USE DEF Cut
  <2>1. ASSUME NEW i \in DOMAIN q
        PROVE  q[i] \in Elems(a) \cup Elems(b) \cup cut
    BY <1>1, <1>2
  <2>2. Elems(a) \cup Elems(b) \subseteq Elems(q)
    <3>1. {q[i] : i \in 1..start} \subseteq Elems(q)
      BY <1>1 DEF Elems
    <3>2. {q[i] : i \in start + count + 1..Len(q)} \subseteq Elems(q)
      BY <1>1 DEF Elems
    <3> QED
      BY <1>2, <3>1, <3>2
  <2>3. ASSUME NEW i \in DOMAIN q, NEW j \in start + 1..start + count, q[i] = q[j]
        PROVE  i \in start + 1..start + count
    <3>1. j \in DOMAIN q
      BY <1>1
    <3> QED
      BY <2>3, <3>1 DEF Distinct
  <2>4. (Elems(a) \cup Elems(b)) \cap cut = {}
    <3>1. \A i \in 1..start : i \in DOMAIN q /\ i \notin start + 1..start + count
      BY <1>1
    <3>2. \A i \in start + count + 1..Len(q) :
             i \in DOMAIN q /\ i \notin start + 1..start + count
      BY <1>1
    <3>3. ASSUME NEW x \in Elems(a) \cup Elems(b)
          PROVE  \E i \in DOMAIN q : i \notin start + 1..start + count /\ x = q[i]
      BY <1>2, <3>1, <3>2
    <3>4. ASSUME NEW x \in Elems(a) \cup Elems(b), x \in cut
          PROVE  FALSE
      <4>1. PICK i \in DOMAIN q : i \notin start + 1..start + count /\ x = q[i]
        BY <3>3
      <4>2. PICK j \in start + 1..start + count : x = q[j]
        BY <3>4
      <4> QED
        BY <2>3, <4>1, <4>2
    <3> QED
      BY <3>4
  <2>5. Elems(q) \subseteq Elems(a) \cup Elems(b) \cup cut
    BY <2>1 DEF Elems
  <2> HIDE DEF Cut, cut
  <2> QED
    BY <2>2, <2>4, <2>5
<1>5. Spliced(q, start, count, inserted) = a \o inserted \o b
  BY DEF Spliced, a, b
<1>6. /\ a \o inserted \in Seq(Msgs)
      /\ Elems(a \o inserted) = Elems(a) \cup Elems(inserted)
      /\ Elems(a) \cap Elems(inserted) = {} => Distinct(a \o inserted)
  BY <1>2, ConcatHomes
<1>7. /\ (a \o inserted) \o b \in Seq(Msgs)
      /\ Elems((a \o inserted) \o b) = Elems(a \o inserted) \cup Elems(b)
      /\ Distinct(a \o inserted) /\ Elems(a \o inserted) \cap Elems(b) = {} =>
           Distinct((a \o inserted) \o b)
  BY <1>2, <1>6, ConcatHomes
<1>8. /\ Elems(a \o inserted \o b) = (Elems(q) \ cut) \cup Elems(inserted)
      /\ Distinct(a \o inserted \o b)
  BY <1>3, <1>4, <1>6, <1>7
<1> QED
  BY <1>5, <1>7, <1>8 DEF Lists, After

-----------------------------------------------------------------------------
(* Every message has one home.                                             *)

\* The two inbox lists and the batch being proposed.
HomesApart ==
  /\ Distinct(nextTurn) /\ Distinct(nextStep) /\ Distinct(claimed)
  /\ Elems(nextTurn) \cap Elems(nextStep) = {}
  /\ (Elems(nextTurn) \cup Elems(nextStep)) \cap Elems(claimed) = {}

HomesOfSent ==
  Elems(nextTurn) \cup Elems(nextStep) \cup Elems(claimed) = {m \in Msgs : fate[m] = "sent"}

\* A batch is claimed only while its step is proposed: the next claim finds none.
BatchIsProposed == claimed # <<>> => pc \in {"assembling", "proposing"}

HomeInv == HomesApart /\ HomesOfSent /\ BatchIsProposed

\* An empty list holds nothing.
LEMMA EmptyHomes == Distinct(<<>>) /\ Elems(<<>>) = {}
BY DEF Distinct, Elems

\* send and prepend put the message at the end or the front of a list.
LEMMA InsertedHomes ==
  ASSUME NEW q \in Seq(Msgs), Distinct(q), NEW m \in Msgs \ Elems(q),
         NEW start \in {0, Len(q)}
  PROVE  Lists(Spliced(q, start, 0, <<m>>), Elems(q) \cup {m})
<1>1. start \in Nat /\ start + 0 <= Len(q) /\ 0 \in Nat
  BY LenProperties
<1>2. <<m>> \in Seq(Msgs) /\ Distinct(<<m>>) /\ Elems(<<m>>) = {m}
  BY DEF Distinct, Elems
<1>3. Cut(q, start, 0) = {}
  BY <1>1 DEF Cut
<1>4. Elems(<<m>>) \cap (Elems(q) \ Cut(q, start, 0)) = {}
  BY <1>2, <1>3
<1> DEFINE r == Spliced(q, start, 0, <<m>>)
<1>5. Lists(r, After(q, start, 0, <<m>>))
  BY <1>1, <1>2, <1>4, SplicedHomes
<1> QED
  BY <1>2, <1>3, <1>5 DEF Lists, After

\* remove takes one message out of a list.
LEMMA RemovedHomes ==
  ASSUME NEW q \in Seq(Msgs), Distinct(q), NEW i \in DOMAIN q
  PROVE  Lists(Spliced(q, i - 1, 1, <<>>), Elems(q) \ {q[i]})
<1>1. i - 1 \in Nat /\ i - 1 + 1 <= Len(q) /\ 1 \in Nat
  BY LenProperties
<1>2. <<>> \in Seq(Msgs)
  BY EmptySeq
<1>3. Cut(q, i - 1, 1) = {q[i]}
  BY LenProperties DEF Cut
<1>4. Elems(<<>>) \cap (Elems(q) \ Cut(q, i - 1, 1)) = {}
  BY EmptyHomes, <1>3
<1> DEFINE r == Spliced(q, i - 1, 1, <<>>)
<1>5. Lists(r, After(q, i - 1, 1, <<>>))
  BY <1>1, <1>2, <1>4, EmptyHomes, SplicedHomes
<1> QED
  BY <1>3, <1>5, EmptyHomes DEF Lists, After

\* replace puts the edited message where the original stood.
LEMMA ReplacedHomes ==
  ASSUME NEW q \in Seq(Msgs), Distinct(q), NEW i \in DOMAIN q, NEW n \in Msgs \ Elems(q)
  PROVE  Lists(Spliced(q, i - 1, 1, <<n>>), (Elems(q) \ {q[i]}) \cup {n})
<1>1. i - 1 \in Nat /\ i - 1 + 1 <= Len(q) /\ 1 \in Nat
  BY LenProperties
<1>2. <<n>> \in Seq(Msgs) /\ Distinct(<<n>>) /\ Elems(<<n>>) = {n}
  BY DEF Distinct, Elems
<1>3. Cut(q, i - 1, 1) = {q[i]}
  BY LenProperties DEF Cut
<1>4. Elems(<<n>>) \cap (Elems(q) \ Cut(q, i - 1, 1)) = {}
  BY <1>2, <1>3
<1> DEFINE r == Spliced(q, i - 1, 1, <<n>>)
<1>5. Lists(r, After(q, i - 1, 1, <<n>>))
  BY <1>1, <1>2, <1>4, SplicedHomes
<1> QED
  BY <1>2, <1>3, <1>5 DEF Lists, After

\* inbox.claim moves the next-step input, and at the first step one prompt, from
\* the inbox to the batch.
LEMMA ClaimHomes ==
  ASSUME TypeOK, HomesApart, claimed = <<>>, Claim
  PROVE  /\ nextStep' = <<>> /\ Distinct(nextTurn') /\ Distinct(claimed')
         /\ Elems(nextTurn') \subseteq Elems(nextTurn)
         /\ Elems(nextTurn') \cap Elems(claimed') = {}
         /\ Elems(nextTurn') \cup Elems(claimed') = Elems(nextTurn) \cup Elems(nextStep)
<1> DEFINE count == IF step = 0 /\ nextTurn # <<>> THEN 1 ELSE 0
           taken == SubSeq(nextTurn, 1, count)
<1>1. nextTurn \in Seq(Msgs) /\ nextStep \in Seq(Msgs)
  BY DEF TypeOK
<1>2. Distinct(nextTurn) /\ Distinct(nextStep) /\ Elems(nextTurn) \cap Elems(nextStep) = {}
  BY DEF HomesApart
<1>3. /\ claimed' = nextStep \o taken /\ nextStep' = <<>>
      /\ nextTurn' = Spliced(nextTurn, 0, count, <<>>)
  BY DEF Claim
<1>4. count \in Nat /\ count <= Len(nextTurn) /\ 0 + count <= Len(nextTurn) /\ 0 \in Nat
  BY <1>1, EmptySeq
<1> HIDE DEF count
<1>5. /\ taken \in Seq(Msgs) /\ Distinct(taken)
      /\ Elems(taken) = {nextTurn[i] : i \in 1..count}
  BY <1>1, <1>2, <1>4, SubSeqHomes
<1>6. Elems(taken) \subseteq Elems(nextTurn)
  <2>1. 1..count \subseteq DOMAIN nextTurn
    BY <1>1, <1>4, LenProperties
  <2>2. {nextTurn[i] : i \in 1..count} \subseteq Elems(nextTurn)
    BY <2>1 DEF Elems
  <2> QED
    BY <1>5, <2>2
<1>7. 0 + 1..0 + count = 1..count
  BY <1>4
<1>8. Elems(nextTurn') = Elems(nextTurn) \ Elems(taken) /\ Distinct(nextTurn')
  <2>1. <<>> \in Seq(Msgs)
    BY EmptySeq
  <2>2. Cut(nextTurn, 0, count) = Elems(taken)
    BY <1>5, <1>7 DEF Cut
  <2>3. Elems(<<>>) \cap (Elems(nextTurn) \ Cut(nextTurn, 0, count)) = {}
    BY EmptyHomes
  <2> HIDE DEF taken
  <2> DEFINE r == Spliced(nextTurn, 0, count, <<>>)
  <2>4. Lists(r, After(nextTurn, 0, count, <<>>))
    BY <1>1, <1>2, <1>4, <2>1, <2>3, EmptyHomes, SplicedHomes
  <2> QED
    BY <1>3, <2>2, <2>4, EmptyHomes DEF Lists, After
<1> HIDE DEF taken
<1>9. Elems(claimed') = Elems(nextStep) \cup Elems(taken) /\ Distinct(claimed')
  BY <1>1, <1>2, <1>3, <1>5, <1>6, ConcatHomes
<1> QED
  BY <1>2, <1>3, <1>6, <1>8, <1>9

\* Initially the inbox and the batch are empty, and nothing was sent.
LEMMA HomeInit == Init => HomeInv
BY EmptyHomes DEF Init, HomeInv, HomesApart, HomesOfSent, BatchIsProposed

\* A step that moves no message keeps every home, if a batch is still proposed.
LEMMA HomeFrame ==
  ASSUME HomeInv, UNCHANGED <<nextTurn, nextStep, claimed, fate>>, BatchIsProposed'
  PROVE  HomeInv'
BY DEF HomeInv, HomesApart, HomesOfSent, Elems

\* A turn that gives up or settles its batch leaves it empty and the inbox alone.
LEMMA SettledHomes ==
  ASSUME TypeOK, HomeInv, NEW kept \in SUBSET Elems(claimed), UNCHANGED inbox,
         claimed' = <<>>,
         fate' = [m \in Msgs |-> IF m \in kept THEN "entered"
                                 ELSE Dropped(Elems(claimed))[m]]
  PROVE  HomeInv'
<1>1. nextTurn' = nextTurn /\ nextStep' = nextStep
  BY DEF inbox
<1>2. HomesApart'
  BY <1>1, EmptyHomes DEF HomeInv, HomesApart
<1>3. \A m \in Msgs : fate'[m] = "sent" <=> fate[m] = "sent" /\ m \notin Elems(claimed)
  BY DEF Dropped
<1>4. {m \in Msgs : fate'[m] = "sent"} = {m \in Msgs : fate[m] = "sent"} \ Elems(claimed)
  BY <1>3
<1>5. HomesOfSent'
  BY <1>1, <1>4, EmptyHomes DEF HomeInv, HomesOfSent, HomesApart
<1> QED
  BY <1>2, <1>5 DEF HomeInv, BatchIsProposed

\* The same without any message kept.
LEMMA DroppedHomes ==
  ASSUME TypeOK, HomeInv, UNCHANGED inbox, claimed' = <<>>,
         fate' = Dropped(Elems(claimed))
  PROVE  HomeInv'
<1>1. fate' = [m \in Msgs |-> IF m \in {} THEN "entered" ELSE Dropped(Elems(claimed))[m]]
  BY DEF Dropped
<1> QED
  BY <1>1, SettledHomes

\* Inserting, removing or replacing a message in one list, with the fate to match,
\* keeps the homes apart.
LEMMA MovedHomes ==
  ASSUME HomeInv, TypeOK, UNCHANGED <<claimed, pc>>,
         NEW gone \in SUBSET (Elems(nextTurn) \cup Elems(nextStep)),
         NEW come \in SUBSET {m \in Msgs : fate[m] = "unsent"},
         \/ Lists(nextTurn', (Elems(nextTurn) \ gone) \cup come) /\ nextStep' = nextStep
            /\ gone \subseteq Elems(nextTurn)
         \/ Lists(nextStep', (Elems(nextStep) \ gone) \cup come) /\ nextTurn' = nextTurn
            /\ gone \subseteq Elems(nextStep),
         {m \in Msgs : fate'[m] = "sent"} = ({m \in Msgs : fate[m] = "sent"} \ gone) \cup come
  PROVE  HomeInv'
<1> DEFINE P == Elems(nextTurn)
           Q == Elems(nextStep)
           C == Elems(claimed)
           sent == {m \in Msgs : fate[m] = "sent"}
<1>1. /\ Distinct(nextTurn) /\ Distinct(nextStep) /\ Distinct(claimed)
      /\ P \cap Q = {} /\ (P \cup Q) \cap C = {} /\ P \cup Q \cup C = sent
  BY DEF HomeInv, HomesApart, HomesOfSent
<1>2. come \cap sent = {} /\ come \subseteq Msgs
  OBVIOUS
<1>3. claimed' = claimed /\ C' = C /\ BatchIsProposed'
  BY DEF HomeInv, BatchIsProposed
<1>4. CASE Lists(nextTurn', (P \ gone) \cup come) /\ nextStep' = nextStep /\ gone \subseteq P
  <2>1. P' = (P \ gone) \cup come /\ Distinct(nextTurn') /\ Q' = Q
    BY <1>4 DEF Lists
  <2> HIDE DEF P, Q, C, sent
  <2>2. P' \cap Q' = {} /\ (P' \cup Q') \cap C' = {}
    BY <1>1, <1>2, <1>3, <1>4, <2>1
  <2>3. P' \cup Q' \cup C' = (sent \ gone) \cup come
    BY <1>1, <1>2, <1>3, <1>4, <2>1
  <2> QED
    BY <1>1, <1>3, <1>4, <2>1, <2>2, <2>3
    DEF HomeInv, HomesApart, HomesOfSent, P, Q, C, sent
<1>5. CASE Lists(nextStep', (Q \ gone) \cup come) /\ nextTurn' = nextTurn /\ gone \subseteq Q
  <2>1. Q' = (Q \ gone) \cup come /\ Distinct(nextStep') /\ P' = P
    BY <1>5 DEF Lists
  <2> HIDE DEF P, Q, C, sent
  <2>2. P' \cap Q' = {} /\ (P' \cup Q') \cap C' = {}
    BY <1>1, <1>2, <1>3, <1>5, <2>1
  <2>3. P' \cup Q' \cup C' = (sent \ gone) \cup come
    BY <1>1, <1>2, <1>3, <1>5, <2>1
  <2> QED
    BY <1>1, <1>3, <1>5, <2>1, <2>2, <2>3
    DEF HomeInv, HomesApart, HomesOfSent, P, Q, C, sent
<1> QED
  BY <1>4, <1>5

\* A message that was not sent yet is in no list.
LEMMA UnsentNowhere ==
  ASSUME HomeInv, NEW m \in Msgs, fate[m] = "unsent"
  PROVE  m \notin Elems(nextTurn) /\ m \notin Elems(nextStep) /\ m \notin Elems(claimed)
BY DEF HomeInv, HomesOfSent

\* Claiming moves messages from the inbox to the batch.
LEMMA ClaimedHomes ==
  ASSUME TypeOK, HomeInv, claimed = <<>>, Claim, UNCHANGED fate
  PROVE  HomeInv'
<1>1. /\ nextStep' = <<>> /\ Distinct(nextTurn') /\ Distinct(claimed')
      /\ Elems(nextTurn') \cap Elems(claimed') = {}
      /\ Elems(nextTurn') \cup Elems(claimed') = Elems(nextTurn) \cup Elems(nextStep)
  BY ClaimHomes DEF HomeInv
<1>2. HomesApart'
  <2>1. Distinct(nextStep') /\ Elems(nextStep') = {}
    BY <1>1, EmptyHomes
  <2> QED
    BY <1>1, <2>1 DEF HomesApart
<1>3. HomesOfSent'
  <2>1. Elems(nextStep') = {} /\ Elems(claimed) = {}
    BY <1>1, EmptyHomes
  <2> QED
    BY <1>1, <2>1 DEF HomeInv, HomesOfSent
<1> QED
  BY <1>2, <1>3 DEF HomeInv, BatchIsProposed, Claim

\* The steps of the driver that move no message, and where they may leave it.
StillBatch ==
  /\ UNCHANGED <<nextTurn, nextStep, claimed, fate>>
  /\ pc' = pc \/ pc \notin {"assembling", "proposing"} \/ pc' \in {"assembling", "proposing"}

\* A step that settles the batch: it is entered in part, or dropped.
SettlesBatch ==
  /\ UNCHANGED inbox /\ claimed' = <<>>
  /\ \E kept \in SUBSET Elems(claimed) :
       fate' = [m \in Msgs |-> IF m \in kept THEN "entered"
                               ELSE Dropped(Elems(claimed))[m]]

\* A step that claims a batch, the one before it being settled.
ClaimsBatch == claimed = <<>> /\ Claim /\ UNCHANGED fate

\* The clearing of the inbox by cancel().
ClearsInbox == ClearInbox /\ UNCHANGED <<claimed, pc>>

\* A step that exchanges messages of one inbox list.
SubmitsOne(m) ==
  /\ fate[m] = "unsent" /\ fate' = [fate EXCEPT ![m] = "sent"]
  /\ \/ Lists(nextTurn', Elems(nextTurn) \cup {m}) /\ nextStep' = nextStep
     \/ Lists(nextStep', Elems(nextStep) \cup {m}) /\ nextTurn' = nextTurn
  /\ UNCHANGED <<claimed, pc>>

RemovesOne(m) ==
  /\ fate' = [fate EXCEPT ![m] = "canceled"]
  /\ \/ /\ m \in Elems(nextTurn)
        /\ Lists(nextTurn', Elems(nextTurn) \ {m}) /\ nextStep' = nextStep
     \/ /\ m \in Elems(nextStep)
        /\ Lists(nextStep', Elems(nextStep) \ {m}) /\ nextTurn' = nextTurn
  /\ UNCHANGED <<claimed, pc>>

ReplacesOne(m, n) ==
  /\ fate[n] = "unsent" /\ fate' = [fate EXCEPT ![m] = "canceled", ![n] = "sent"]
  /\ \/ /\ m \in Elems(nextTurn)
        /\ Lists(nextTurn', (Elems(nextTurn) \ {m}) \cup {n}) /\ nextStep' = nextStep
     \/ /\ m \in Elems(nextStep)
        /\ Lists(nextStep', (Elems(nextStep) \ {m}) \cup {n}) /\ nextTurn' = nextTurn
  /\ UNCHANGED <<claimed, pc>>

\* What any step of the agent does to the messages.
Moves ==
  \/ StillBatch \/ SettlesBatch \/ ClaimsBatch \/ ClearsInbox
  \/ \E m \in Msgs : SubmitsOne(m) \/ RemovesOne(m)
  \/ \E m, n \in Msgs : ReplacesOne(m, n)

\* send and prepend put one message into one list.
LEMMA SendMoves ==
  ASSUME TypeOK, HomeInv, NEW m \in Msgs, NEW target,
         Insert(m, target), UNCHANGED <<claimed, pc>>
  PROVE  SubmitsOne(m)
<1>1. fate[m] = "unsent" /\ fate' = [fate EXCEPT ![m] = "sent"]
  BY DEF Insert
<1>2. m \in Msgs \ Elems(nextTurn) /\ m \in Msgs \ Elems(nextStep)
  BY <1>1, UnsentNowhere
<1>3. /\ Lists(Spliced(nextTurn, Len(nextTurn), 0, <<m>>), Elems(nextTurn) \cup {m})
      /\ Lists(Spliced(nextStep, Len(nextStep), 0, <<m>>), Elems(nextStep) \cup {m})
  BY <1>2, InsertedHomes DEF TypeOK, HomeInv, HomesApart
<1> QED
  BY <1>1, <1>3 DEF Insert, SubmitsOne

\* prepend puts the message in front of the next-step list.
LEMMA PrependMoves ==
  ASSUME TypeOK, HomeInv, NEW m \in Msgs, Prepend(m)
  PROVE  SubmitsOne(m)
<1>1. fate[m] = "unsent" /\ fate' = [fate EXCEPT ![m] = "sent"]
  BY DEF Prepend
<1>2. m \in Msgs \ Elems(nextStep)
  BY <1>1, UnsentNowhere
<1>3. Lists(Spliced(nextStep, 0, 0, <<m>>), Elems(nextStep) \cup {m})
  BY <1>2, InsertedHomes DEF TypeOK, HomeInv, HomesApart
<1> QED
  BY <1>1, <1>3 DEF Prepend, SubmitsOne, localVars

\* remove takes the message out of the list it is in.
LEMMA RemoveMoves ==
  ASSUME TypeOK, HomeInv, NEW m \in Msgs, Remove(m)
  PROVE  RemovesOne(m)
<1>1. fate' = [fate EXCEPT ![m] = "canceled"] /\ UNCHANGED <<claimed, pc>>
  BY DEF Remove, localVars
<1>2. nextTurn \in Seq(Msgs) /\ nextStep \in Seq(Msgs) /\ Distinct(nextTurn) /\ Distinct(nextStep)
  BY DEF TypeOK, HomeInv, HomesApart
<1>3. ASSUME NEW i \in DOMAIN nextTurn, nextTurn[i] = m,
             nextTurn' = Spliced(nextTurn, i - 1, 1, <<>>), nextStep' = nextStep
      PROVE  RemovesOne(m)
  <2>1. Lists(Spliced(nextTurn, i - 1, 1, <<>>), Elems(nextTurn) \ {nextTurn[i]})
    BY <1>2, RemovedHomes
  <2>2. m \in Elems(nextTurn)
    BY <1>3 DEF Elems
  <2> QED
    BY <1>1, <1>3, <2>1, <2>2 DEF RemovesOne
<1>4. ASSUME NEW i \in DOMAIN nextStep, nextStep[i] = m,
             nextStep' = Spliced(nextStep, i - 1, 1, <<>>), nextTurn' = nextTurn
      PROVE  RemovesOne(m)
  <2>1. Lists(Spliced(nextStep, i - 1, 1, <<>>), Elems(nextStep) \ {nextStep[i]})
    BY <1>2, RemovedHomes
  <2>2. m \in Elems(nextStep)
    BY <1>4 DEF Elems
  <2> QED
    BY <1>1, <1>4, <2>1, <2>2 DEF RemovesOne
<1> QED
  BY <1>3, <1>4 DEF Remove

\* replace exchanges the message for its edited form, in place.
LEMMA ReplaceMoves ==
  ASSUME TypeOK, HomeInv, NEW m \in Msgs, NEW n \in Msgs, Replace(m, n)
  PROVE  ReplacesOne(m, n)
<1>1. /\ fate[n] = "unsent" /\ fate' = [fate EXCEPT ![m] = "canceled", ![n] = "sent"]
      /\ UNCHANGED <<claimed, pc>>
  BY DEF Replace, localVars
<1>2. nextTurn \in Seq(Msgs) /\ nextStep \in Seq(Msgs) /\ Distinct(nextTurn) /\ Distinct(nextStep)
  BY DEF TypeOK, HomeInv, HomesApart
<1>3. n \in Msgs \ Elems(nextTurn) /\ n \in Msgs \ Elems(nextStep)
  BY <1>1, UnsentNowhere
<1>4. ASSUME NEW i \in DOMAIN nextTurn, nextTurn[i] = m,
             nextTurn' = Spliced(nextTurn, i - 1, 1, <<n>>), nextStep' = nextStep
      PROVE  ReplacesOne(m, n)
  <2>1. Lists(Spliced(nextTurn, i - 1, 1, <<n>>), (Elems(nextTurn) \ {nextTurn[i]}) \cup {n})
    BY <1>2, <1>3, ReplacedHomes
  <2>2. m \in Elems(nextTurn)
    BY <1>4 DEF Elems
  <2> QED
    BY <1>1, <1>4, <2>1, <2>2 DEF ReplacesOne
<1>5. ASSUME NEW i \in DOMAIN nextStep, nextStep[i] = m,
             nextStep' = Spliced(nextStep, i - 1, 1, <<n>>), nextTurn' = nextTurn
      PROVE  ReplacesOne(m, n)
  <2>1. Lists(Spliced(nextStep, i - 1, 1, <<n>>), (Elems(nextStep) \ {nextStep[i]}) \cup {n})
    BY <1>2, <1>3, ReplacedHomes
  <2>2. m \in Elems(nextStep)
    BY <1>5 DEF Elems
  <2> QED
    BY <1>1, <1>5, <2>1, <2>2 DEF ReplacesOne
<1> QED
  BY <1>4, <1>5 DEF Replace

\* Every step of the agent does one of these things, and a batch is claimed only
\* when there is none: a driver that is replayed or started finds none either.
LEMMA StepMoves ==
  ASSUME TypeOK, LogInv, HomeInv, [Next]_vars
  PROVE  Moves
<1> USE DEF agentVars, inbox, localVars, sendVars, history
<1>1. CASE UserStep
  <2>1. ASSUME NEW m \in Msgs, NEW target \in {"next-turn", "next-step"},
               NEW wakeup \in BOOLEAN, Send(m, target, wakeup)
        PROVE  SubmitsOne(m)
    BY <2>1, SendMoves DEF Send
  <2>2. ASSUME NEW c \in Causes, NEW keep \in BOOLEAN, AskCancel(c, keep)
        PROVE  ClearsInbox \/ StillBatch
    BY <2>2 DEF AskCancel, Cancel, ClearsInbox, StillBatch
  <2>3. CASE StartMaintenance
    BY <2>3 DEF StartMaintenance, StillBatch, Moves
  <2> QED
    BY <1>1, <2>1, <2>2, <2>3, PrependMoves, RemoveMoves, ReplaceMoves DEF UserStep, Moves
<1>2. ASSUME UNCHANGED <<inbox, claimed, fate>>,
             pc' = pc \/ pc \notin {"assembling", "proposing"} \/ pc' \in {"assembling", "proposing"}
      PROVE  Moves
  BY <1>2 DEF StillBatch, Moves
<1>3. CASE SendWakes \/ Replay \/ EndMaintenance
  <2>1. UNCHANGED <<inbox, claimed, fate>>
    BY <1>3 DEF SendWakes, Replay, EndMaintenance
  <2>2. pc' = pc \/ pc = "off"
    BY <1>3 DEF SendWakes, Replay, EndMaintenance, WakeDriver, StartDriver, LatchWake,
       LogInv, LogMirrorsDriver
  <2> QED
    BY <1>2, <2>1, <2>2
<1>4. CASE BeginProposal \/ Continue
  <2>1. claimed = <<>>
    BY <1>4 DEF BeginProposal, Continue, HomeInv, BatchIsProposed
  <2> QED
    BY <1>4, <2>1 DEF BeginProposal, Continue, ClaimsBatch, Moves
<1>5. ASSUME UNCHANGED inbox, claimed' = <<>>, fate' = Dropped(Elems(claimed))
      PROVE  Moves
  <2>1. fate' = [m \in Msgs |-> IF m \in {} THEN "entered" ELSE Dropped(Elems(claimed))[m]]
    BY <1>5 DEF Dropped
  <2> QED
    BY <1>5, <2>1 DEF SettlesBatch, Moves
<1>6. CASE Reject \/ EnterNothing \/ EndFailedTurn \/ AbortTurn \/ Stop \/ Fail
  BY <1>5, <1>6 DEF Reject, EnterNothing, EndFailedTurn, AbortTurn, Stop, Fail, CloseTurn
<1>7. ASSUME NEW kept \in SUBSET Elems(claimed), NEW context \in BOOLEAN, EnterStep(kept, context)
      PROVE  Moves
  BY <1>7 DEF EnterStep, SettlesBatch, Moves
<1>8. CASE OpenTurn \/ AbandonTurn \/ Assembled \/ Request \/ CallTools \/ LeaveStep
  BY <1>2, <1>8 DEF OpenTurn, AbandonTurn, Assembled, Request, CallTools, LeaveStep
<1>9. CASE TurnStopping \/ NextTurn \/ LeaveTurn \/ Retire
  BY <1>2, <1>9 DEF TurnStopping, NextTurn, LeaveTurn, Retire
<1>10. ASSUME NEW stepEnd, Answer(stepEnd) PROVE Moves
  BY <1>2, <1>10 DEF Answer, FinishStep
<1>11. ASSUME NEW concluded, ToolsSettle(concluded) PROVE Moves
  BY <1>2, <1>11 DEF ToolsSettle, FinishStep
<1>12. CASE UNCHANGED vars
  BY <1>2, <1>12 DEF vars
<1> QED
  BY <1>1, <1>3, <1>4, <1>6, <1>7, <1>8, <1>9, <1>10, <1>11, <1>12
  DEF Next, Progress, DriverStep

\* Each of them keeps every message in one place.
LEMMA HomeStep ==
  ASSUME TypeOK, HomeInv, Moves
  PROVE  HomeInv'
<1>1. CASE StillBatch
  BY <1>1, HomeFrame DEF StillBatch, HomeInv, BatchIsProposed
<1>2. CASE SettlesBatch
  BY <1>2, SettledHomes DEF SettlesBatch
<1>3. CASE ClaimsBatch
  BY <1>3, ClaimedHomes DEF ClaimsBatch
<1>4. CASE ClearsInbox
  <2>1. \A m \in Msgs : fate'[m] = "sent" <=> m \in Elems(claimed)
    BY <1>4 DEF ClearsInbox, ClearInbox, Pending, HomeInv, HomesApart, HomesOfSent
  <2>2. {m \in Msgs : fate'[m] = "sent"} = Elems(claimed)
    BY <2>1 DEF HomeInv, HomesOfSent
  <2>3. /\ nextTurn' = <<>> /\ nextStep' = <<>> /\ claimed' = claimed /\ pc' = pc
    BY <1>4 DEF ClearsInbox, ClearInbox
  <2> QED
    BY <2>2, <2>3, EmptyHomes DEF HomeInv, HomesApart, HomesOfSent, BatchIsProposed
<1>5. ASSUME NEW m \in Msgs, SubmitsOne(m) PROVE HomeInv'
  <2>1. {x \in Msgs : fate'[x] = "sent"} = ({x \in Msgs : fate[x] = "sent"} \ {}) \cup {m}
    BY <1>5 DEF SubmitsOne, TypeOK
  <2>2. Elems(nextTurn) \ {} = Elems(nextTurn) /\ Elems(nextStep) \ {} = Elems(nextStep)
    OBVIOUS
  <2> QED
    BY <1>5, <2>1, <2>2, MovedHomes DEF SubmitsOne
<1>6. ASSUME NEW m \in Msgs, RemovesOne(m) PROVE HomeInv'
  <2> DEFINE none == {}
  <2>1. {x \in Msgs : fate'[x] = "sent"} = ({x \in Msgs : fate[x] = "sent"} \ {m}) \cup none
    BY <1>6 DEF RemovesOne, TypeOK
  <2>2. /\ (Elems(nextTurn) \ {m}) \cup {} = Elems(nextTurn) \ {m}
        /\ (Elems(nextStep) \ {m}) \cup {} = Elems(nextStep) \ {m}
    OBVIOUS
  <2> HIDE DEF none
  <2>3. UNCHANGED <<claimed, pc>>
    BY <1>6 DEF RemovesOne
  <2>4. CASE /\ m \in Elems(nextTurn)
             /\ Lists(nextTurn', Elems(nextTurn) \ {m}) /\ nextStep' = nextStep
    <3>1. {m} \in SUBSET (Elems(nextTurn) \cup Elems(nextStep)) /\ {m} \subseteq Elems(nextTurn)
      BY <2>4
    <3>2. Lists(nextTurn', (Elems(nextTurn) \ {m}) \cup none) /\ none \in SUBSET {x \in Msgs : fate[x] = "unsent"}
      BY <2>2, <2>4 DEF none
    <3> QED
      BY <2>1, <2>3, <2>4, <3>1, <3>2, MovedHomes
  <2>5. CASE /\ m \in Elems(nextStep)
             /\ Lists(nextStep', Elems(nextStep) \ {m}) /\ nextTurn' = nextTurn
    <3>1. {m} \in SUBSET (Elems(nextTurn) \cup Elems(nextStep)) /\ {m} \subseteq Elems(nextStep)
      BY <2>5
    <3>2. Lists(nextStep', (Elems(nextStep) \ {m}) \cup none) /\ none \in SUBSET {x \in Msgs : fate[x] = "unsent"}
      BY <2>2, <2>5 DEF none
    <3> QED
      BY <2>1, <2>3, <2>5, <3>1, <3>2, MovedHomes
  <2> QED
    BY <1>6, <2>4, <2>5 DEF RemovesOne
<1>7. ASSUME NEW m \in Msgs, NEW n \in Msgs, ReplacesOne(m, n) PROVE HomeInv'
  <2>1. {x \in Msgs : fate'[x] = "sent"} = ({x \in Msgs : fate[x] = "sent"} \ {m}) \cup {n}
    BY <1>7, UnsentNowhere DEF ReplacesOne, TypeOK
  <2>2. UNCHANGED <<claimed, pc>> /\ {n} \in SUBSET {x \in Msgs : fate[x] = "unsent"}
    BY <1>7 DEF ReplacesOne
  <2>3. CASE /\ m \in Elems(nextTurn)
             /\ Lists(nextTurn', (Elems(nextTurn) \ {m}) \cup {n}) /\ nextStep' = nextStep
    <3>1. {m} \in SUBSET (Elems(nextTurn) \cup Elems(nextStep)) /\ {m} \subseteq Elems(nextTurn)
      BY <2>3
    <3> QED
      BY <2>1, <2>2, <2>3, <3>1, MovedHomes
  <2>4. CASE /\ m \in Elems(nextStep)
             /\ Lists(nextStep', (Elems(nextStep) \ {m}) \cup {n}) /\ nextTurn' = nextTurn
    <3>1. {m} \in SUBSET (Elems(nextTurn) \cup Elems(nextStep)) /\ {m} \subseteq Elems(nextStep)
      BY <2>4
    <3> QED
      BY <2>1, <2>2, <2>4, <3>1, MovedHomes
  <2> QED
    BY <1>7, <2>3, <2>4 DEF ReplacesOne
<1> QED
  BY <1>1, <1>2, <1>3, <1>4, <1>5, <1>6, <1>7 DEF Moves

\* The invariant of the theorems below.
LEMMA HomesHold == Spec => [](TypeOK /\ LogInv /\ HomeInv)
<1>1. Init => TypeOK /\ LogInv /\ HomeInv
  BY TypeInit, LogInit, HomeInit
<1>2. TypeOK /\ LogInv /\ HomeInv /\ [Next]_vars => (TypeOK /\ LogInv /\ HomeInv)'
  BY TypeStep, LogStep, StepMoves, HomeStep
<1> QED
  BY <1>1, <1>2, PTL DEF Spec

\* No interleaving of claims, cancels and aborts loses a message or keeps it in
\* two places of the inbox and the batch.
THEOREM OneHomeCorrect == Spec => []OneHome
<1>1. ASSUME TypeOK, HomeInv PROVE OneHome
  <2> DEFINE inboxes == nextTurn \o nextStep
  <2>1. nextTurn \in Seq(Msgs) /\ nextStep \in Seq(Msgs) /\ claimed \in Seq(Msgs)
    BY <1>1 DEF TypeOK
  <2>2. /\ inboxes \in Seq(Msgs) /\ Distinct(inboxes)
        /\ Elems(inboxes) = Elems(nextTurn) \cup Elems(nextStep)
    BY <1>1, <2>1, ConcatHomes DEF HomeInv, HomesApart
  <2> HIDE DEF inboxes
  <2>3. /\ Distinct(inboxes \o claimed)
        /\ Elems(inboxes \o claimed) = Elems(inboxes) \cup Elems(claimed)
    BY <1>1, <2>1, <2>2, ConcatHomes DEF HomeInv, HomesApart
  <2>4. Elems(inboxes \o claimed) = {m \in Msgs : fate[m] = "sent"}
    BY <1>1, <2>2, <2>3 DEF HomeInv, HomesOfSent
  <2>5. \A i, j \in DOMAIN (inboxes \o claimed) :
          (inboxes \o claimed)[i] = (inboxes \o claimed)[j] => i = j
    BY <2>3 DEF Distinct
  <2> QED
    BY <2>4, <2>5 DEF OneHome, inboxes
<1> QED
  BY <1>1, HomesHold, PTL

-----------------------------------------------------------------------------
(* The driver implements MessageDelivery.                                  *)

\* A message is at the stage of its fate, and when sent, of the place it is in.
LEMMA StageIs ==
  ASSUME TypeOK, HomeInv, NEW m \in Msgs
  PROVE  /\ Stage[m] = "unsent" <=> fate[m] = "unsent"
         /\ Stage[m] = "claimed" <=> m \in Elems(claimed)
         /\ Stage[m] = "pending" <=> m \in Elems(nextTurn) \cup Elems(nextStep)
BY DEF Stage, TypeOK, HomeInv, HomesApart, HomesOfSent

\* Every step is a step of MessageDelivery, or leaves the stages as they are.
LEMMA DeliveryStep ==
  ASSUME TypeOK, HomeInv, Moves
  PROVE  Delivery!Next \/ UNCHANGED Stage
<1> USE DEF Delivery!Move, Delivery!At
<1>1. CASE StillBatch
  BY <1>1 DEF StillBatch, Stage, Elems
<1>2. CASE SettlesBatch
  <2>1. PICK kept \in SUBSET Elems(claimed) :
          fate' = [m \in Msgs |-> IF m \in kept THEN "entered"
                                  ELSE Dropped(Elems(claimed))[m]]
    BY <1>2 DEF SettlesBatch
  <2>2. claimed' = <<>> /\ Elems(claimed') = {}
    BY <1>2, EmptyHomes DEF SettlesBatch
  <2>3. Elems(claimed) \subseteq Msgs /\ \A m \in Elems(claimed) : fate[m] = "sent"
    BY DEF HomeInv, HomesOfSent
  <2>4. kept \in SUBSET Msgs /\ kept \subseteq {m \in Msgs : Stage[m] = "claimed"}
    BY <2>3, StageIs
  <2>5. Stage' = [m \in Msgs |-> IF m \in kept THEN "entered"
                                 ELSE IF Stage[m] = "claimed" THEN "dropped"
                                 ELSE Stage[m]]
    <3>1. \A m \in Msgs : Stage'[m] = IF fate'[m] # "sent" THEN fate'[m] ELSE "pending"
      BY <2>2 DEF Stage
    <3>2. ASSUME NEW m \in Msgs
          PROVE  Stage'[m] = IF m \in kept THEN "entered"
                             ELSE IF Stage[m] = "claimed" THEN "dropped"
                             ELSE Stage[m]
      BY <2>1, <2>3, <3>1, StageIs DEF Stage, Dropped
    <3> QED
      BY <3>2 DEF Stage
  <2>6. Delivery!Settle(kept)
    BY <2>4, <2>5 DEF Delivery!Settle
  <2> QED
    BY <2>4, <2>6 DEF Delivery!Next
<1>3. CASE ClaimsBatch
  <2> DEFINE batch == Elems(claimed')
  <2>1. fate' = fate /\ Elems(claimed) = {}
    BY <1>3, EmptyHomes DEF ClaimsBatch
  <2>2. batch \subseteq Elems(nextTurn) \cup Elems(nextStep)
    BY <1>3, ClaimHomes DEF ClaimsBatch, HomeInv
  <2>3. Elems(nextTurn) \cup Elems(nextStep) \subseteq Msgs
    BY DEF HomeInv, HomesOfSent
  <2>4. \A m \in Msgs : Stage'[m] = IF m \in batch THEN "claimed" ELSE Stage[m]
    BY <2>1, <2>2, <2>3 DEF Stage, HomeInv, HomesOfSent
  <2>5. Stage' = [m \in Msgs |-> IF m \in batch THEN "claimed" ELSE Stage[m]]
    BY <2>4 DEF Stage
  <2>6. batch \subseteq {m \in Msgs : Stage[m] = "pending"}
    BY <2>2, <2>3, StageIs
  <2>7. {m \in Msgs : Stage[m] = "claimed"} = {}
    BY <2>1, StageIs
  <2>8. batch \in SUBSET Msgs
    BY <2>2, <2>3
  <2> HIDE DEF batch
  <2>9. Delivery!Claim(batch)
    BY <2>5, <2>6, <2>7 DEF Delivery!Claim
  <2> QED
    BY <2>8, <2>9 DEF Delivery!Next
<1>4. CASE ClearsInbox
  <2> DEFINE gone == {m \in Msgs : Stage[m] = "pending"}
  <2>1. \A m \in Msgs : m \in gone <=> Pending(m)
    BY StageIs DEF Pending
  <2>2. claimed' = claimed /\ Elems(claimed') = Elems(claimed)
    BY <1>4 DEF ClearsInbox
  <2>3. \A m \in Msgs : Stage'[m] = IF m \in gone THEN "canceled" ELSE Stage[m]
    BY <1>4, <2>1, <2>2, StageIs DEF ClearsInbox, ClearInbox, Stage
  <2>4. Stage' = [m \in Msgs |-> IF m \in gone THEN "canceled" ELSE Stage[m]]
    BY <2>3 DEF Stage
  <2>5. gone \in SUBSET Msgs /\ gone \subseteq {m \in Msgs : Stage[m] = "pending"}
    OBVIOUS
  <2> HIDE DEF gone
  <2>6. Delivery!Discard(gone)
    BY <2>4, <2>5 DEF Delivery!Discard
  <2> QED
    BY <2>5, <2>6 DEF Delivery!Next
<1>5. ASSUME NEW m \in Msgs, SubmitsOne(m) PROVE Delivery!Next
  <2>1. Stage[m] = "unsent" /\ m \notin Elems(claimed)
    BY <1>5, StageIs, UnsentNowhere DEF SubmitsOne
  <2>2. /\ fate' = [fate EXCEPT ![m] = "sent"] /\ claimed' = claimed
        /\ Elems(claimed') = Elems(claimed)
    BY <1>5 DEF SubmitsOne
  <2>3. \A x \in Msgs : Stage'[x] = IF x \in {m} THEN "pending" ELSE Stage[x]
    BY <2>1, <2>2 DEF Stage, TypeOK
  <2>4. Stage' = [x \in Msgs |-> IF x \in {m} THEN "pending" ELSE Stage[x]]
    BY <2>3 DEF Stage
  <2>5. Delivery!Submit(m)
    BY <2>1, <2>4 DEF Delivery!Submit
  <2> QED
    BY <2>5 DEF Delivery!Next
<1>6. ASSUME NEW m \in Msgs, RemovesOne(m) PROVE Delivery!Next
  <2>1. Stage[m] = "pending"
    BY <1>6, StageIs DEF RemovesOne
  <2>2. /\ fate' = [fate EXCEPT ![m] = "canceled"] /\ claimed' = claimed
        /\ Elems(claimed') = Elems(claimed)
    BY <1>6 DEF RemovesOne
  <2>3. \A x \in Msgs : Stage'[x] = IF x \in {m} THEN "canceled" ELSE Stage[x]
    BY <2>2 DEF Stage, TypeOK
  <2>4. Stage' = [x \in Msgs |-> IF x \in {m} THEN "canceled" ELSE Stage[x]]
    BY <2>3 DEF Stage
  <2>5. {m} \in SUBSET Msgs /\ {m} \subseteq {x \in Msgs : Stage[x] = "pending"}
    BY <2>1
  <2>6. Delivery!Discard({m})
    BY <2>4, <2>5 DEF Delivery!Discard
  <2> QED
    BY <2>5, <2>6 DEF Delivery!Next
<1>7. ASSUME NEW m \in Msgs, NEW n \in Msgs, ReplacesOne(m, n) PROVE Delivery!Next
  <2>1. Stage[m] = "pending" /\ Stage[n] = "unsent" /\ n \notin Elems(claimed)
    BY <1>7, StageIs, UnsentNowhere DEF ReplacesOne
  <2>2. /\ fate' = [fate EXCEPT ![m] = "canceled", ![n] = "sent"] /\ claimed' = claimed
        /\ Elems(claimed') = Elems(claimed)
    BY <1>7 DEF ReplacesOne
  <2>3. \A x \in Msgs : Stage'[x] = IF x = n THEN "pending" ELSE IF x = m THEN "canceled" ELSE Stage[x]
    BY <2>1, <2>2 DEF Stage, TypeOK
  <2>4. Stage' = [Stage EXCEPT ![m] = "canceled", ![n] = "pending"]
    BY <2>3 DEF Stage
  <2>5. Delivery!Exchange(m, n)
    BY <2>1, <2>4 DEF Delivery!Exchange
  <2> QED
    BY <2>5 DEF Delivery!Next
<1> QED
  BY <1>1, <1>2, <1>3, <1>4, <1>5, <1>6, <1>7 DEF Moves

\* A message is submitted once, pending until it is claimed, cancelled or
\* replaced, and a claimed batch is settled before the next one is claimed.
THEOREM DeliveryCorrect == Spec => ImplementsDelivery
<1>1. Init => Delivery!Init
  <2> SUFFICES ASSUME Init PROVE Stage = [m \in Msgs |-> "unsent"]
    BY DEF Delivery!Init
  <2>1. \A m \in Msgs : Stage[m] = "unsent"
    BY DEF Init, Stage
  <2> QED
    BY <2>1 DEF Stage
<1>2. TypeOK /\ LogInv /\ HomeInv /\ [Next]_vars => [Delivery!Next]_Stage
  BY StepMoves, DeliveryStep
<1> QED
  BY <1>1, <1>2, HomesHold, PTL DEF Spec, ImplementsDelivery, Delivery!Spec

-----------------------------------------------------------------------------
(* Prompts are served in order, one to a turn.                             *)

\* A turn has no prompt before its first claim, and claims after a step only to
\* take next-step input.
PromptInv ==
  /\ \A m, n \in prompts : m = n
  /\ pc = "opened" => prompts = {}
  /\ pc \in {"stepEnded", "stopping"} => step > 0

\* What inbox.claim takes from the next-turn list: its head, at the first step.
LEMMA ClaimTakes ==
  ASSUME TypeOK, HomeInv, Claim
  PROVE  \/ /\ prompts' = prompts
            /\ Elems(claimed') = Elems(nextStep)
         \/ /\ step = 0 /\ 1 \in DOMAIN nextTurn
            /\ prompts' = prompts \cup {nextTurn[1]}
            /\ Elems(claimed') = Elems(nextStep) \cup {nextTurn[1]}
<1> DEFINE count == IF step = 0 /\ nextTurn # <<>> THEN 1 ELSE 0
           taken == SubSeq(nextTurn, 1, count)
<1>1. /\ claimed' = nextStep \o taken /\ prompts' = prompts \cup Elems(taken)
      /\ nextTurn \in Seq(Msgs) /\ nextStep \in Seq(Msgs)
  BY DEF Claim, TypeOK
<1>2. count \in Nat /\ count <= Len(nextTurn) /\ (count = 1 => step = 0 /\ 1 \in DOMAIN nextTurn)
  BY <1>1, EmptySeq, LenProperties
<1>3. count = 0 \/ count = 1
  OBVIOUS
<1> HIDE DEF count
<1>4. taken \in Seq(Msgs) /\ Elems(taken) = {nextTurn[i] : i \in 1..count}
  BY <1>1, <1>2, SubSeqHomes
<1>5. Elems(claimed') = Elems(nextStep) \cup Elems(taken)
  <2> HIDE DEF taken
  <2> QED
    BY <1>1, <1>4, ConcatHomes
<1> HIDE DEF taken
<1>6. CASE count = 0
  <2>1. Elems(taken) = {}
    BY <1>4, <1>6
  <2> QED
    BY <1>1, <1>5, <2>1
<1>7. CASE count = 1
  <2>1. Elems(taken) = {nextTurn[1]}
    BY <1>4, <1>7
  <2> QED
    BY <1>1, <1>2, <1>5, <1>7, <2>1
<1> QED
  BY <1>3, <1>6, <1>7

\* Every step keeps to one prompt per turn.
LEMMA PromptStep ==
  ASSUME TypeOK, LogInv, HomeInv, PromptInv, [Next]_vars
  PROVE  PromptInv'
<1> USE DEF agentVars, inbox, localVars, sendVars, history
<1>1. ASSUME prompts' = prompts,
             pc' = "opened" => pc = "opened",
             pc' \in {"stepEnded", "stopping"} => step' > 0
      PROVE  PromptInv'
  BY <1>1 DEF PromptInv
<1>2. CASE UserStep \/ UNCHANGED vars
  <2>1. UNCHANGED <<prompts, pc, step>>
    BY <1>2 DEF UserStep, Send, Prepend, Remove, Replace, AskCancel, Cancel,
       StartMaintenance, vars
  <2> QED
    BY <2>1 DEF PromptInv
<1>3. CASE SendWakes \/ Replay \/ EndMaintenance
  BY <1>3 DEF SendWakes, Replay, EndMaintenance, WakeDriver, StartDriver, LatchWake, PromptInv
<1>4. CASE OpenTurn
  BY <1>4 DEF OpenTurn, PromptInv
<1>5. CASE BeginProposal \/ Continue
  <2>1. /\ Claim /\ pc' = "assembling"
        /\ pc = "opened" \/ step > 0
    BY <1>5 DEF BeginProposal, Continue, Claim, PromptInv
  <2>2. \/ prompts' = prompts
        \/ prompts = {} /\ prompts' = prompts \cup {nextTurn[1]}
    BY <2>1, ClaimTakes DEF PromptInv, TypeOK
  <2> QED
    BY <2>1, <2>2 DEF PromptInv
<1>6. ASSUME NEW stepEnd, Answer(stepEnd) PROVE PromptInv'
  <2>1. step' = step /\ step > 0 /\ prompts' = prompts /\ pc' = "stepEnded"
    BY <1>6 DEF Answer, FinishStep, LogInv, LogMirrorsDriver, InStep
  <2> QED
    BY <1>1, <2>1
<1>7. ASSUME NEW concluded, ToolsSettle(concluded) PROVE PromptInv'
  <2>1. step' = step /\ step > 0 /\ prompts' = prompts /\ pc' = "stepEnded"
    BY <1>7 DEF ToolsSettle, FinishStep, LogInv, LogMirrorsDriver, InStep
  <2> QED
    BY <1>1, <2>1
<1>8. CASE TurnStopping
  BY <1>1, <1>8 DEF TurnStopping, PromptInv
<1>9. CASE Reject \/ EnterNothing \/ EndFailedTurn \/ AbortTurn \/ Stop \/ Fail
  BY <1>1, <1>9 DEF Reject, EnterNothing, EndFailedTurn, AbortTurn, Stop, Fail, CloseTurn
<1>10. ASSUME NEW kept \in SUBSET Elems(claimed), NEW context \in BOOLEAN, EnterStep(kept, context)
       PROVE  PromptInv'
  BY <1>1, <1>10 DEF EnterStep
<1>11. CASE AbandonTurn \/ Assembled \/ Request \/ CallTools \/ LeaveStep
  BY <1>1, <1>11 DEF AbandonTurn, Assembled, Request, CallTools, LeaveStep
<1>12. CASE NextTurn \/ LeaveTurn \/ Retire
  BY <1>1, <1>12 DEF NextTurn, LeaveTurn, Retire
<1> QED
  BY <1>2, <1>3, <1>4, <1>5, <1>6, <1>7, <1>8, <1>9, <1>10, <1>11, <1>12
  DEF Next, Progress, DriverStep

\* A prompt is claimed from the head of the next-turn list: the claimed batch
\* holds no message of that list but the first.
LEMMA OrderStep ==
  ASSUME TypeOK, HomeInv, Moves
  PROVE  \A i, j \in DOMAIN nextTurn :
           i < j /\ nextTurn[j] \in Elems(claimed') => nextTurn[i] \notin Elems(nextTurn')
<1> SUFFICES ASSUME NEW i \in DOMAIN nextTurn, NEW j \in DOMAIN nextTurn, i < j
             PROVE  nextTurn[j] \notin Elems(claimed')
  OBVIOUS
<1>1. nextTurn[j] \in Elems(nextTurn) /\ nextTurn[j] \notin Elems(nextStep) \cup Elems(claimed)
  BY DEF Elems, HomeInv, HomesApart
<1>2. CASE claimed' = claimed
  BY <1>1, <1>2 DEF Elems
<1>3. CASE claimed' = <<>>
  BY <1>3, EmptyHomes
<1>4. CASE ClaimsBatch
  <2>1. \/ Elems(claimed') = Elems(nextStep)
        \/ 1 \in DOMAIN nextTurn /\ Elems(claimed') = Elems(nextStep) \cup {nextTurn[1]}
    BY <1>4, ClaimTakes DEF ClaimsBatch
  <2>2. j # 1
    BY LenProperties DEF TypeOK
  <2> QED
    BY <1>1, <2>1, <2>2 DEF HomeInv, HomesApart, Distinct
<1> QED
  BY <1>2, <1>3, <1>4 DEF Moves, StillBatch, SettlesBatch, ClearsInbox, SubmitsOne,
     RemovesOne, ReplacesOne

\* A followup() is the sole prompt of its turn, and prompts are claimed in the
\* order in which they stand in the inbox.
THEOREM PromptsCorrect == Spec => PromptsInOrder
<1>1. Init => PromptInv
  BY DEF Init, PromptInv
<1>2. TypeOK /\ LogInv /\ HomeInv /\ PromptInv /\ [Next]_vars => PromptInv'
  BY PromptStep
<1>3. TypeOK /\ LogInv /\ HomeInv /\ PromptInv /\ PromptInv' /\ [Next]_vars =>
        [/\ \A m, n \in prompts' : m = n
         /\ \A i, j \in DOMAIN nextTurn :
              i < j /\ nextTurn[j] \in Elems(claimed') =>
                nextTurn[i] \notin Elems(nextTurn')]_vars
  BY StepMoves, OrderStep DEF PromptInv
<1> QED
  BY <1>1, <1>2, <1>3, HomesHold, PTL DEF Spec, PromptsInOrder

-----------------------------------------------------------------------------
(* A wake that pending input is owed is remembered.                        *)

\* Waking input that arrived behind the activity and is still pending.
Late(m) == waking[m] = "late" /\ Pending(m)

\* It is remembered by the latch, by the send that brought it and has not woken
\* the driver yet, or by kick's replay, which finds a maintenance task that
\* started in between.
WakeInv ==
  /\ \A m \in Msgs : fate[m] = "unsent" => waking[m] = "no"
  /\ \A m \in Msgs : phase # "idle" /\ Late(m) =>
       /\ cause # "disposed"
       /\ \/ wakeRequested
          \/ m \in sending
          \/ retiring = "replay" /\ phase = "maintenance"
  /\ \A m \in sending : /\ fate[m] # "unsent"
                        /\ waking[m] = "late" => phase = "maintenance" \/ wakingAfterAbort
  /\ phase = "idle" /\ (\E m \in Msgs : waking[m] = "late") => retiring = "replay"

\* No step makes a message pending that was sent before.
LEMMA PendingOld ==
  ASSUME TypeOK, HomeInv, Moves, NEW m \in Msgs
  PROVE  /\ Pending(m)' => Pending(m) \/ fate[m] = "unsent"
         /\ fate'[m] = "unsent" => fate[m] = "unsent"
<1> USE DEF Pending
<1>1. CASE StillBatch
  BY <1>1 DEF StillBatch, Elems
<1>2. CASE SettlesBatch
  <2>1. UNCHANGED <<nextTurn, nextStep>>
    BY <1>2 DEF SettlesBatch, inbox
  <2>2. fate'[m] = "unsent" => fate[m] = "unsent"
    BY <1>2 DEF SettlesBatch, Dropped
  <2> QED
    BY <2>1, <2>2 DEF Elems
<1>3. CASE ClaimsBatch
  <2>1. /\ Elems(nextTurn') \subseteq Elems(nextTurn) \cup Elems(nextStep)
        /\ nextStep' = <<>> /\ fate' = fate
    BY <1>3, ClaimHomes DEF ClaimsBatch, HomeInv
  <2> QED
    BY <2>1, EmptyHomes
<1>4. CASE ClearsInbox
  BY <1>4, EmptyHomes DEF ClearsInbox, ClearInbox
<1>5. ASSUME NEW x \in Msgs, SubmitsOne(x)
      PROVE  /\ Pending(m)' => Pending(m) \/ fate[m] = "unsent"
             /\ fate'[m] = "unsent" => fate[m] = "unsent"
  <2>1. fate[x] = "unsent" /\ (fate'[m] = "unsent" => fate[m] = "unsent")
    BY <1>5 DEF SubmitsOne, TypeOK
  <2>2. /\ Elems(nextTurn') \subseteq Elems(nextTurn) \cup {x}
        /\ Elems(nextStep') \subseteq Elems(nextStep) \cup {x}
    BY <1>5 DEF SubmitsOne, Lists
  <2> QED
    BY <2>1, <2>2
<1>6. ASSUME NEW x \in Msgs, RemovesOne(x)
      PROVE  /\ Pending(m)' => Pending(m) \/ fate[m] = "unsent"
             /\ fate'[m] = "unsent" => fate[m] = "unsent"
  <2>1. fate'[m] = "unsent" => fate[m] = "unsent"
    BY <1>6 DEF RemovesOne, TypeOK
  <2>2. Elems(nextTurn') \subseteq Elems(nextTurn) /\ Elems(nextStep') \subseteq Elems(nextStep)
    BY <1>6 DEF RemovesOne, Lists
  <2> QED
    BY <2>1, <2>2
<1>7. ASSUME NEW x \in Msgs, NEW n \in Msgs, ReplacesOne(x, n)
      PROVE  /\ Pending(m)' => Pending(m) \/ fate[m] = "unsent"
             /\ fate'[m] = "unsent" => fate[m] = "unsent"
  <2>1. fate[n] = "unsent" /\ (fate'[m] = "unsent" => fate[m] = "unsent")
    BY <1>7 DEF ReplacesOne, TypeOK
  <2>2. /\ Elems(nextTurn') \subseteq Elems(nextTurn) \cup {n}
        /\ Elems(nextStep') \subseteq Elems(nextStep) \cup {n}
    BY <1>7 DEF ReplacesOne, Lists
  <2> QED
    BY <2>1, <2>2
<1> QED
  BY <1>1, <1>2, <1>3, <1>4, <1>5, <1>6, <1>7 DEF Moves

\* Every step remembers the wakes.
LEMMA WakeStep ==
  ASSUME TypeOK, LogInv, HomeInv, Moves, WakeInv, [Next]_vars
  PROVE  WakeInv'
<1> USE DEF agentVars, localVars, sendVars, history
<1> DEFINE old(m) == /\ (Pending(m)' => Pending(m) \/ fate[m] = "unsent")
                     /\ (fate'[m] = "unsent" => fate[m] = "unsent")
<1>1. \A m \in Msgs : old(m)
  BY PendingOld
<1>1a. sending \subseteq Msgs
  BY DEF TypeOK
<1>2. ASSUME UNCHANGED <<phase, cause, wakeRequested, sendVars, retiring, waking>>
      PROVE  WakeInv'
  BY <1>1, <1>1a, <1>2 DEF WakeInv, Late
<1>3. ASSUME waking' = NoWakes, sending' \subseteq sending PROVE WakeInv'
  BY <1>1, <1>1a, <1>3 DEF WakeInv, Late, NoWakes
<1>4. ASSUME NEW m \in Msgs, NEW target \in {"next-turn", "next-step"},
             NEW wakeup \in BOOLEAN, Send(m, target, wakeup)
      PROVE  WakeInv'
  <2>1. /\ fate[m] = "unsent" /\ fate' = [fate EXCEPT ![m] = "sent"]
        /\ UNCHANGED <<phase, cause, wakeRequested, retiring>>
        /\ sending = {} /\ sending' = (IF wakeup THEN {m} ELSE {})
        /\ wakingAfterAbort' = (wakeup /\ phase # "idle" /\ Aborted)
        /\ waking' = IF wakeup /\ phase # "idle" /\ cause # "disposed"
                     THEN [waking EXCEPT ![m] = IF phase = "maintenance" \/ wakingAfterAbort'
                                                THEN "late" ELSE "joined"]
                     ELSE waking
    BY <1>4 DEF Send, Insert
  <2>2. waking[m] = "no"
    BY <2>1 DEF WakeInv
  <2>3. \A x \in Msgs : x # m => waking'[x] = waking[x]
    BY <2>1 DEF TypeOK
  <2>4. \A x \in Msgs : fate'[x] = "unsent" => waking'[x] = "no"
    BY <1>1, <2>1, <2>3 DEF WakeInv, TypeOK
  <2>5. ASSUME waking'[m] = "late"
        PROVE  /\ wakeup /\ phase # "idle" /\ cause # "disposed"
               /\ phase = "maintenance" \/ wakingAfterAbort'
    BY <2>1, <2>2, <2>5 DEF TypeOK
  <2>6. ASSUME NEW x \in Msgs, phase' # "idle", Late(x)'
        PROVE  /\ cause' # "disposed"
               /\ \/ wakeRequested'
                  \/ x \in sending'
                  \/ retiring' = "replay" /\ phase' = "maintenance"
    <3>1. CASE x = m
      BY <2>1, <2>5, <2>6, <3>1 DEF Late
    <3>2. CASE x # m
      <4>1. Late(x)
        BY <1>1, <2>3, <2>6, <3>2 DEF Late, WakeInv
      <4> QED
        BY <2>1, <2>6, <4>1 DEF WakeInv
    <3> QED
      BY <3>1, <3>2
  <2>7. \A x \in sending' : /\ fate'[x] # "unsent"
                            /\ waking'[x] = "late" => phase' = "maintenance" \/ wakingAfterAbort'
    BY <2>1, <2>5 DEF TypeOK
  <2>8. phase' = "idle" /\ (\E x \in Msgs : waking'[x] = "late") => retiring' = "replay"
    BY <2>1, <2>3, <2>5 DEF WakeInv
  <2> QED
    BY <2>4, <2>6, <2>7, <2>8 DEF WakeInv
<1>5. CASE SendWakes
  <2>1. CASE StartDriver
    BY <1>3, <1>5, <2>1 DEF StartDriver, SendWakes, sendVars
  <2>2. CASE phase # "idle" /\ LatchWake(wakingAfterAbort)
    <3>1. /\ UNCHANGED <<phase, cause, waking, retiring, fate>>
          /\ sending' = {} /\ ~wakingAfterAbort'
          /\ wakeRequested' <=>
               wakeRequested \/ (cause # "disposed" /\ (phase = "maintenance" \/ wakingAfterAbort))
      BY <1>5, <2>2, Zenon DEF SendWakes, LatchWake
    <3>2. ASSUME NEW x \in Msgs, Late(x)' PROVE cause # "disposed" /\ wakeRequested'
      <4>1. Late(x)
        BY <1>1, <3>1, <3>2 DEF Late, WakeInv
      <4> QED
        BY <2>2, <3>1, <4>1 DEF WakeInv, Late
    <3> QED
      BY <1>1, <1>1a, <2>2, <3>1, <3>2 DEF WakeInv
  <2> QED
    BY <1>5, <2>1, <2>2 DEF SendWakes, WakeDriver
<1>6. ASSUME NEW m \in Msgs, Prepend(m) \/ Remove(m) PROVE WakeInv'
  BY <1>2, <1>6 DEF Prepend, Remove
<1>7. ASSUME NEW m \in Msgs, NEW n \in Msgs, Replace(m, n) PROVE WakeInv'
  BY <1>2, <1>7 DEF Replace
<1>8. ASSUME NEW c \in Causes, NEW keep \in BOOLEAN, keep => c # "disposed", AskCancel(c, keep)
      PROVE  WakeInv'
  <2>1. UNCHANGED <<phase, sendVars, retiring, waking>>
    BY <1>8 DEF AskCancel, Cancel
  <2>2. CASE CancelThrows(keep) /\ UNCHANGED <<agentVars, nextTurn, nextStep, fate>>
    BY <1>2, <2>1, <2>2
  <2>3. CASE Cancel(c, keep) /\ keep
    <3>1. wakeRequested' = wakeRequested /\ (cause' = cause \/ cause' # "disposed")
      BY <1>8, <2>3 DEF Cancel, AbortActivity
    <3> QED
      BY <1>1, <1>1a, <2>1, <3>1 DEF WakeInv, Late
  <2>4. CASE Cancel(c, keep) /\ ~keep
    <3>1. \A x \in Msgs : ~Late(x)'
      BY <2>4, EmptyHomes DEF Cancel, ClearInbox, Late, Pending
    <3> QED
      BY <1>1, <1>1a, <2>1, <3>1 DEF WakeInv
  <2> QED
    BY <1>8, <2>2, <2>3, <2>4 DEF AskCancel
<1>9. CASE StartMaintenance
  <2>1. /\ phase = "idle" /\ phase' = "maintenance" /\ cause' = NoCause
        /\ waking' = [m \in Msgs |-> IF m \in sending THEN "late" ELSE waking[m]]
        /\ UNCHANGED <<sendVars, retiring, fate>>
    BY <1>9 DEF StartMaintenance
  <2>2. \A x \in Msgs : fate'[x] = "unsent" => waking'[x] = "no"
    BY <2>1 DEF WakeInv
  <2>3. ASSUME NEW x \in Msgs, Late(x)' PROVE x \in sending \/ retiring = "replay"
    BY <2>1, <2>3 DEF WakeInv, Late
  <2> QED
    BY <2>1, <2>2, <2>3 DEF WakeInv, NoCause
<1>10. CASE EndMaintenance \/ NextTurn
  BY <1>3, <1>10 DEF EndMaintenance, NextTurn, StartDriver
<1>11. CASE Retire
  <2>1. /\ phase' = "idle" /\ sending = {} /\ UNCHANGED <<fate, sendVars>>
        /\ waking' = NoWakes \/ (waking' = waking /\ retiring' = "replay")
    BY <1>11 DEF Retire, Quiet
  <2> QED
    BY <1>3, <2>1 DEF WakeInv
<1>12. CASE Replay
  <2>1. CASE StartDriver
    BY <1>3, <1>12, <2>1 DEF StartDriver, Replay, sendVars
  <2>2. CASE retiring = "replay" /\ phase # "idle" /\ LatchWake(FALSE)
    <3>1. /\ UNCHANGED <<phase, cause, waking, fate, sendVars>> /\ sending = {}
          /\ wakeRequested' <=>
               wakeRequested \/ (cause # "disposed" /\ phase = "maintenance")
      BY <1>12, <2>2, Zenon DEF Replay, LatchWake
    <3>2. ASSUME NEW x \in Msgs, Late(x)' PROVE cause # "disposed" /\ wakeRequested'
      <4>1. Late(x)
        BY <1>1, <3>1, <3>2 DEF Late, WakeInv
      <4> QED
        BY <2>2, <3>1, <4>1 DEF WakeInv, Late
    <3> QED
      BY <1>1, <1>1a, <2>2, <3>1, <3>2 DEF WakeInv
  <2>3. CASE /\ ~(retiring = "replay" /\ HasPending)
             /\ waking' = IF phase = "idle" THEN NoWakes ELSE waking
             /\ UNCHANGED <<phase, step, cause, wakeRequested, pc, asked>>
    <3>1. sending = {} /\ UNCHANGED <<nextTurn, nextStep, fate, sendVars>>
      BY <1>12 DEF Replay, inbox
    <3>2. ASSUME NEW x \in Msgs, Late(x) PROVE HasPending
      BY <3>2, EmptyHomes DEF Late, Pending, HasPending
    <3>3. ASSUME NEW x \in Msgs, phase # "idle", Late(x)' PROVE Late(x)
      BY <1>1, <2>3, <3>1, <3>3 DEF Late, WakeInv
    <3> QED
      BY <1>1, <1>3, <2>3, <3>1, <3>2, <3>3 DEF WakeInv
  <2> QED
    BY <1>12, <2>1, <2>2, <2>3 DEF Replay, WakeDriver
<1>13. CASE DriverStep
  <2>1. \/ NextTurn \/ Retire
        \/ UNCHANGED <<phase, cause, wakeRequested, sendVars, retiring, waking>>
    BY <1>13 DEF DriverStep, OpenTurn, AbandonTurn, BeginProposal, Assembled, Reject,
       EnterNothing, EnterStep, Request, CallTools, LeaveStep, Answer, ToolsSettle,
       FinishStep, Fail, EndFailedTurn, AbortTurn, TurnStopping, Continue, Stop, LeaveTurn
  <2> QED
    BY <1>2, <1>10, <1>11, <2>1
<1>14. CASE UNCHANGED vars
  BY <1>2, <1>14 DEF vars
<1> QED
  BY <1>4, <1>5, <1>6, <1>7, <1>8, <1>9, <1>10, <1>12, <1>13, <1>14
  DEF Next, Progress, UserStep

\* As long as waking input that arrived behind maintenance or an aborted turn is
\* pending, the activity in its way remembers to wake the driver.
THEOREM WakeCorrect == Spec => []WakeIsRemembered
<1>1. Init => WakeInv
  BY DEF Init, WakeInv, Late, NoWakes
<1>2. TypeOK /\ LogInv /\ HomeInv /\ WakeInv /\ [Next]_vars => WakeInv'
  BY StepMoves, WakeStep
<1>3. WakeInv => WakeIsRemembered
  BY DEF WakeInv, WakeIsRemembered, Late, Quiet
<1> QED
  BY <1>1, <1>2, <1>3, HomesHold, PTL DEF Spec
====
