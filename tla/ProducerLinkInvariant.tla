----------------------- MODULE ProducerLinkInvariant -----------------------
(***************************************************************************)
(* The inductive invariant of the producer link, what it says of the       *)
(* threads, connections, answers and frames, and that every step keeps the *)
(* types, the control state of the connections and the outbox.             *)
(* ProducerLinkProofs has the rest of the induction and the results.       *)
(***************************************************************************)
EXTENDS ProducerLink, FiniteSetTheorems, SequenceTheorems,
        WellFoundedInduction, TLAPS

(* What a reader of the published connection has still to be told.         *)

Refusals == {"stale", "invalid"}
\* The reader of a connection goes no further than one of these.
Stops == Refusals \cup {"limited", "error"}

HasStop(q) == \E i \in DOMAIN q : q[i].kind \in Stops

\* Acknowledgements only grow from low on, a refusal is of a transaction that
\* none before it acknowledges, and an unexpected id is never read first.
Sound(q, low) ==
    /\ \A i \in DOMAIN q :
        /\ q[i].kind \in {"ack", "unexpected"} \cup Stops
        /\ q[i].kind = "ack" => q[i].id >= low
        /\ q[i].kind \in Refusals => q[i].id > low
        /\ q[i].kind = "unexpected" =>
            \E j \in DOMAIN q : j < i /\ q[j].kind \in Stops
    /\ \A i, j \in DOMAIN q : i < j /\ q[i].kind = "ack" =>
        /\ q[j].kind = "ack" => q[i].id <= q[j].id
        /\ q[j].kind \in Refusals => q[i].id < q[j].id

Held(g) == IF rpc[g] = "holding" THEN <<hand[g]>> ELSE <<>>
Coming(g) == IF link[g] = "up" THEN outgoing[g] \o results[g] ELSE <<>>
Stream(g) == Held(g) \o toClient[g] \o Coming(g)

\* The session's committed transactions stand behind an answer.
Backed(r) ==
    /\ r.kind = "ack" =>
        /\ r.id <= committed[session]
        /\ r.head > 0 => /\ r.head \in DOMAIN log
                         /\ log[r.head].s = session /\ log[r.head].id = r.id
    /\ r.kind \in Refusals => r.id < nextId

\* A failed commit has no reply: the connection is shut down instead.
Sendable == {r \in Replies : r.kind # "error"}

HandsFull ==
    \A g \in Gens :
        /\ rpc[g] = "holding" => hand[g] \in Sendable
        /\ toClient[g] \in Seq(Sendable) /\ outgoing[g] \in Seq(Sendable)

Listening == sock # 0 /\ rpc[sock] # "closing"

AnswersInOrder ==
    Listening => /\ Sound(Stream(sock), lastAcked)
                 /\ \A i \in DOMAIN Stream(sock) : Backed(Stream(sock)[i])

(* What the published connection has still to be sent.                     *)

\* The last id whose bytes were given to the published connection.
Handed ==
    IF background
    THEN IF claimed # None THEN claimed.id - 1 ELSE lastAcked + unsent
    ELSE IF attempt = "replay" THEN lastAcked + unsent
    ELSE IF caller # None THEN caller.e.id - 1 ELSE nextId - 1

\* Frames that leave no gap after the committed id done.
Gapless(q, done) ==
    \A i \in DOMAIN q :
        q[i].id <= 1 + (IF i = 1 THEN done ELSE Greater(done, q[i - 1].id))

\* The committed id once all of q is served.
Reached(q, done) == IF q = <<>> THEN done ELSE Greater(done, q[Len(q)].id)

FramesInOrder ==
    Listening /\ link[sock] = "up" /\ ~HasStop(Stream(sock)) =>
        /\ Gapless(toServer[sock], committed[session])
        /\ Handed <= Reached(toServer[sock], committed[session])

(* The threads of the producer and its connections.                        *)

\* e is a transaction of session s with bytes submitted under its id.
Known(s, e) ==
    /\ e.id \in DOMAIN versions[s]
    /\ \E v \in DOMAIN versions[s][e.id] : versions[s][e.id][v] = e.p

FramesKnown ==
    /\ \A g \in Gens : \A i \in DOMAIN toServer[g] :
        toServer[g][i].kind = "txn" => Known(owner[g], toServer[g][i])
    /\ claimed # None => Known(session, claimed)
    /\ caller # None => Known(session, caller.e) /\ owner[caller.g] = session

UnusedIsEmpty ==
    \A g \in Gens : g > gen =>
        /\ toServer[g] = <<>> /\ toClient[g] = <<>>
        /\ results[g] = <<>> /\ outgoing[g] = <<>> /\ rpc[g] = "none"

Attempting ==
    /\ attempt # "idle" =>
        gen \in Gens /\ owner[gen] = session /\ rpc[gen] = "none"
    /\ attempt \in {"hello", "accepted"} =>
        sock = 0 /\ results[gen] = <<>> /\ outgoing[gen] = <<>>
    /\ attempt = "hello" =>
        /\ phase = "awaiting"
        /\ \/ toServer[gen] = <<Hello>> /\ toClient[gen] = <<>>
           \/ toServer[gen] = <<>> /\ toClient[gen] = <<>>
           \/ /\ toServer[gen] = <<>> /\ Len(toClient[gen]) = 1
              /\ toClient[gen][1].id \in lastAcked..committed[session]
    /\ attempt = "accepted" =>
        phase = "ready" /\ toServer[gen] = <<>> /\ toClient[gen] = <<>>
    /\ attempt = "replay" => sock = gen /\ phase = "ready" /\ ~background

\* No connection starts with entries of the outbox marked as sent.
CursorAtStart == attempt \in {"hello", "accepted"} => unsent = 0

Published ==
    sock # 0 => /\ sock = gen /\ owner[sock] = session
                /\ phase \in {"ready", "recovery"}
                /\ \A i \in DOMAIN toServer[sock] :
                        toServer[sock][i].kind = "txn"

Sending ==
    /\ claimed # None => /\ background /\ sock # 0
                         /\ lastAcked + unsent
                                <= Greater(claimed.id, committed[session])
    /\ caller # None => /\ ~background /\ attempt # "replay"
                        /\ sock \in {0, caller.g} /\ caller.g <= gen
                        /\ attempt # "idle" => caller.g # gen
                        /\ caller.e.id = nextId - 1

Recovering ==
    /\ failure = None <=> phase # "recovery"
    /\ failure = None => disposition = "none"
    /\ failure # None =>
        /\ attempt = "idle" /\ (sock # 0 => rpc[sock] = "closing")
        /\ failure.id = rejectedId /\ failure.disposition = disposition
        /\ disposition # "fatal"
        /\ rejectedId > lastAcked /\ rejectedId < nextId

(* The outbox, the history and the log.                                    *)

OutboxIsExact ==
    /\ Len(versions[session]) = nextId - 1
    /\ lastAcked < nextId
    /\ Len(queue) = nextId - 1 - lastAcked
    /\ \A i \in DOMAIN queue :
        /\ queue[i].id = lastAcked + i
        /\ queue[i].p = Current(session, lastAcked + i)

HistoryIsExact ==
    /\ acked[session] = lastAcked
    /\ \A s \in Sessions :
        /\ s > session => versions[s] = <<>>
        /\ \A id \in DOMAIN versions[s] : versions[s][id] # <<>>
        /\ acked[s] <= committed[s] /\ committed[s] <= Len(versions[s])

LogIsOrdered ==
    /\ \A i \in DOMAIN log : log[i].id >= 1 /\ log[i].id <= committed[log[i].s]
    /\ \A i, j \in DOMAIN log :
        i < j /\ log[i].s = log[j].s => log[i].id < log[j].id
    /\ \A s \in Sessions : \A id \in 1..committed[s] :
        \E i \in DOMAIN log : log[i].s = s /\ log[i].id = id

CheckpointIsLast ==
    checkpoint # 0 /\ lastAcked # 0 =>
        /\ checkpoint \in DOMAIN log
        /\ log[checkpoint].s = session /\ log[checkpoint].id = lastAcked

\* The inductive invariant.
LinkInv ==
    /\ TypeOK /\ HandsFull
    /\ UnusedIsEmpty /\ Attempting /\ CursorAtStart /\ Published /\ Sending
    /\ Recovering /\ OutboxIsExact /\ HistoryIsExact /\ LogIsOrdered
    /\ FramesKnown /\ AnswersInOrder /\ FramesInOrder /\ CheckpointIsLast

-----------------------------------------------------------------------------
(* The bounds.                                                             *)

\* A finite set of naturals has a largest element, and Max is it.
LEMMA LargestExists ==
    ASSUME NEW S \in SUBSET Nat, IsFiniteSet(S), S # {}
    PROVE  /\ Max(S) \in S
           /\ \A y \in S : y <= Max(S)
<1>0. S # {} /\ \A y \in S : y \in Nat
  OBVIOUS
<1> DEFINE n == Cardinality(S)
<1>1. n \in Nat /\ \E f \in Surjection(1..n, S) : TRUE
  <2>1. n \in Nat
    BY FS_CardinalityType
  <2>2. ExistsBijection(1..n, S)
    BY FS_CardinalityType
  <2> QED
    BY <2>1, <2>2 DEF ExistsBijection, Bijection, Surjection
<1> HIDE DEF n
<1>2. PICK f \in Surjection(1..n, S) : TRUE
  BY <1>1
<1>3. f \in [1..n -> S] /\ \A y \in S : \E i \in 1..n : f[i] = y
  BY <1>2 DEF Surjection
<1> DEFINE Bounded(k) == \E m \in S : \A i \in 1..n : i <= k => f[i] <= m
           Bad == {k \in Nat : k <= n /\ ~Bounded(k)}
<1>4. Bad = {}
  <2>1. SUFFICES ASSUME Bad # {} PROVE FALSE
    OBVIOUS
  <2>2. PICK k \in Bad : \A y \in Bad : ~(<<y, k>> \in OpToRel(<, Nat))
    <3>1. Bad \subseteq Nat
      OBVIOUS
    <3> HIDE DEF Bad
    <3> QED
      BY <2>1, <3>1, WFMin, NatLessThanWellFounded
  <2>3. \A y \in Bad : ~(y < k)
    <3>1. Bad \subseteq Nat
      OBVIOUS
    <3> HIDE DEF Bad
    <3> QED
      BY <2>2, <3>1 DEF OpToRel
  <2>4. k \in Nat /\ k <= n /\ ~Bounded(k)
    OBVIOUS
  <2>5. k # 0
    <3>1. \A i \in 1..n : ~(i <= 0)
      BY <1>1
    <3>2. PICK m \in S : TRUE
      BY <1>0
    <3>3. Bounded(0)
      BY <3>1, <3>2
    <3> QED
      BY <2>4, <3>3
  <2>6. k - 1 \in Nat /\ k - 1 <= n /\ k - 1 < k
    BY <2>4, <2>5, <1>1
  <2>7. Bounded(k - 1)
    BY <2>3, <2>6
  <2>8. PICK m \in S : \A i \in 1..n : i <= k - 1 => f[i] <= m
    BY <2>7
  <2>9. k \in 1..n /\ f[k] \in S
    BY <2>4, <2>5, <1>1, <1>3
  <2>10. CASE f[k] <= m
    <3>1. \A i \in 1..n : i <= k => f[i] <= m
      BY <2>8, <2>10, <2>9, <1>1
    <3> QED
      BY <3>1, <2>4
  <2>11. CASE ~(f[k] <= m)
    <3>0. m \in Nat /\ f[k] \in Nat
      BY <2>9, <1>0
    <3>1. m \in Nat /\ f[k] \in Nat /\ m <= f[k]
      BY <3>0, <2>11
    <3>2. \A i \in 1..n : f[i] \in Nat
      BY <1>3
    <3>3. \A i \in 1..n : i <= k => f[i] <= f[k]
      BY <2>8, <2>9, <3>1, <3>2, <1>1
    <3> QED
      BY <3>3, <2>4, <2>9
  <2> QED
    BY <2>10, <2>11
<1>5. Bounded(n)
  <2>1. n \notin Bad /\ n <= n
    <3> HIDE DEF Bad
    <3> QED
      BY <1>4, <1>1
  <2> QED
    BY <2>1, <1>1
<1>6. PICK m \in S : \A i \in 1..n : i <= n => f[i] <= m
  BY <1>5
<1>7. \A y \in S : m >= y
  BY <1>6, <1>3, <1>1
<1>8. Max(S) \in S /\ \A y \in S : Max(S) >= y
  BY <1>7 DEF Max
<1> QED
  BY <1>8

\* Every scenario is within the bounds taken over all of them.
LEMMA BoundsHold ==
    /\ MaxGen \in Nat /\ Most("sessions") \in Nat /\ Most("repairs") \in Nat
    /\ \A sc \in Scenarios :
        /\ sc.sessions \in Nat /\ sc.sessions >= 1
        /\ sc.sessions <= Most("sessions")
        /\ sc.repairs \in Nat /\ sc.repairs <= Most("repairs")
<1>1. /\ Scenarios # {} /\ IsFiniteSet(Scenarios)
      /\ \A sc \in Scenarios :
          /\ sc.sessions \in Nat /\ sc.sessions >= 1 /\ sc.repairs \in Nat
          /\ sc.faults \in Nat
  BY ProducerLinkAssumption
<1> DEFINE A == {sc["sessions"] : sc \in Scenarios}
           B == {sc["repairs"] : sc \in Scenarios}
           C == {sc.faults + sc.repairs + sc.sessions : sc \in Scenarios}
<1>2. A \in SUBSET Nat /\ B \in SUBSET Nat /\ C \in SUBSET Nat
  BY <1>1
<1>3. A # {} /\ B # {} /\ C # {}
  BY <1>1
<1>4. IsFiniteSet(A) /\ IsFiniteSet(B) /\ IsFiniteSet(C)
  <2> DEFINE fa == [sc \in Scenarios |-> sc["sessions"]]
             fb == [sc \in Scenarios |-> sc["repairs"]]
             fc == [sc \in Scenarios |-> sc.faults + sc.repairs + sc.sessions]
  <2>1. fa \in Surjection(Scenarios, A)
    BY DEF Surjection
  <2>2. fb \in Surjection(Scenarios, B)
    BY DEF Surjection
  <2>3. fc \in Surjection(Scenarios, C)
    BY DEF Surjection
  <2> HIDE DEF fa, fb, fc, A, B, C
  <2> QED
    BY <2>1, <2>2, <2>3, <1>1, FS_Surjection
<1>5. Max(A) \in Nat /\ Max(B) \in Nat /\ Max(C) \in Nat
  <2> HIDE DEF A, B, C
  <2> QED
    BY <1>2, <1>3, <1>4, LargestExists
<1>6. (\A y \in A : y <= Max(A)) /\ (\A y \in B : y <= Max(B))
  <2> HIDE DEF A, B
  <2> QED
    BY <1>2, <1>3, <1>4, LargestExists
<1>7. \A sc \in Scenarios : sc.sessions \in A /\ sc.repairs \in B
  OBVIOUS
<1>8. Most("sessions") = Max(A) /\ Most("repairs") = Max(B) /\ MaxGen = Max(C)
  BY DEF Most, MaxGen
<1> HIDE DEF A, B, C
<1> QED
  BY <1>1, <1>5, <1>6, <1>7, <1>8

-----------------------------------------------------------------------------
(* Operators of the outbox.                                                *)

\* Acknowledging id removes exactly the entries up to it.
LEMMA RemovedIsPrefix ==
    ASSUME TypeOK, OutboxIsExact, NEW id \in Nat, HighwaterValid(id)
    PROVE  /\ Removed(id) = id - lastAcked
           /\ Removed(id) \in 0..Len(queue)
<1>1. /\ lastAcked \in Nat /\ nextId \in Nat /\ id < nextId /\ id >= lastAcked
      /\ Len(queue) = nextId - 1 - lastAcked /\ queue \in Seq(Entries)
  BY DEF TypeOK, OutboxIsExact, HighwaterValid
<1>2. Len(queue) \in Nat /\ DOMAIN queue = 1..Len(queue)
  BY <1>1
<1>3. id - lastAcked \in Nat /\ id - lastAcked <= Len(queue)
  BY <1>1, <1>2
<1>4. \A j \in DOMAIN queue : queue[j].id = lastAcked + j
  BY DEF OutboxIsExact
<1>5. {i \in DOMAIN queue : \A j \in 1..i : queue[j].id <= id}
        = 1..(id - lastAcked)
  <2>1. ASSUME NEW i \in DOMAIN queue, \A j \in 1..i : queue[j].id <= id
        PROVE  i \in 1..(id - lastAcked)
    <3>1. i \in Nat /\ i \in 1..i
      BY <1>2
    <3>2. queue[i].id <= id /\ queue[i].id = lastAcked + i
      BY <2>1, <3>1, <1>4
    <3> QED
      BY <3>2, <3>1, <1>1, <1>2
  <2>2. ASSUME NEW i \in 1..(id - lastAcked)
        PROVE  i \in DOMAIN queue /\ \A j \in 1..i : queue[j].id <= id
    <3>1. i \in DOMAIN queue
      BY <1>2, <1>3
    <3>2. ASSUME NEW j \in 1..i PROVE queue[j].id <= id
      <4>1. j \in DOMAIN queue /\ j <= id - lastAcked
        BY <3>1, <1>2, <1>3
      <4>2. queue[j].id = lastAcked + j
        BY <4>1, <1>4
      <4> QED
        BY <4>1, <4>2, <1>1, <1>2
    <3> QED
      BY <3>1, <3>2
  <2> QED
    BY <2>1, <2>2
<1>6. Cardinality(1..(id - lastAcked)) = id - lastAcked
  BY <1>3, FS_Interval
<1>7. Removed(id) = id - lastAcked
  BY <1>5, <1>6, Zenon DEF Removed
<1> QED
  BY <1>7, <1>3, <1>2

\* What an acknowledgement leaves of the outbox.
LEMMA OutboxAcknowledged ==
    ASSUME TypeOK, OutboxIsExact, NEW id \in Nat, HighwaterValid(id),
           AcknowledgeOutbox(id)
    PROVE  /\ lastAcked' = id /\ nextId' = nextId
           /\ queue' \in Seq(Entries)
           /\ Len(queue') = nextId - 1 - id
           /\ \A i \in DOMAIN queue' : queue'[i] = queue[i + (id - lastAcked)]
           /\ unsent' \in 0..Len(queue')
           /\ lastAcked' + unsent' =
                IF id - lastAcked < unsent THEN lastAcked + unsent ELSE id
<1>1. /\ lastAcked \in Nat /\ nextId \in Nat /\ id < nextId /\ id >= lastAcked
      /\ Len(queue) = nextId - 1 - lastAcked /\ queue \in Seq(Entries)
      /\ unsent \in 0..Len(queue)
  BY DEF TypeOK, OutboxIsExact, HighwaterValid
<1>2. Removed(id) = id - lastAcked /\ Removed(id) \in 0..Len(queue)
  BY RemovedIsPrefix
<1>3. lastAcked' = id /\ nextId' = nextId
  BY <1>1 DEF AcknowledgeOutbox, Greater
<1>4. queue' = SubSeq(queue, id - lastAcked + 1, Len(queue))
  BY <1>2 DEF AcknowledgeOutbox
<1> DEFINE d == id - lastAcked
<1>5. d \in Nat /\ d <= Len(queue) /\ Len(queue) \in Nat
  BY <1>1, <1>2
<1>6. /\ queue' \in Seq(Entries) /\ Len(queue') = Len(queue) - d
      /\ \A i \in DOMAIN queue' : queue'[i] = queue[i + d]
  <2>1. queue' = SubSeq(queue, d + 1, Len(queue))
    BY <1>4
  <2> HIDE DEF d
  <2>2. Len(queue') = Len(queue) - d
    BY <2>1, <1>5, <1>1
  <2>3. \A i \in 1..Len(queue') : queue'[i] = queue[i + d]
    BY <2>1, <2>2, <1>5, <1>1
  <2>4. queue' = [i \in 1..(Len(queue) - d) |-> queue[i + d]]
    BY <2>1, <1>5, <1>1
  <2>5. \A i \in 1..(Len(queue) - d) : queue[i + d] \in Entries
    BY <1>1, <1>5
  <2>6. queue' \in Seq(Entries)
    BY <2>4, <2>5, <1>5, SeqDef
  <2> QED
    BY <2>2, <2>3, <2>6
<1>7. unsent' = IF d < unsent THEN unsent - d ELSE 0
  BY <1>2 DEF AcknowledgeOutbox, CursorAfter
<1> HIDE DEF d
<1>8. unsent' \in 0..Len(queue')
  BY <1>7, <1>6, <1>5, <1>1
<1>9. lastAcked' + unsent' = IF d < unsent THEN lastAcked + unsent ELSE id
  <2>1. d = id - lastAcked
    BY DEF d
  <2> QED
    BY <1>7, <1>3, <1>1, <2>1
<1>10. d = id - lastAcked
  BY DEF d
<1>11. Len(queue') = nextId - 1 - id
  BY <1>1, <1>5, <1>6, <1>10
<1>12. \A i \in DOMAIN queue' : queue'[i] = queue[i + (id - lastAcked)]
  BY <1>6, <1>10
<1> QED
  BY <1>3, <1>6, <1>8, <1>9, <1>10, <1>11, <1>12

-----------------------------------------------------------------------------
(* Operators on the answers of a connection.                               *)

\* The answers of the pieces are answers.
LEMMA StreamType ==
    ASSUME TypeOK, HandsFull, NEW g \in Gens
    PROVE  /\ Held(g) \in Seq(Replies) /\ Coming(g) \in Seq(Replies)
           /\ toClient[g] \in Seq(Replies) /\ Stream(g) \in Seq(Replies)
           /\ results[g] \in Seq(Replies) /\ outgoing[g] \in Seq(Replies)
<1>1. /\ toClient[g] \in Seq(Replies) /\ results[g] \in Seq(Replies)
      /\ outgoing[g] \in Seq(Replies)
  BY DEF TypeOK
<1>2. <<>> \in Seq(Replies)
  OBVIOUS
<1>3. Held(g) \in Seq(Replies)
  <2>1. rpc[g] = "holding" => hand[g] \in Replies
    BY DEF HandsFull, Sendable
  <2>2. \A x \in Replies : <<x>> \in Seq(Replies)
    OBVIOUS
  <2> QED
    BY <1>2, <2>1, <2>2 DEF Held
<1>4. Coming(g) \in Seq(Replies)
  BY <1>1, <1>2 DEF Coming
<1> QED
  BY <1>1, <1>3, <1>4 DEF Stream

\* The reply a reader holds is the first of its stream.
LEMMA HeldIsFirst ==
    ASSUME TypeOK, HandsFull, NEW g \in Gens, rpc[g] = "holding"
    PROVE  /\ Stream(g) # <<>> /\ Stream(g)[1] = hand[g]
           /\ Tail(Stream(g)) = toClient[g] \o Coming(g)
           /\ hand[g] \in Replies
<1>1. Held(g) = <<hand[g]>> /\ hand[g] \in Replies
  BY DEF Held, HandsFull, Sendable
<1>2. toClient[g] \in Seq(Replies) /\ Coming(g) \in Seq(Replies)
  BY StreamType
<1>3. PICK x, t, c : x = hand[g] /\ t = toClient[g] /\ c = Coming(g)
  OBVIOUS
<1>4. x \in Replies /\ t \in Seq(Replies) /\ c \in Seq(Replies)
  BY <1>1, <1>2, <1>3
<1>5. /\ <<x>> \o t \o c # <<>> /\ (<<x>> \o t \o c)[1] = x
      /\ Tail(<<x>> \o t \o c) = t \o c
  <2>1. t \o c \in Seq(Replies) /\ <<x>> \in Seq(Replies)
    BY <1>4
  <2>2. <<x>> \o t \o c = <<x>> \o (t \o c)
    BY <1>4, <2>1, ConcatAssociative
  <2>3. PICK q : q = t \o c
    OBVIOUS
  <2>4. q \in Seq(Replies)
    BY <2>1, <2>3
  <2>5. <<x>> \o q # <<>> /\ Head(<<x>> \o q) = x /\ Tail(<<x>> \o q) = q
    BY <2>4, <1>4
  <2>6. (<<x>> \o q)[1] = x
    BY <2>4, <1>4
  <2> QED
    BY <2>2, <2>3, <2>5, <2>6
<1> QED
  BY <1>1, <1>3, <1>5 DEF Stream

\* An acknowledgement is taken off the front.
LEMMA SoundTail ==
    ASSUME NEW q \in Seq(Replies), NEW low \in Nat, Sound(q, low), q # <<>>,
           q[1].kind = "ack"
    PROVE  Sound(Tail(q), q[1].id) /\ (HasStop(Tail(q)) <=> HasStop(q))
<1> DEFINE t == Tail(q)
<1>1. /\ t \in Seq(Replies) /\ Len(t) = Len(q) - 1 /\ Len(q) \in Nat
      /\ Len(q) >= 1 /\ DOMAIN q = 1..Len(q) /\ DOMAIN t = 1..Len(t)
      /\ \A i \in 1..Len(t) : t[i] = q[i + 1]
  OBVIOUS
<1> HIDE DEF t
<1>2. \A i \in DOMAIN t : i + 1 \in DOMAIN q /\ 1 < i + 1 /\ 1 \in DOMAIN q
  BY <1>1
<1>3. \A i \in DOMAIN q : q[i].kind \in Stops => i # 1
  BY DEF Stops, Refusals
<1>4. \A i \in DOMAIN q : i # 1 => i - 1 \in DOMAIN t /\ t[i - 1] = q[i]
  <2> SUFFICES ASSUME NEW i \in DOMAIN q, i # 1
               PROVE  i - 1 \in DOMAIN t /\ t[i - 1] = q[i]
    OBVIOUS
  <2>1. i - 1 \in 1..Len(t) /\ i - 1 + 1 = i
    BY <1>1
  <2> QED
    BY <2>1, <1>1
<1>5. HasStop(t) <=> HasStop(q)
  BY <1>1, <1>2, <1>3, <1>4 DEF HasStop
<1>6. ASSUME NEW i \in DOMAIN t
      PROVE  /\ t[i].kind \in {"ack", "unexpected"} \cup Stops
             /\ t[i].kind = "ack" => t[i].id >= q[1].id
             /\ t[i].kind \in Refusals => t[i].id > q[1].id
             /\ t[i].kind = "unexpected" =>
                 \E j \in DOMAIN t : j < i /\ t[j].kind \in Stops
  <2>1. t[i] = q[i + 1] /\ i + 1 \in DOMAIN q /\ 1 < i + 1 /\ 1 \in DOMAIN q
    BY <1>1, <1>2
  <2>2. q[1].id \in Nat /\ q[i + 1].id \in Nat
    <3>1. q[1] \in Replies /\ q[i + 1] \in Replies
      BY <2>1, <1>1
    <3> QED
      BY <3>1 DEF Replies
  <2>3. /\ t[i].kind \in {"ack", "unexpected"} \cup Stops
        /\ t[i].kind = "ack" => t[i].id >= q[1].id
        /\ t[i].kind \in Refusals => t[i].id > q[1].id
    BY <2>1, <2>2 DEF Sound
  <2>4. ASSUME t[i].kind = "unexpected"
        PROVE  \E j \in DOMAIN t : j < i /\ t[j].kind \in Stops
    <3>1. PICK j \in DOMAIN q : j < i + 1 /\ q[j].kind \in Stops
      BY <2>1, <2>4 DEF Sound
    <3>2. j - 1 \in DOMAIN t /\ t[j - 1] = q[j] /\ j - 1 < i
      BY <3>1, <1>3, <1>4, <1>1
    <3> QED
      BY <3>1, <3>2
  <2> QED
    BY <2>3, <2>4
<1>7. ASSUME NEW i \in DOMAIN t, NEW j \in DOMAIN t, i < j, t[i].kind = "ack"
      PROVE  /\ t[j].kind = "ack" => t[i].id <= t[j].id
             /\ t[j].kind \in Refusals => t[i].id < t[j].id
  <2>1. i + 1 < j + 1
    BY <1>7, <1>1
  <2>2. t[i] = q[i + 1] /\ t[j] = q[j + 1]
        /\ i + 1 \in DOMAIN q /\ j + 1 \in DOMAIN q
    BY <1>1, <1>2
  <2> QED
    BY <2>1, <2>2, <1>7 DEF Sound
<1> QED
  BY <1>5, <1>6, <1>7 DEF Sound, t

\* r may be the next answer after q.
Continues(q, low, r) ==
    /\ r.kind \in {"ack", "unexpected"} \cup Stops
    /\ r.kind = "ack" =>
        /\ r.id >= low
        /\ \A i \in DOMAIN q : q[i].kind = "ack" => q[i].id <= r.id
    /\ r.kind \in Refusals =>
        /\ r.id > low
        /\ \A i \in DOMAIN q : q[i].kind = "ack" => q[i].id < r.id
    /\ r.kind = "unexpected" => HasStop(q)

\* One more answer arrives at the end.
LEMMA SoundAppend ==
    ASSUME NEW q \in Seq(Replies), NEW low \in Nat, NEW r \in Replies,
           Sound(q, low), Continues(q, low, r)
    PROVE  /\ Sound(Append(q, r), low)
           /\ HasStop(Append(q, r)) <=> HasStop(q) \/ r.kind \in Stops
<1> DEFINE t == Append(q, r)
<1>1. /\ t \in Seq(Replies) /\ Len(t) = Len(q) + 1 /\ Len(q) \in Nat
      /\ DOMAIN q = 1..Len(q) /\ DOMAIN t = 1..Len(t)
      /\ \A i \in 1..Len(q) : t[i] = q[i]
      /\ t[Len(q) + 1] = r
  OBVIOUS
<1> HIDE DEF t
<1>2. \A i \in DOMAIN t : i \in DOMAIN q \/ i = Len(q) + 1
  BY <1>1
<1>3. \A i \in DOMAIN q : i \in DOMAIN t /\ i < Len(q) + 1 /\ t[i] = q[i]
  BY <1>1
<1>4. Len(q) + 1 \in DOMAIN t
  BY <1>1
<1>5. HasStop(t) <=> HasStop(q) \/ r.kind \in Stops
  BY <1>1, <1>2, <1>3, <1>4 DEF HasStop
<1>6. ASSUME NEW i \in DOMAIN t
      PROVE  /\ t[i].kind \in {"ack", "unexpected"} \cup Stops
             /\ t[i].kind = "ack" => t[i].id >= low
             /\ t[i].kind \in Refusals => t[i].id > low
             /\ t[i].kind = "unexpected" =>
                 \E j \in DOMAIN t : j < i /\ t[j].kind \in Stops
  <2>1. CASE i \in DOMAIN q
    BY <2>1, <1>3 DEF Sound
  <2>2. CASE i = Len(q) + 1
    <3>1. t[i] = r
      BY <2>2, <1>1
    <3>2. r.kind = "unexpected" =>
            \E j \in DOMAIN t : j < i /\ t[j].kind \in Stops
      BY <1>3, <2>2 DEF Continues, HasStop
    <3> QED
      BY <3>1, <3>2 DEF Continues
  <2> QED
    BY <2>1, <2>2, <1>2
<1>7. ASSUME NEW i \in DOMAIN t, NEW j \in DOMAIN t, i < j, t[i].kind = "ack"
      PROVE  /\ t[j].kind = "ack" => t[i].id <= t[j].id
             /\ t[j].kind \in Refusals => t[i].id < t[j].id
  <2>1. i \in DOMAIN q
    BY <1>7, <1>1
  <2>2. CASE j \in DOMAIN q
    BY <2>1, <2>2, <1>3, <1>7 DEF Sound
  <2>3. CASE j = Len(q) + 1
    <3>1. t[j] = r /\ t[i] = q[i]
      BY <2>3, <2>1, <1>1
    <3> QED
      BY <3>1, <2>1, <1>7 DEF Continues
  <2> QED
    BY <2>2, <2>3, <1>2
<1> QED
  BY <1>5, <1>6, <1>7 DEF Sound, t

\* Answers are lost, but none that stops the reader of a later one.
LEMMA SoundPart ==
    ASSUME NEW q \in Seq(Replies), NEW t \in Seq(Replies), NEW low \in Nat,
           Sound(q, low), NEW e \in [DOMAIN t -> DOMAIN q],
           \A i, j \in DOMAIN t : i < j => e[i] < e[j],
           \A i \in DOMAIN t : t[i] = q[e[i]],
           \A i \in DOMAIN t : \A k \in DOMAIN q :
                k < e[i] /\ q[k].kind \in Stops =>
                    \E j \in DOMAIN t : j < i /\ e[j] = k
    PROVE  Sound(t, low)
<1>1. ASSUME NEW i \in DOMAIN t
      PROVE  /\ t[i].kind \in {"ack", "unexpected"} \cup Stops
             /\ t[i].kind = "ack" => t[i].id >= low
             /\ t[i].kind \in Refusals => t[i].id > low
             /\ t[i].kind = "unexpected" =>
                 \E j \in DOMAIN t : j < i /\ t[j].kind \in Stops
  <2>1. e[i] \in DOMAIN q /\ t[i] = q[e[i]]
    OBVIOUS
  <2>2. /\ t[i].kind \in {"ack", "unexpected"} \cup Stops
        /\ t[i].kind = "ack" => t[i].id >= low
        /\ t[i].kind \in Refusals => t[i].id > low
    BY <2>1 DEF Sound
  <2>3. ASSUME t[i].kind = "unexpected"
        PROVE  \E j \in DOMAIN t : j < i /\ t[j].kind \in Stops
    <3>1. PICK k \in DOMAIN q : k < e[i] /\ q[k].kind \in Stops
      BY <2>1, <2>3 DEF Sound
    <3>2. PICK j \in DOMAIN t : j < i /\ e[j] = k
      BY <3>1
    <3> QED
      BY <3>1, <3>2
  <2> QED
    BY <2>2, <2>3
<1>2. ASSUME NEW i \in DOMAIN t, NEW j \in DOMAIN t, i < j, t[i].kind = "ack"
      PROVE  /\ t[j].kind = "ack" => t[i].id <= t[j].id
             /\ t[j].kind \in Refusals => t[i].id < t[j].id
  <2>1. e[i] \in DOMAIN q /\ e[j] \in DOMAIN q /\ e[i] < e[j]
    BY <1>2
  <2>2. t[i] = q[e[i]] /\ t[j] = q[e[j]]
    OBVIOUS
  <2> QED
    BY <2>1, <2>2, <1>2 DEF Sound
<1> QED
  BY <1>1, <1>2 DEF Sound

\* The connection is cut off after n answers.
LEMMA SoundPrefix ==
    ASSUME NEW q \in Seq(Replies), NEW low \in Nat, Sound(q, low),
           NEW n \in 0..Len(q)
    PROVE  /\ Sound(SubSeq(q, 1, n), low)
           /\ \A i \in DOMAIN SubSeq(q, 1, n) :
                i \in DOMAIN q /\ SubSeq(q, 1, n)[i] = q[i]
<1> DEFINE t == SubSeq(q, 1, n)
           e == [i \in DOMAIN t |-> i]
<1>1. Len(q) \in Nat /\ DOMAIN q = 1..Len(q) /\ n \in Nat /\ n <= Len(q)
  OBVIOUS
<1>2. \A i \in 1..n : q[i] \in Replies
  BY <1>1
<1>3. t \in Seq(Replies) /\ Len(t) = n
  BY <1>1, <1>2
<1>4. DOMAIN t = 1..n /\ \A i \in 1..n : t[i] = q[i]
  BY <1>1, <1>2, <1>3
<1>5. \A i \in DOMAIN t : i \in DOMAIN q /\ i \in Nat /\ t[i] = q[i]
  BY <1>1, <1>4
<1> HIDE DEF t
<1>6. /\ e \in [DOMAIN t -> DOMAIN q]
      /\ \A i, j \in DOMAIN t : i < j => e[i] < e[j]
      /\ \A i \in DOMAIN t : t[i] = q[e[i]]
  BY <1>5
<1>7. \A i \in DOMAIN t : \A k \in DOMAIN q :
        k < e[i] /\ q[k].kind \in Stops => \E j \in DOMAIN t : j < i /\ e[j] = k
  <2> SUFFICES ASSUME NEW i \in DOMAIN t, NEW k \in DOMAIN q, k < i
               PROVE  k \in DOMAIN t
    OBVIOUS
  <2> QED
    BY <1>1, <1>4
<1> HIDE DEF e
<1>8. Sound(t, low)
  BY <1>3, <1>6, <1>7, SoundPart
<1> QED
  BY <1>5, <1>8 DEF t

\* Where an answer is once one is put in, or left out, after the first n.
Later(n, k) == IF k <= n THEN k ELSE k + 1
Earlier(n, i) == IF i <= n THEN i ELSE i - 1

\* t is q with r put in after its first la answers.
Inserted(a, b, r, la, q, t) ==
    la = Len(a) /\ q = a \o b /\ t = a \o <<r>> \o b

\* Where the answers of q are in t, once r is inserted behind a.
LEMMA InsertedPlaces ==
    ASSUME NEW a \in Seq(Replies), NEW b \in Seq(Replies), NEW r \in Replies,
           NEW la, NEW q, NEW t, Inserted(a, b, r, la, q, t)
    PROVE  /\ la \in Nat /\ q \in Seq(Replies) /\ t \in Seq(Replies)
           /\ la + 1 \in DOMAIN t /\ t[la + 1] = r
           /\ \A i \in DOMAIN t : i # la + 1 =>
                Earlier(la, i) \in DOMAIN q /\ t[i] = q[Earlier(la, i)]
           /\ \A k \in DOMAIN q :
                Later(la, k) \in DOMAIN t /\ t[Later(la, k)] = q[k]
           /\ \A i, j \in DOMAIN t : i < j /\ i # la + 1 /\ j # la + 1 =>
                Earlier(la, i) < Earlier(la, j)
           /\ \A i \in DOMAIN t : i # la + 1 => \A k \in DOMAIN q :
                k < Earlier(la, i) => Later(la, k) < i
           /\ \A i, j \in DOMAIN q : i < j => Later(la, i) < Later(la, j)
           /\ \A i \in DOMAIN t : \A k \in DOMAIN q :
                i < Later(la, k) /\ i # la + 1 =>
                    Earlier(la, i) < k /\ Later(la, Earlier(la, i)) = i
<1> USE DEF Inserted
<1>1. la \in Nat /\ Len(b) \in Nat
  OBVIOUS
<1>2. /\ q \in Seq(Replies) /\ Len(q) = la + Len(b) /\ DOMAIN q = 1..Len(q)
      /\ \A i \in 1..Len(q) : q[i] = IF i <= la THEN a[i] ELSE b[i - la]
  BY ConcatProperties
<1>3. /\ t \in Seq(Replies) /\ Len(t) = la + 1 + Len(b)
      /\ DOMAIN t = 1..Len(t)
      /\ \A i \in 1..Len(t) : t[i] = IF i <= la THEN a[i]
                                     ELSE IF i = la + 1 THEN r
                                     ELSE b[i - la - 1]
  <2>1. PICK c : c = a \o <<r>>
    OBVIOUS
  <2>2. c \in Seq(Replies) /\ Len(c) = la + 1 /\ c[la + 1] = r
        /\ \A i \in 1..la : c[i] = a[i]
    BY <2>1
  <2>3. /\ c \o b \in Seq(Replies) /\ Len(c \o b) = la + 1 + Len(b)
        /\ \A i \in 1..(la + 1 + Len(b)) :
                (c \o b)[i] = IF i <= la + 1 THEN c[i] ELSE b[i - (la + 1)]
    <3>1. /\ c \o b \in Seq(Replies) /\ Len(c \o b) = Len(c) + Len(b)
          /\ \A i \in 1..(Len(c) + Len(b)) :
                (c \o b)[i] = IF i <= Len(c) THEN c[i] ELSE b[i - Len(c)]
      BY <2>2, ConcatProperties
    <3> QED
      BY <3>1, <2>2
  <2>4. t = c \o b
    BY <2>1
  <2>5. \A i \in 1..(la + 1 + Len(b)) :
            t[i] = IF i <= la THEN a[i] ELSE IF i = la + 1 THEN r
                   ELSE b[i - la - 1]
    <3> SUFFICES ASSUME NEW i \in 1..(la + 1 + Len(b))
                 PROVE  t[i] = IF i <= la THEN a[i] ELSE IF i = la + 1 THEN r
                               ELSE b[i - la - 1]
      OBVIOUS
    <3>1. CASE i <= la
      BY <3>1, <2>2, <2>3, <2>4, <1>1
    <3>2. CASE i = la + 1
      BY <3>2, <2>2, <2>3, <2>4, <1>1
    <3>3. CASE i > la + 1
      <4>1. i - (la + 1) = i - la - 1
        BY <1>1
      <4> QED
        BY <3>3, <4>1, <2>3, <2>4, <1>1
    <3> QED
      BY <3>1, <3>2, <3>3, <1>1
  <2> QED
    BY <2>3, <2>4, <2>5
<1>4. \A i \in DOMAIN t : i # la + 1 =>
        Earlier(la, i) \in DOMAIN q /\ t[i] = q[Earlier(la, i)]
  <2> SUFFICES ASSUME NEW i \in DOMAIN t, i # la + 1
               PROVE  Earlier(la, i) \in DOMAIN q /\ t[i] = q[Earlier(la, i)]
    OBVIOUS
  <2>1. CASE i <= la
    BY <2>1, <1>1, <1>2, <1>3 DEF Earlier
  <2>2. CASE ~(i <= la)
    <3>0. i \in Nat /\ i <= la + 1 + Len(b)
      BY <1>1, <1>3
    <3>1. i - 1 \in DOMAIN q /\ ~(i - 1 <= la)
      BY <3>0, <2>2, <1>1, <1>2
    <3>2. (i - 1) - la = i - la - 1
      BY <3>0, <1>1
    <3>3. t[i] = b[i - la - 1] /\ q[i - 1] = b[(i - 1) - la]
      BY <3>1, <2>2, <1>2, <1>3
    <3> QED
      BY <3>1, <3>2, <3>3, <2>2 DEF Earlier
  <2> QED
    BY <2>1, <2>2
<1>5. \A k \in DOMAIN q : Later(la, k) \in DOMAIN t /\ t[Later(la, k)] = q[k]
  <2> SUFFICES ASSUME NEW k \in DOMAIN q
               PROVE  Later(la, k) \in DOMAIN t /\ t[Later(la, k)] = q[k]
    OBVIOUS
  <2>1. CASE k <= la
    BY <2>1, <1>1, <1>2, <1>3 DEF Later
  <2>2. CASE ~(k <= la)
    <3>0. k \in Nat /\ k <= la + Len(b)
      BY <1>1, <1>2
    <3>1. k + 1 \in DOMAIN t /\ ~(k + 1 <= la) /\ k + 1 # la + 1
      BY <3>0, <2>2, <1>1, <1>3
    <3>2. (k + 1) - la - 1 = k - la
      BY <3>0, <1>1
    <3>3. t[k + 1] = b[(k + 1) - la - 1] /\ q[k] = b[k - la]
      BY <3>1, <2>2, <1>2, <1>3
    <3> QED
      BY <3>1, <3>2, <3>3, <2>2 DEF Later
  <2> QED
    BY <2>1, <2>2
<1>6. la + 1 \in DOMAIN t /\ t[la + 1] = r
  BY <1>1, <1>3
<1>7. \A i, j \in DOMAIN t : i < j /\ i # la + 1 /\ j # la + 1 =>
        Earlier(la, i) < Earlier(la, j)
  BY <1>1, <1>3 DEF Earlier
<1>8. \A i \in DOMAIN t : i # la + 1 => \A k \in DOMAIN q :
        k < Earlier(la, i) => Later(la, k) < i
  BY <1>1, <1>2, <1>3 DEF Earlier, Later
<1>9. \A i, j \in DOMAIN q : i < j => Later(la, i) < Later(la, j)
  BY <1>1, <1>2 DEF Later
<1>10. \A i \in DOMAIN t : \A k \in DOMAIN q :
         i < Later(la, k) /\ i # la + 1 =>
            Earlier(la, i) < k /\ Later(la, Earlier(la, i)) = i
  BY <1>1, <1>2, <1>3 DEF Earlier, Later
<1> QED
  BY <1>1, <1>2, <1>3, <1>4, <1>5, <1>6, <1>7, <1>8, <1>9, <1>10

\* A notice that the reader stops at gets ahead of the answers under way.
LEMMA SoundInsert ==
    ASSUME NEW a \in Seq(Replies), NEW b \in Seq(Replies), NEW r \in Replies,
           NEW low \in Nat, Sound(a \o b, low), r.kind = "limited"
    PROVE  Sound(a \o <<r>> \o b, low) /\ HasStop(a \o <<r>> \o b)
<1>1. PICK la, q, t : la = Len(a) /\ q = a \o b /\ t = a \o <<r>> \o b
  OBVIOUS
<1>0. Inserted(a, b, r, la, q, t)
  BY <1>1 DEF Inserted
<1> DEFINE Old(i) == Earlier(la, i)
           New(k) == Later(la, k)
<1>2. /\ la + 1 \in DOMAIN t /\ t[la + 1] = r
      /\ \A i \in DOMAIN t : i # la + 1 =>
            Old(i) \in DOMAIN q /\ t[i] = q[Old(i)]
      /\ \A k \in DOMAIN q : New(k) \in DOMAIN t /\ t[New(k)] = q[k]
      /\ \A i, j \in DOMAIN t : i < j /\ i # la + 1 /\ j # la + 1 =>
            Old(i) < Old(j)
      /\ \A i \in DOMAIN t : i # la + 1 => \A k \in DOMAIN q :
            k < Old(i) => New(k) < i
  BY <1>0, InsertedPlaces
<1>3. HasStop(t)
  BY <1>2 DEF HasStop, Stops
<1> HIDE DEF Old, New
<1>4. Sound(q, low)
  BY <1>1
<1>5. r.kind # "ack" /\ r.kind # "unexpected" /\ r.kind \notin Refusals
       /\ r.kind \in Stops
  BY DEF Refusals, Stops
<1>6. ASSUME NEW i \in DOMAIN t
       PROVE  /\ t[i].kind \in {"ack", "unexpected"} \cup Stops
              /\ t[i].kind = "ack" => t[i].id >= low
              /\ t[i].kind \in Refusals => t[i].id > low
              /\ t[i].kind = "unexpected" =>
                 \E j \in DOMAIN t : j < i /\ t[j].kind \in Stops
  <2>1. CASE i = la + 1
    BY <2>1, <1>2, <1>5
  <2>2. CASE i # la + 1
    <3>1. Old(i) \in DOMAIN q /\ t[i] = q[Old(i)]
      BY <2>2, <1>2
    <3>2. /\ t[i].kind \in {"ack", "unexpected"} \cup Stops
          /\ t[i].kind = "ack" => t[i].id >= low
          /\ t[i].kind \in Refusals => t[i].id > low
      BY <3>1, <1>4 DEF Sound
    <3>3. ASSUME t[i].kind = "unexpected"
          PROVE  \E j \in DOMAIN t : j < i /\ t[j].kind \in Stops
      <4>1. PICK k \in DOMAIN q : k < Old(i) /\ q[k].kind \in Stops
        BY <3>1, <3>3, <1>4 DEF Sound
      <4>2. New(k) \in DOMAIN t /\ t[New(k)] = q[k] /\ New(k) < i
        BY <4>1, <2>2, <1>2
      <4> QED
        BY <4>1, <4>2
    <3> QED
      BY <3>2, <3>3
  <2> QED
    BY <2>1, <2>2
<1>7. ASSUME NEW i \in DOMAIN t, NEW j \in DOMAIN t, i < j, t[i].kind = "ack"
       PROVE  /\ t[j].kind = "ack" => t[i].id <= t[j].id
              /\ t[j].kind \in Refusals => t[i].id < t[j].id
  <2>1. CASE j = la + 1
    BY <2>1, <1>2, <1>5
  <2>2. CASE j # la + 1
    <3>1. i # la + 1
      BY <1>7, <1>2, <1>5
    <3>2. Old(i) \in DOMAIN q /\ Old(j) \in DOMAIN q /\ Old(i) < Old(j)
          /\ t[i] = q[Old(i)] /\ t[j] = q[Old(j)]
      BY <3>1, <2>2, <1>2, <1>7
    <3> QED
      BY <3>2, <1>4, <1>7 DEF Sound
  <2> QED
    BY <2>1, <2>2
<1>8. Sound(t, low)
  BY <1>6, <1>7 DEF Sound
<1> QED
  BY <1>1, <1>3, <1>8

\* An acknowledgement is left out.
LEMMA SoundDrop ==
    ASSUME NEW a \in Seq(Replies), NEW b \in Seq(Replies), NEW r \in Replies,
           NEW low \in Nat, Sound(a \o <<r>> \o b, low), r.kind = "ack"
    PROVE  /\ Sound(a \o b, low)
           /\ HasStop(a \o b) <=> HasStop(a \o <<r>> \o b)
           /\ \A i \in DOMAIN (a \o b) : \E k \in DOMAIN (a \o <<r>> \o b) :
                (a \o b)[i] = (a \o <<r>> \o b)[k]
<1>1. PICK la, q, t : la = Len(a) /\ q = a \o b /\ t = a \o <<r>> \o b
  OBVIOUS
<1>0. Inserted(a, b, r, la, q, t)
  BY <1>1 DEF Inserted
<1> DEFINE Old(i) == Earlier(la, i)
           New(k) == Later(la, k)
<1>2. /\ q \in Seq(Replies) /\ t \in Seq(Replies)
      /\ la + 1 \in DOMAIN t /\ t[la + 1] = r
      /\ \A i \in DOMAIN t : i # la + 1 =>
            Old(i) \in DOMAIN q /\ t[i] = q[Old(i)]
      /\ \A k \in DOMAIN q : New(k) \in DOMAIN t /\ t[New(k)] = q[k]
      /\ \A i, j \in DOMAIN q : i < j => New(i) < New(j)
      /\ \A i \in DOMAIN t : \A k \in DOMAIN q :
            i < New(k) /\ i # la + 1 => Old(i) < k /\ New(Old(i)) = i
  BY <1>0, InsertedPlaces
<1> HIDE DEF Old, New
<1>3. r.kind \notin Stops
  BY DEF Stops, Refusals
<1>4. HasStop(q) <=> HasStop(t)
  BY <1>2, <1>3 DEF HasStop
<1> DEFINE e == [k \in DOMAIN q |-> New(k)]
<1>5. /\ e \in [DOMAIN q -> DOMAIN t]
      /\ \A i, j \in DOMAIN q : i < j => e[i] < e[j]
      /\ \A i \in DOMAIN q : q[i] = t[e[i]]
  BY <1>2
<1>6. \A i \in DOMAIN q : \A k \in DOMAIN t :
        k < e[i] /\ t[k].kind \in Stops => \E j \in DOMAIN q : j < i /\ e[j] = k
  <2> SUFFICES ASSUME NEW i \in DOMAIN q, NEW k \in DOMAIN t, k < e[i],
                      t[k].kind \in Stops
               PROVE  \E j \in DOMAIN q : j < i /\ e[j] = k
    OBVIOUS
  <2>1. k # la + 1 /\ k < New(i)
    BY <1>2, <1>3
  <2>2. Old(k) \in DOMAIN q /\ Old(k) < i /\ New(Old(k)) = k
    BY <2>1, <1>2
  <2> QED
    BY <2>2
<1>7. \A i \in DOMAIN q : \E k \in DOMAIN t : q[i] = t[k]
  BY <1>2
<1> HIDE DEF e
<1>8. Sound(t, low)
  BY <1>1
<1>9. Sound(q, low)
  <2>1. q \in Seq(Replies) /\ t \in Seq(Replies)
    BY <1>2
  <2> QED
    BY <2>1, <1>5, <1>6, <1>8, SoundPart
<1> QED
  BY <1>1, <1>4, <1>7, <1>9

\* Concatenation of answers is associative.
LEMMA RepliesAssociate ==
    \A u, v, w \in Seq(Replies) :
        u \o v \in Seq(Replies) /\ (u \o v) \o w = u \o (v \o w)
BY ConcatAssociative

\* The last answer of p stands between what is before and after it.
LEMMA ConcatMiddle ==
    ASSUME NEW a \in Seq(Replies), NEW p \in Seq(Replies), NEW z \in Replies,
           NEW q \in Seq(Replies)
    PROVE  a \o (Append(p, z) \o q) = (a \o p) \o <<z>> \o q
<1>1. PICK v \in Seq(Replies) : v = Append(p, z)
  BY AppendProperties
<1>2. v = p \o <<z>> /\ <<z>> \in Seq(Replies)
  BY <1>1, AppendIsConcat
<1>3. (a \o v) \o q = a \o (v \o q)
  BY RepliesAssociate
<1>4. (a \o p) \o <<z>> = a \o (p \o <<z>>)
  BY <1>2, RepliesAssociate
<1> QED
  BY <1>1, <1>2, <1>3, <1>4

\* Answers that are handed on from one queue to the next stay in order.
LEMMA AnswersMove ==
    ASSUME NEW h \in Seq(Replies), NEW t \in Seq(Replies),
           NEW o \in Seq(Replies), NEW r \in Seq(Replies), NEW x \in Replies
    PROVE  /\ t # <<>> => <<Head(t)>> \o Tail(t) \o o = <<>> \o t \o o
           /\ h \o (t \o o) \o (<<>> \o r) = h \o t \o (o \o r)
           /\ r # <<>> => Append(o, Head(r)) \o Tail(r) = o \o r
           /\ h \o t \o (o \o Append(r, x)) = Append(h \o t \o (o \o r), x)
           /\ h \o Append(t, x) \o o = (h \o t) \o <<x>> \o o
<1>0. <<>> \in Seq(Replies) /\ <<x>> \in Seq(Replies)
  OBVIOUS
<1>1. ASSUME NEW s \in Seq(Replies), s # <<>>
      PROVE  <<Head(s)>> \o Tail(s) = s /\ Head(s) \in Replies
             /\ Tail(s) \in Seq(Replies)
  <2>1. Head(s) \in Replies /\ Tail(s) \in Seq(Replies)
        /\ <<Head(s)>> \in Seq(Replies)
    BY <1>1
  <2>2. Len(<<Head(s)>> \o Tail(s)) = Len(s)
    BY <1>1, <2>1
  <2>3. \A i \in 1..Len(s) : (<<Head(s)>> \o Tail(s))[i] = s[i]
    BY <1>1, <2>1
  <2>4. <<Head(s)>> \o Tail(s) \in Seq(Replies)
    BY <2>1
  <2> QED
    BY <2>1, <2>2, <2>3, <2>4, SeqEqual
<1>2. t # <<>> => <<Head(t)>> \o Tail(t) \o o = <<>> \o t \o o
  BY <1>1, ConcatEmptySeq
<1>3. h \o (t \o o) \o (<<>> \o r) = h \o t \o (o \o r)
  <2>1. <<>> \o r = r
    BY ConcatEmptySeq
  <2>2. t \o o \in Seq(Replies) /\ o \o r \in Seq(Replies)
    OBVIOUS
  <2>3. h \o (t \o o) \o r = h \o ((t \o o) \o r)
    BY <2>2, RepliesAssociate
  <2>4. (t \o o) \o r = t \o (o \o r)
    BY RepliesAssociate
  <2>5. (h \o t) \o (o \o r) = h \o (t \o (o \o r))
    <3>1. PICK c \in Seq(Replies) : c = o \o r
      BY <2>2
    <3>2. (h \o t) \o c = h \o (t \o c)
      BY RepliesAssociate
    <3> QED
      BY <3>1, <3>2
  <2> QED
    BY <2>1, <2>3, <2>4, <2>5
<1>4. r # <<>> => Append(o, Head(r)) \o Tail(r) = o \o r
  <2> SUFFICES ASSUME r # <<>> PROVE Append(o, Head(r)) \o Tail(r) = o \o r
    OBVIOUS
  <2>1. <<Head(r)>> \o Tail(r) = r /\ Head(r) \in Replies
        /\ Tail(r) \in Seq(Replies)
    BY <1>1
  <2>2. Append(o, Head(r)) = o \o <<Head(r)>> /\ <<Head(r)>> \in Seq(Replies)
    BY <2>1, AppendIsConcat
  <2>3. (o \o <<Head(r)>>) \o Tail(r) = o \o (<<Head(r)>> \o Tail(r))
    BY <2>1, <2>2, RepliesAssociate
  <2> QED
    BY <2>1, <2>2, <2>3
<1>5. h \o t \o (o \o Append(r, x)) = Append(h \o t \o (o \o r), x)
  <2>1. Append(r, x) = r \o <<x>> /\ h \o t \in Seq(Replies)
        /\ o \o r \in Seq(Replies)
    BY AppendIsConcat
  <2>2. o \o (r \o <<x>>) = (o \o r) \o <<x>>
    BY <1>0, RepliesAssociate
  <2>3. (h \o t) \o ((o \o r) \o <<x>>) = ((h \o t) \o (o \o r)) \o <<x>>
    BY <1>0, <2>1, RepliesAssociate
  <2>4. (h \o t) \o (o \o r) \in Seq(Replies)
    BY <2>1
  <2>5. Append((h \o t) \o (o \o r), x) = ((h \o t) \o (o \o r)) \o <<x>>
    BY <2>4, AppendIsConcat
  <2> QED
    BY <2>1, <2>2, <2>3, <2>5
<1>6. h \o Append(t, x) \o o = (h \o t) \o <<x>> \o o
  <2>1. Append(t, x) = t \o <<x>>
    BY AppendIsConcat
  <2>2. h \o (t \o <<x>>) = (h \o t) \o <<x>>
    BY <1>0, RepliesAssociate
  <2> QED
    BY <2>1, <2>2
<1> QED
  BY <1>2, <1>3, <1>4, <1>5, <1>6

\* The last answer x of o gives way to the first of r.
GivesWay(h, t, o, r, a, x) ==
    /\ x = o[Len(o)]
    /\ h \o t \o (o \o r) = a \o <<x>> \o r
    /\ h \o t \o ([o EXCEPT ![Len(o)] = Head(r)] \o Tail(r)) = a \o r

\* Coalescing two acknowledgements leaves the first of them out.
LEMMA AnswersCoalesce ==
    ASSUME NEW h \in Seq(Replies), NEW t \in Seq(Replies),
           NEW o \in Seq(Replies), NEW r \in Seq(Replies),
           o # <<>>, r # <<>>
    PROVE  \E a \in Seq(Replies), x \in Replies : GivesWay(h, t, o, r, a, x)
<1> DEFINE y == Head(r)
           o2 == [o EXCEPT ![Len(o)] = y]
           s == Tail(r)
<1>1. y \in Replies /\ s \in Seq(Replies)
  OBVIOUS
<1>2. PICK p \in Seq(Replies), x \in Replies : o = Append(p, x)
  BY SequenceEmptyOrAppend
<1>3. Len(o) = Len(p) + 1 /\ o[Len(o)] = x /\ Len(p) \in Nat
      /\ \A i \in 1..Len(p) : o[i] = p[i]
  BY <1>2
<1>4. o2 = Append(p, y)
  <2>1. o2 \in Seq(Replies) /\ Len(o2) = Len(o) /\ o2[Len(o)] = y
        /\ \A i \in 1..Len(o) : i # Len(o) => o2[i] = o[i]
    BY <1>1, <1>3, ExceptSeq
  <2>2. Append(p, y) \in Seq(Replies) /\ Len(Append(p, y)) = Len(p) + 1
        /\ Append(p, y)[Len(p) + 1] = y
        /\ \A i \in 1..Len(p) : Append(p, y)[i] = p[i]
    BY <1>1
  <2> HIDE DEF o2, y
  <2>3. \A i \in 1..Len(o2) : o2[i] = Append(p, y)[i]
    BY <2>1, <2>2, <1>3
  <2> QED
    BY <2>1, <2>2, <2>3, <1>3, SeqEqual
<1>5. r = <<y>> \o s
  <2>1. <<>> \in Seq(Replies)
    OBVIOUS
  <2>2. Append(<<>>, y) \o s = <<>> \o r
    BY <2>1, <1>1, AnswersMove
  <2>3. Append(<<>>, y) = <<y>> /\ <<>> \o r = r
    BY ConcatEmptySeq
  <2> QED
    BY <2>2, <2>3
<1> HIDE DEF y, o2, s
<1> DEFINE a == (h \o t) \o p
<1>6. a \in Seq(Replies) /\ h \o t \in Seq(Replies) /\ <<x>> \in Seq(Replies)
      /\ <<y>> \in Seq(Replies)
  BY <1>1
<1>7. \A z \in Replies, q \in Seq(Replies) :
        (h \o t) \o (Append(p, z) \o q) = a \o <<z>> \o q
  BY <1>6, ConcatMiddle
<1>8. (h \o t) \o (o \o r) = a \o <<x>> \o r
  BY <1>2, <1>7
<1>9. (h \o t) \o (o2 \o s) = a \o <<y>> \o s
  BY <1>1, <1>4, <1>7
<1>10. a \o <<y>> \o s = a \o r
  BY <1>1, <1>5, <1>6, RepliesAssociate
<1> HIDE DEF a
<1>11. x = o[Len(o)] /\ (h \o t) \o (o2 \o s) = a \o r
  BY <1>3, <1>9, <1>10
<1> QED
  BY <1>6, <1>8, <1>11 DEF o2, y, s, GivesWay

-----------------------------------------------------------------------------
(* The actions.                                                            *)

\* The payloads an application submits are within the bounds.
LEMMA PayloadsBounded ==
    ASSUME TypeOK, NEW k \in scenario.kinds
    PROVE  /\ [kind |-> k, rev |-> 0] \in Payloads
           /\ repairs < scenario.repairs =>
                [kind |-> k, rev |-> repairs + 1] \in Payloads
<1>1. scenario \in Scenarios /\ repairs \in Nat /\ repairs >= 0
  BY DEF TypeOK
<1>2. scenario.repairs \in Nat /\ scenario.repairs <= Most("repairs")
      /\ Most("repairs") \in Nat
  BY <1>1, BoundsHold
<1>3. k \in UNION {s.kinds : s \in Scenarios}
  BY <1>1
<1>4. 0 \in 0..Most("repairs")
      /\ (repairs < scenario.repairs => repairs + 1 \in 0..Most("repairs"))
  BY <1>1, <1>2
<1> QED
  BY <1>3, <1>4 DEF Payloads

\* A step is one of these.
LEMMA StepCases ==
    ASSUME TypeOK, Next
    PROVE  \/ BeginConnection \/ AttemptFails \/ AcceptHello \/ Publish
           \/ ReplayNext \/ ReplayDone \/ ReplayFails
           \/ FinishSend \/ SendRaises
           \/ WriterClaim \/ WriterSend \/ WriterRaises
           \/ \E p \in Payloads :
                \/ SendEvents(p)
                \/ RepairRejectedTransaction(p)
           \/ AbandonRejectedSession \/ CancelConnect \/ Disconnect
           \/ \E g \in Gens :
                \/ ServeError(g) \/ ServeLimited(g) \/ Break(g)
                \/ ReceiveResult(g) \/ ReceiveRaises(g) \/ ApplyResult(g)
                \/ ApplyLimited(g) \/ CloseReader(g)
                \/ ServeHello(g) \/ ServeTxn(g) \/ ResolveResult(g)
                \/ SendResults(g)
           \/ Restart \/ EditGraph
<1>1. CASE Connect
  BY <1>1 DEF Connect
<1>2. CASE Send
  BY <1>2 DEF Send
<1>3. CASE Application
  <2>1. CASE \E k \in scenario.kinds : SendEvents([kind |-> k, rev |-> 0])
    BY <2>1, PayloadsBounded
  <2>2. CASE \E k \in scenario.kinds :
                RepairRejectedTransaction([kind |-> k, rev |-> repairs + 1])
    <3>1. PICK k \in scenario.kinds :
                RepairRejectedTransaction([kind |-> k, rev |-> repairs + 1])
      BY <2>2
    <3>2. repairs < scenario.repairs
      BY <3>1 DEF RepairRejectedTransaction
    <3> QED
      BY <3>1, <3>2, PayloadsBounded
  <2>3. CASE AbandonRejectedSession \/ CancelConnect \/ Disconnect
    BY <2>3
  <2> QED
    BY <1>3, <2>1, <2>2, <2>3 DEF Application
<1>4. CASE Environment
  BY <1>4 DEF Environment
<1>5. CASE \E g \in Gens : Read(g) \/ Serve(g)
  BY <1>5 DEF Read, Serve
<1> QED
  BY <1>1, <1>2, <1>3, <1>4, <1>5 DEF Next

\* The hello's answer is neither ahead of the outbox nor behind it.
LEMMA HelloAccepted ==
    ASSUME LinkInv, AcceptHello
    PROVE  \E id \in Nat :
             /\ HighwaterValid(id) /\ id <= committed[session]
             /\ AcknowledgeOutbox(id)
             /\ phase' = "ready" /\ attempt' = "accepted"
             /\ toClient' = [toClient EXCEPT ![gen] = Tail(@)]
             /\ Len(toClient[gen]) = 1 /\ toServer[gen] = <<>>
             /\ checkpoint' = 0
             /\ UNCHANGED <<recovery, record, link, gen, identity, sock, live,
                            senders, reader, toServer, handler, server,
                            versions, bounds>>
<1>1. /\ attempt = "hello" /\ toClient[gen] # <<>>
      /\ gen \in Gens /\ session \in Sessions
  BY DEF AcceptHello, LinkInv, Attempting, TypeOK
<1>2. /\ toServer[gen] = <<>> /\ Len(toClient[gen]) = 1
      /\ toClient[gen][1].id \in lastAcked..committed[session]
  BY <1>1 DEF LinkInv, Attempting
<1>3. PICK id : id = toClient[gen][1].id
  OBVIOUS
<1>4. Head(toClient[gen]).id = id
  <2>1. toClient[gen] \in Seq(Replies)
    BY <1>1 DEF LinkInv, TypeOK
  <2> QED
    BY <2>1, <1>2, <1>3
<1>5. /\ lastAcked \in Nat /\ committed[session] \in Nat /\ nextId \in Nat
      /\ committed[session] <= nextId - 1
  <2>1. /\ lastAcked \in Nat /\ committed[session] \in Nat /\ nextId \in Nat
    BY <1>1 DEF LinkInv, TypeOK
  <2>2. /\ committed[session] <= Len(versions[session])
        /\ Len(versions[session]) = nextId - 1
    BY <1>1 DEF LinkInv, HistoryIsExact, OutboxIsExact
  <2> QED
    BY <2>1, <2>2
<1>6. id \in Nat /\ HighwaterValid(id) /\ id <= committed[session]
  BY <1>2, <1>3, <1>5 DEF HighwaterValid
<1>7. AcceptHighwater(id) /\ attempt' = "accepted"
      /\ toClient' = [toClient EXCEPT ![gen] = Tail(@)]
      /\ UNCHANGED <<record, link>>
  BY <1>4, <1>6 DEF AcceptHello
<1>8. AcknowledgeOutbox(id) /\ phase' = "ready" /\ UNCHANGED recovery
  BY <1>6, <1>7 DEF AcceptHighwater
<1>9. /\ checkpoint' = 0
      /\ UNCHANGED <<gen, identity, sock, live, senders, reader, toServer,
                     handler, server, versions, bounds>>
  BY DEF AcceptHello, ForgetCheckpoint
<1> QED
  BY <1>2, <1>6, <1>7, <1>8, <1>9

\* A reply is ignored, acknowledges a part of the outbox or refuses one of
\* its entries.
LEMMA ResultApplied ==
    ASSUME LinkInv, NEW g \in Gens, ApplyResult(g)
    PROVE  /\ rpc[g] = "holding" /\ hand' = [hand EXCEPT ![g] = None]
           /\ UNCHANGED <<gen, identity, sock, connecting, senders, network,
                          handler, server, versions, bounds>>
           /\ \/ /\ sock # g /\ rpc' = [rpc EXCEPT ![g] = "waiting"]
                 /\ UNCHANGED <<phase, outbox, recovery, record, checkpoint,
                                acked>>
              \/ /\ sock = g /\ rpc' = [rpc EXCEPT ![g] = "waiting"]
                 /\ hand[g] \in Replies /\ hand[g].kind = "ack"
                 /\ HighwaterValid(hand[g].id)
                 /\ hand[g].id <= committed[session]
                 /\ AcknowledgeOutbox(hand[g].id)
                 /\ checkpoint' = hand[g].head /\ failure = None
                 /\ UNCHANGED <<phase, recovery, record>>
              \/ /\ sock = g /\ rpc' = [rpc EXCEPT ![g] = "closing"]
                 /\ hand[g] \in Replies /\ hand[g].kind \in Refusals
                 /\ hand[g].id > lastAcked /\ hand[g].id < nextId
                 /\ EnterRecovery(hand[g].id, DispositionOf(hand[g].kind))
                 /\ RecordFailure([id |-> hand[g].id, disposition |->
                                    DispositionOf(hand[g].kind)])
                 /\ UNCHANGED <<queue, nextId, lastAcked, acked, checkpoint>>
<1>1. /\ rpc[g] = "holding" /\ hand[g].kind # "limited"
      /\ hand' = [hand EXCEPT ![g] = None]
      /\ UNCHANGED <<gen, identity, sock, connecting, senders, network,
                     handler, server, versions, bounds>>
  BY DEF ApplyResult
<1>2. CASE sock # g
  BY <1>1, <1>2 DEF ApplyResult, CurrentGeneration
<1>3. CASE sock = g
  <2>1. TypeOK /\ HandsFull /\ session \in Sessions
    BY DEF LinkInv, TypeOK
  <2>2. 0 \notin Gens
    BY BoundsHold DEF Gens
  <2>3. Listening
    BY <1>1, <1>3, <2>2 DEF Listening
  <2>4. failure = None
    BY <1>1, <1>3, <2>2 DEF LinkInv, Recovering
  <2>5. Stream(g) # <<>> /\ Stream(g)[1] = hand[g] /\ hand[g] \in Replies
        /\ Stream(g) \in Seq(Replies)
    BY <1>1, <2>1, HeldIsFirst, StreamType
  <2>6. 1 \in DOMAIN Stream(g)
    BY <2>5
  <2>7. Sound(Stream(g), lastAcked) /\ Backed(hand[g])
    BY <1>3, <2>3, <2>5, <2>6 DEF LinkInv, AnswersInOrder
  <2>8. /\ hand[g].kind \in {"ack", "unexpected"} \cup Stops
        /\ hand[g].kind = "ack" => hand[g].id >= lastAcked
        /\ hand[g].kind \in Refusals => hand[g].id > lastAcked
        /\ hand[g].kind # "unexpected"
    <3>1. \A j \in DOMAIN Stream(g) : ~(j < 1)
      BY <2>5
    <3> QED
      BY <2>5, <2>6, <2>7, <3>1 DEF Sound
  <2>9. CASE hand[g].kind = "ack"
    <3>1. hand[g].id <= committed[session] /\ hand[g].id >= lastAcked
          /\ hand[g].id \in Nat
      BY <2>5, <2>7, <2>8, <2>9 DEF Backed, Replies
    <3>2. /\ committed[session] \in Nat /\ nextId \in Nat
          /\ committed[session] <= Len(versions[session])
          /\ Len(versions[session]) = nextId - 1
      BY <2>1 DEF LinkInv, TypeOK, HistoryIsExact, OutboxIsExact
    <3>3. HighwaterValid(hand[g].id)
      BY <3>1, <3>2 DEF HighwaterValid
    <3>4. Acknowledged(hand[g])
      BY <1>3, <2>9 DEF ApplyResult, CurrentGeneration
    <3>5. /\ AcknowledgeOutbox(hand[g].id) /\ checkpoint' = hand[g].head
          /\ UNCHANGED <<phase, recovery, record>>
      BY <3>3, <3>4 DEF Acknowledged, AcknowledgeThrough
    <3>6. failure' = None
      BY <3>5, <2>4 DEF record
    <3>7. rpc' = [rpc EXCEPT ![g] = "waiting"]
      BY <1>3, <3>6 DEF ApplyResult, CurrentGeneration
    <3> QED
      BY <1>1, <1>3, <2>4, <2>5, <2>9, <3>1, <3>3, <3>5, <3>7
  <2>10. CASE hand[g].kind # "ack"
    <3>1. Rejected(hand[g])
      BY <1>3, <2>10 DEF ApplyResult, CurrentGeneration
    <3>2. /\ Reject(hand[g].id, DispositionOf(hand[g].kind))
          /\ RecordFailure(FailureOf(hand[g]))
          /\ UNCHANGED <<queue, nextId, lastAcked, acked, checkpoint>>
      BY <3>1 DEF Rejected
    <3>3. hand[g].kind \in Refusals
      <4>1. hand[g].kind # "error"
        BY <1>1 DEF LinkInv, HandsFull, Sendable
      <4> QED
        BY <1>1, <2>8, <2>10, <4>1 DEF Stops
    <3>4. /\ hand[g].id > lastAcked /\ hand[g].id < nextId /\ hand[g].id \in Nat
          /\ lastAcked \in Nat /\ nextId \in Nat
      BY <2>1, <2>5, <2>7, <2>8, <3>3 DEF Backed, Replies, TypeOK
    <3>5. Contains(hand[g].id)
      <4>1. PICK i : i = hand[g].id - lastAcked
        OBVIOUS
      <4>2. /\ queue \in Seq(Entries) /\ Len(queue) = nextId - 1 - lastAcked
            /\ \A k \in DOMAIN queue : queue[k].id = lastAcked + k
        BY DEF LinkInv, TypeOK, OutboxIsExact
      <4>3. i \in 1..Len(queue) /\ lastAcked + i = hand[g].id
        <5>1. PICK id : id = hand[g].id
          OBVIOUS
        <5>2. Len(queue) = nextId - 1 - lastAcked
          BY <4>2
        <5> QED
          BY <3>4, <4>1, <5>1, <5>2
      <4> QED
        BY <4>2, <4>3 DEF Contains
    <3>6. EnterRecovery(hand[g].id, DispositionOf(hand[g].kind))
      BY <3>2, <3>5 DEF Reject
    <3>7. RecordFailure([id |-> hand[g].id,
                         disposition |-> DispositionOf(hand[g].kind)])
      BY <3>2, <3>5 DEF FailureOf
    <3>8. failure' # None
      <4>1. DispositionOf(hand[g].kind) \in {"conflict", "invalid", "fatal"}
        BY <3>3 DEF DispositionOf, Refusals
      <4> QED
        BY <3>4, <3>7, <4>1, NoneAssumption DEF RecordFailure
    <3>9. rpc' = [rpc EXCEPT ![g] = "closing"]
      BY <1>3, <3>8 DEF ApplyResult, CurrentGeneration
    <3> QED
      BY <1>1, <1>3, <2>5, <3>2, <3>3, <3>4, <3>6, <3>7, <3>9
  <2> QED
    BY <2>9, <2>10
<1> QED
  BY <1>2, <1>3

\* A send that raises closes the connection it was made on.
LEMMA SendRaised ==
    ASSUME SendRaises
    PROVE  \E c : /\ c = caller.g /\ Close(c) /\ caller # None /\ caller' = None
                  /\ UNCHANGED <<gen, queue, nextId, lastAcked, recovery,
                                 identity, record, checkpoint, connecting,
                                 reader, toServer, handler, server, history,
                                 bounds>>
BY DEF SendRaises

-----------------------------------------------------------------------------
(* Types.                                                                  *)

NativeTypes ==
    /\ phase \in {"disconnected", "awaiting", "ready", "recovery"}
    /\ gen \in Nat
    /\ queue \in Seq(Entries) /\ unsent \in 0..Len(queue)
    /\ nextId \in Nat /\ lastAcked \in Nat /\ rejectedId \in Nat
    /\ disposition \in {"none", "conflict", "invalid", "fatal"}

SenderTypes ==
    /\ sock \in Gens \cup {0} /\ session \in Sessions /\ checkpoint \in Nat
    /\ artifact \in Seq(Entries)
    /\ failure \in [id : Nat, disposition : {"conflict", "invalid", "fatal"}]
                   \cup {None}
    /\ attempt \in {"idle", "hello", "accepted", "replay"}
    /\ live \in BOOLEAN /\ background \in BOOLEAN
    /\ caller \in [g : Gens, e : Entries] \cup {None}
    /\ claimed \in Entries \cup {None}
    /\ scenario \in Scenarios

ReaderTypes ==
    /\ rpc \in [Gens -> {"none", "waiting", "holding", "closing"}]
    /\ hand \in [Gens -> Replies \cup {None}]

NetworkTypes ==
    /\ link \in [Gens -> {"unused", "up", "shut", "down"}]
    /\ toServer \in [Gens -> Seq(Frames)]
    /\ toClient \in [Gens -> Seq(Replies)]
    /\ owner \in [Gens -> Sessions]
    /\ results \in [Gens -> Seq(Replies)] /\ outgoing \in [Gens -> Seq(Replies)]

ServerTypes ==
    /\ log \in Seq([s : Sessions, id : Nat, p : Payloads])
    /\ committed \in [Sessions -> Nat] /\ acked \in [Sessions -> Nat]
    /\ attached \in BOOLEAN
    /\ versions \in [Sessions -> Seq(Seq(Payloads))]
    /\ faults \in 0..scenario.faults /\ flips \in 0..scenario.flips
    /\ repairs \in 0..scenario.repairs

\* TypeOK part by part.
LEMMA TypeParts ==
    /\ TypeOK <=> /\ NativeTypes /\ SenderTypes /\ ReaderTypes
                  /\ NetworkTypes /\ ServerTypes
    /\ TypeOK' <=> /\ NativeTypes' /\ SenderTypes' /\ ReaderTypes'
                   /\ NetworkTypes' /\ ServerTypes'
BY Zenon DEF TypeOK, NativeTypes, SenderTypes, ReaderTypes, NetworkTypes,
             ServerTypes

\* Types of the native outbox and session.
LEMMA NativeTypesKept ==
    ASSUME LinkInv, Next
    PROVE  NativeTypes'
<1>0. TypeOK /\ NativeTypes
  BY TypeParts DEF LinkInv
<1>1. CASE BeginConnection
  BY <1>1, <1>0 DEF BeginConnection, BeginSession, MarkAllUnsent, Hello,
       NativeTypes, Entries, native, sender, network, handler, server,
       history, bounds, outbox, recovery, record, connecting, senders,
       reader, identity
<1>2. CASE AttemptFails
  BY <1>2, <1>0 DEF AttemptFails, Fault, EndSession, MarkAllUnsent,
       NativeTypes, Entries, native, sender, network, handler, server,
       history, bounds, outbox, recovery, record, connecting, senders,
       reader, identity
<1>3. CASE AcceptHello
  <2>1. PICK id \in Nat : HighwaterValid(id) /\ AcknowledgeOutbox(id)
          /\ phase' = "ready" /\ UNCHANGED <<recovery, gen>>
    BY <1>3, HelloAccepted
  <2>2. TypeOK /\ OutboxIsExact
    BY DEF LinkInv
  <2>3. /\ lastAcked' = id /\ nextId' = nextId /\ queue' \in Seq(Entries)
        /\ unsent' \in 0..Len(queue')
    BY <2>1, <2>2, OutboxAcknowledged
  <2> QED
    BY <2>1, <2>3, <1>0 DEF NativeTypes, recovery
<1>4. CASE Publish
  BY <1>4, <1>0 DEF Publish, StillWanted, SendLockFree, NativeTypes, Entries,
       native, sender, network, handler, server, history, bounds, outbox,
       recovery, record, connecting, senders, reader, identity
<1>5. CASE ReplayNext
  BY <1>5, <1>0 DEF ReplayNext, Claimable, ClaimNext, Transmit, Txn,
       NativeTypes, Entries, native, sender, network, handler, server,
       history, bounds, outbox, recovery, record, connecting, senders,
       reader, identity
<1>6. CASE ReplayDone
  BY <1>6, <1>0 DEF ReplayDone, Claimable, NativeTypes, Entries, native,
       sender, network, handler, server, history, bounds, outbox, recovery,
       record, connecting, senders, reader, identity
<1>7. CASE ReplayFails
  <2>1. CASE sock = gen
    BY <2>1, <1>7, <1>0 DEF ReplayFails, Close, EndSession, MarkAllUnsent,
       NativeTypes, Entries, native, sender, network, handler, server,
       history, bounds, outbox, recovery, record, connecting, senders,
       reader, identity
  <2>2. CASE sock # gen
    BY <2>2, <1>7, <1>0 DEF ReplayFails, Close, EndSession, MarkAllUnsent,
       NativeTypes, Entries, native, sender, network, handler, server,
       history, bounds, outbox, recovery, record, connecting, senders,
       reader, identity
  <2> QED
    BY <2>1, <2>2
<1>8. CASE FinishSend
  BY <1>8, <1>0 DEF FinishSend, Transmit, Txn, NativeTypes, Entries, native,
       sender, network, handler, server, history, bounds, outbox, recovery,
       record, connecting, senders, reader, identity
<1>9. CASE SendRaises
  <2>0. PICK c : /\ c = caller.g /\ Close(c) /\ caller # None /\ caller' = None
               /\ UNCHANGED <<gen, queue, nextId, lastAcked, recovery,
                              identity, record, checkpoint, connecting,
                              reader, toServer, handler, server, history,
                              bounds>>
    BY <1>9, SendRaised
  <2>1. CASE sock = c
    BY <2>0, <2>1, <1>0 DEF Close, EndSession, MarkAllUnsent, NativeTypes,
       Entries, native, sender, network, handler, server, history, bounds,
       outbox, recovery, record, connecting, senders, reader, identity
  <2>2. CASE sock # c
    BY <2>0, <2>2, <1>0 DEF Close, EndSession, MarkAllUnsent, NativeTypes,
       Entries, native, sender, network, handler, server, history, bounds,
       outbox, recovery, record, connecting, senders, reader, identity
  <2> QED
    BY <2>1, <2>2
<1>10. CASE WriterClaim
  BY <1>10, <1>0 DEF WriterClaim, Claimable, ClaimNext, NativeTypes, Entries,
       native, sender, network, handler, server, history, bounds, outbox,
       recovery, record, connecting, senders, reader, identity
<1>11. CASE WriterSend
  BY <1>11, <1>0 DEF WriterSend, SendLockFree, Transmit, Txn, NativeTypes,
       Entries, native, sender, network, handler, server, history, bounds,
       outbox, recovery, record, connecting, senders, reader, identity
<1>12. CASE WriterRaises
  BY <1>12, <1>0 DEF WriterRaises, Close, EndSession, MarkAllUnsent,
       NativeTypes, Entries, native, sender, network, handler, server,
       history, bounds, outbox, recovery, record, connecting, senders,
       reader, identity
<1>13. ASSUME NEW p \in Payloads, SendEvents(p) PROVE NativeTypes'
  <2>1. queue' = Append(queue, [id |-> nextId, p |-> p]) /\ nextId' = nextId + 1
        /\ UNCHANGED <<unsent, lastAcked, phase, gen, recovery>>
    BY <1>13 DEF SendEvents, AppendNext
  <2>2. [id |-> nextId, p |-> p] \in Entries /\ queue \in Seq(Entries)
    BY <1>0 DEF NativeTypes, Entries
  <2>3. queue' \in Seq(Entries) /\ Len(queue') = Len(queue) + 1
    BY <2>1, <2>2
  <2>4. unsent' \in 0..Len(queue')
    BY <2>1, <2>2, <2>3, <1>0 DEF NativeTypes
  <2> QED
    BY <2>1, <2>3, <2>4, <1>0 DEF NativeTypes, recovery
<1>14. ASSUME NEW p \in Payloads, RepairRejectedTransaction(p)
       PROVE  NativeTypes'
  <2>1. /\ queue' = [i \in DOMAIN queue |-> IF queue[i].id = rejectedId
                       THEN [id |-> rejectedId, p |-> p] ELSE queue[i]]
        /\ rejectedId' = 0 /\ disposition' = "none" /\ phase' = "disconnected"
        /\ UNCHANGED <<gen, unsent, nextId, lastAcked>>
    BY <1>14 DEF RepairRejectedTransaction, RepairRejected, ClearRecovery
  <2>2. /\ [id |-> rejectedId, p |-> p] \in Entries /\ queue \in Seq(Entries)
        /\ unsent \in 0..Len(queue)
    BY <1>0 DEF NativeTypes, Entries
  <2>3. DOMAIN queue = 1..Len(queue) /\ Len(queue) \in Nat
        /\ \A i \in DOMAIN queue : queue[i] \in Entries
    BY <2>2
  <2>4. queue' \in [1..Len(queue) -> Entries]
    BY <2>1, <2>2, <2>3
  <2>5. queue' \in Seq(Entries) /\ Len(queue') = Len(queue)
    BY <2>3, <2>4
  <2> QED
    BY <2>1, <2>2, <2>5, <1>0 DEF NativeTypes
<1>15. CASE AbandonRejectedSession
  BY <1>15, <1>0 DEF AbandonRejectedSession, Fault, CloseForRecovery,
       SendLockFree, ResetSession, ClearRecovery, NewSession, ClearFailure,
       NativeTypes, Entries, native, sender, network, handler, server,
       history, bounds, outbox, recovery, record, connecting, senders,
       reader, identity
<1>16. CASE CancelConnect
  BY <1>16, <1>0 DEF CancelConnect, Fault, NativeTypes, Entries, native,
       sender, network, handler, server, history, bounds, outbox, recovery,
       record, connecting, senders, reader, identity
<1>17. CASE Disconnect
  BY <1>17, <1>0 DEF Disconnect, Fault, SendLockFree, Close, EndSession,
       MarkAllUnsent, NativeTypes, Entries, native, sender, network, handler,
       server, history, bounds, outbox, recovery, record, connecting,
       senders, reader, identity
<1>18. ASSUME NEW g \in Gens, ServeError(g) PROVE NativeTypes'
  BY <1>18, <1>0 DEF ServeError, NextTxn, Fault, Reply, NativeTypes, Entries,
       native, sender, network, handler, server, history, bounds, outbox,
       recovery, record, connecting, senders, reader, identity
<1>19. ASSUME NEW g \in Gens, ServeLimited(g) PROVE NativeTypes'
  BY <1>19, <1>0 DEF ServeLimited, NextTxn, Fault, Answer, Reply,
       NativeTypes, Entries, native, sender, network, handler, server,
       history, bounds, outbox, recovery, record, connecting, senders,
       reader, identity
<1>20. ASSUME NEW g \in Gens, Break(g) PROVE NativeTypes'
  BY <1>20, <1>0 DEF Break, Fault, NativeTypes, Entries, native, sender,
       network, handler, server, history, bounds, outbox, recovery, record,
       connecting, senders, reader, identity
<1>21. CASE Restart
  BY <1>21, <1>0 DEF Restart, Fault, NativeTypes, Entries, native, sender,
       network, handler, server, history, bounds, outbox, recovery, record,
       connecting, senders, reader, identity
<1>22. CASE EditGraph
  BY <1>22, <1>0 DEF EditGraph, NativeTypes, Entries, native, sender,
       network, handler, server, history, bounds, outbox, recovery, record,
       connecting, senders, reader, identity
<1>23. ASSUME NEW g \in Gens, ReceiveResult(g) PROVE NativeTypes'
  BY <1>23, <1>0 DEF ReceiveResult, NativeTypes, Entries, native, sender,
       network, handler, server, history, bounds, outbox, recovery, record,
       connecting, senders, reader, identity
<1>24. ASSUME NEW g \in Gens, ReceiveRaises(g) PROVE NativeTypes'
  BY <1>24, <1>0 DEF ReceiveRaises, NativeTypes, Entries, native, sender,
       network, handler, server, history, bounds, outbox, recovery, record,
       connecting, senders, reader, identity
<1>25. ASSUME NEW g \in Gens, ApplyResult(g) PROVE NativeTypes'
  <2>1. CASE UNCHANGED <<phase, outbox, recovery, gen>>
    BY <2>1, <1>0 DEF NativeTypes, recovery, outbox
  <2>2. ASSUME hand[g] \in Replies, HighwaterValid(hand[g].id),
               AcknowledgeOutbox(hand[g].id),
               UNCHANGED <<phase, recovery, gen>>
        PROVE  NativeTypes'
    <3>1. TypeOK /\ OutboxIsExact
      BY DEF LinkInv
    <3>2. PICK id \in Nat : id = hand[g].id
      BY <2>2 DEF Replies
    <3>3. HighwaterValid(id) /\ AcknowledgeOutbox(id)
      BY <2>2, <3>2
    <3>4. /\ lastAcked' = id /\ nextId' = nextId /\ queue' \in Seq(Entries)
          /\ unsent' \in 0..Len(queue')
      BY <3>1, <3>3, OutboxAcknowledged
    <3> QED
      BY <2>2, <3>4, <1>0 DEF NativeTypes, recovery
  <2>3. ASSUME hand[g] \in Replies, hand[g].kind \in Refusals,
               EnterRecovery(hand[g].id, DispositionOf(hand[g].kind)),
               UNCHANGED <<queue, nextId, lastAcked, gen>>
        PROVE  NativeTypes'
    BY <2>3, <1>0 DEF EnterRecovery, MarkAllUnsent, DispositionOf, Refusals,
                      Replies, NativeTypes
  <2> QED
    BY <1>25, <2>1, <2>2, <2>3, ResultApplied
<1>26. ASSUME NEW g \in Gens, ApplyLimited(g) PROVE NativeTypes'
  BY <1>26, <1>0 DEF ApplyLimited, AfterLimited, NativeTypes, Entries,
       native, sender, network, handler, server, history, bounds, outbox,
       recovery, record, connecting, senders, reader, identity
<1>27. ASSUME NEW g \in Gens, CloseReader(g) PROVE NativeTypes'
  <2>1. CASE sock = g
    BY <2>1, <1>27, <1>0 DEF CloseReader, Close, EndSession, MarkAllUnsent,
       NativeTypes, Entries, native, sender, network, handler, server,
       history, bounds, outbox, recovery, record, connecting, senders,
       reader, identity
  <2>2. CASE sock # g
    BY <2>2, <1>27, <1>0 DEF CloseReader, Close, EndSession, MarkAllUnsent,
       NativeTypes, Entries, native, sender, network, handler, server,
       history, bounds, outbox, recovery, record, connecting, senders,
       reader, identity
  <2> QED
    BY <2>1, <2>2
<1>28. ASSUME NEW g \in Gens, ServeHello(g) PROVE NativeTypes'
  BY <1>28, <1>0 DEF ServeHello, Answer, Reply, NativeTypes, Entries, native,
       sender, network, handler, server, history, bounds, outbox, recovery,
       record, connecting, senders, reader, identity
<1>29. ASSUME NEW g \in Gens, ServeTxn(g) PROVE NativeTypes'
  BY <1>29, <1>0 DEF ServeTxn, NextTxn, NativeTypes, Entries, native, sender,
       network, handler, server, history, bounds, outbox, recovery, record,
       connecting, senders, reader, identity
<1>30. ASSUME NEW g \in Gens, ResolveResult(g) PROVE NativeTypes'
  BY <1>30, <1>0 DEF ResolveResult, Coalesce, NativeTypes, Entries, native,
       sender, network, handler, server, history, bounds, outbox, recovery,
       record, connecting, senders, reader, identity
<1>31. ASSUME NEW g \in Gens, SendResults(g) PROVE NativeTypes'
  BY <1>31, <1>0 DEF SendResults, NativeTypes, Entries, native, sender,
       network, handler, server, history, bounds, outbox, recovery, record,
       connecting, senders, reader, identity
<1> QED
  BY <1>0, <1>1, <1>2, <1>3, <1>4, <1>5, <1>6, <1>7, <1>8, <1>9, <1>10,
     <1>11, <1>12, <1>13, <1>14, <1>15, <1>16, <1>17, <1>18, <1>19, <1>20,
     <1>21, <1>22, <1>23, <1>24, <1>25, <1>26, <1>27, <1>28, <1>29, <1>30,
     <1>31, StepCases

\* Types of the sender.
LEMMA SenderTypesKept ==
    ASSUME LinkInv, Next
    PROVE  SenderTypes'
<1>0. TypeOK /\ NativeTypes /\ SenderTypes
  BY TypeParts DEF LinkInv
<1>1. CASE BeginConnection
  BY <1>1, <1>0 DEF BeginConnection, BeginSession, MarkAllUnsent, Hello,
       SenderTypes, native, sender, network, handler, server, history,
       bounds, outbox, recovery, record, connecting, senders, reader,
       identity
<1>2. CASE AttemptFails
  BY <1>2, <1>0 DEF AttemptFails, Fault, EndSession, MarkAllUnsent,
       SenderTypes, native, sender, network, handler, server, history,
       bounds, outbox, recovery, record, connecting, senders, reader,
       identity
<1>3. CASE AcceptHello
  BY <1>3, HelloAccepted, <1>0 DEF SenderTypes, record, identity, senders
<1>4. CASE Publish
  <2>1. gen \in Gens
    BY <1>4 DEF LinkInv, Attempting, Publish
  <2> QED
    BY <2>1, <1>4, <1>0 DEF Publish, SenderTypes, record, identity, senders
<1>5. CASE ReplayNext
  BY <1>5, <1>0 DEF ReplayNext, Claimable, ClaimNext, Transmit, Txn,
       SenderTypes, native, sender, network, handler, server, history,
       bounds, outbox, recovery, record, connecting, senders, reader,
       identity
<1>6. CASE ReplayDone
  BY <1>6, <1>0 DEF ReplayDone, Claimable, SenderTypes, native, sender,
       network, handler, server, history, bounds, outbox, recovery, record,
       connecting, senders, reader, identity
<1>7. CASE ReplayFails
  <2>1. CASE sock = gen
    BY <2>1, <1>7, <1>0 DEF ReplayFails, Close, EndSession, MarkAllUnsent,
       SenderTypes, native, sender, network, handler, server, history,
       bounds, outbox, recovery, record, connecting, senders, reader,
       identity
  <2>2. CASE sock # gen
    BY <2>2, <1>7, <1>0 DEF ReplayFails, Close, EndSession, MarkAllUnsent,
       SenderTypes, native, sender, network, handler, server, history,
       bounds, outbox, recovery, record, connecting, senders, reader,
       identity
  <2> QED
    BY <2>1, <2>2
<1>8. CASE FinishSend
  BY <1>8, <1>0 DEF FinishSend, Transmit, Txn, SenderTypes, native, sender,
       network, handler, server, history, bounds, outbox, recovery, record,
       connecting, senders, reader, identity
<1>9. CASE SendRaises
  <2>0. PICK c : /\ c = caller.g /\ Close(c) /\ caller # None /\ caller' = None
               /\ UNCHANGED <<gen, queue, nextId, lastAcked, recovery,
                              identity, record, checkpoint, connecting,
                              reader, toServer, handler, server, history,
                              bounds>>
    BY <1>9, SendRaised
  <2>1. CASE sock = c
    BY <2>0, <2>1, <1>0 DEF Close, EndSession, MarkAllUnsent, SenderTypes,
       native, sender, network, handler, server, history, bounds, outbox,
       recovery, record, connecting, senders, reader, identity
  <2>2. CASE sock # c
    BY <2>0, <2>2, <1>0 DEF Close, EndSession, MarkAllUnsent, SenderTypes,
       native, sender, network, handler, server, history, bounds, outbox,
       recovery, record, connecting, senders, reader, identity
  <2> QED
    BY <2>1, <2>2
<1>10. CASE WriterClaim
  <2>1. /\ claimed' = queue[unsent + 1] /\ unsent < Len(queue)
        /\ UNCHANGED <<identity, sock, record, checkpoint, connecting, caller>>
    BY <1>10 DEF WriterClaim, Claimable
  <2>2. unsent + 1 \in 1..Len(queue) /\ queue \in Seq(Entries)
    BY <2>1, <1>0 DEF NativeTypes
  <2>3. claimed' \in Entries
    BY <2>1, <2>2
  <2> QED
    BY <2>1, <2>3, <1>0 DEF SenderTypes, record, identity, connecting
<1>11. CASE WriterSend
  BY <1>11, <1>0 DEF WriterSend, SendLockFree, Transmit, Txn, SenderTypes,
       native, sender, network, handler, server, history, bounds, outbox,
       recovery, record, connecting, senders, reader, identity
<1>12. CASE WriterRaises
  BY <1>12, <1>0 DEF WriterRaises, Close, EndSession, MarkAllUnsent,
       SenderTypes, native, sender, network, handler, server, history,
       bounds, outbox, recovery, record, connecting, senders, reader,
       identity
<1>13. ASSUME NEW p \in Payloads, SendEvents(p) PROVE SenderTypes'
  <2>1. /\ sock # 0
        /\ caller' \in {caller, [g |-> sock, e |-> [id |-> nextId, p |-> p]]}
        /\ UNCHANGED <<identity, sock, record, checkpoint, connecting, claimed>>
    BY <1>13 DEF SendEvents
  <2>2. [g |-> sock, e |-> [id |-> nextId, p |-> p]]
            \in [g : Gens, e : Entries]
    BY <2>1, <1>0 DEF SenderTypes, NativeTypes, Entries
  <2> QED
    BY <2>1, <2>2, <1>0 DEF SenderTypes, record, identity, connecting
<1>14. ASSUME NEW p \in Payloads, RepairRejectedTransaction(p)
       PROVE  SenderTypes'
  BY <1>14, <1>0 DEF RepairRejectedTransaction, CloseForRecovery,
       SendLockFree, RepairRejected, ClearRecovery, ClearFailure,
       SenderTypes, native, sender, network, handler, server, history,
       bounds, outbox, recovery, record, connecting, senders, reader,
       identity
<1>15. CASE AbandonRejectedSession
  <2>1. /\ session < scenario.sessions /\ session' = session + 1
        /\ sock' = 0 /\ claimed' = None /\ failure' = None /\ artifact' = <<>>
        /\ UNCHANGED <<background, scenario, checkpoint, connecting, caller>>
    BY <1>15 DEF AbandonRejectedSession, NewSession, CloseForRecovery,
       ClearFailure
  <2>2. /\ scenario.sessions \in Nat /\ scenario.sessions <= Most("sessions")
        /\ Most("sessions") \in Nat /\ session \in 1..Most("sessions")
    BY BoundsHold, <1>0 DEF SenderTypes, Sessions
  <2>3. session' \in Sessions
    BY <2>1, <2>2 DEF Sessions
  <2>4. <<>> \in Seq(Entries)
    OBVIOUS
  <2> QED
    BY <2>1, <2>3, <2>4, <1>0 DEF SenderTypes, connecting
<1>16. CASE CancelConnect
  BY <1>16, <1>0 DEF CancelConnect, Fault, SenderTypes, native, sender,
       network, handler, server, history, bounds, outbox, recovery, record,
       connecting, senders, reader, identity
<1>17. CASE Disconnect
  BY <1>17, <1>0 DEF Disconnect, Fault, SendLockFree, Close, EndSession,
       MarkAllUnsent, SenderTypes, native, sender, network, handler, server,
       history, bounds, outbox, recovery, record, connecting, senders,
       reader, identity
<1>18. ASSUME NEW g \in Gens, ServeError(g) PROVE SenderTypes'
  BY <1>18, <1>0 DEF ServeError, NextTxn, Fault, Reply, SenderTypes, native,
       sender, network, handler, server, history, bounds, outbox, recovery,
       record, connecting, senders, reader, identity
<1>19. ASSUME NEW g \in Gens, ServeLimited(g) PROVE SenderTypes'
  BY <1>19, <1>0 DEF ServeLimited, NextTxn, Fault, Answer, Reply,
       SenderTypes, native, sender, network, handler, server, history,
       bounds, outbox, recovery, record, connecting, senders, reader,
       identity
<1>20. ASSUME NEW g \in Gens, Break(g) PROVE SenderTypes'
  BY <1>20, <1>0 DEF Break, Fault, SenderTypes, native, sender, network,
       handler, server, history, bounds, outbox, recovery, record,
       connecting, senders, reader, identity
<1>21. CASE Restart
  BY <1>21, <1>0 DEF Restart, Fault, SenderTypes, native, sender, network,
       handler, server, history, bounds, outbox, recovery, record,
       connecting, senders, reader, identity
<1>22. CASE EditGraph
  BY <1>22, <1>0 DEF EditGraph, SenderTypes, native, sender, network,
       handler, server, history, bounds, outbox, recovery, record,
       connecting, senders, reader, identity
<1>23. ASSUME NEW g \in Gens, ReceiveResult(g) PROVE SenderTypes'
  BY <1>23, <1>0 DEF ReceiveResult, SenderTypes, native, sender, network,
       handler, server, history, bounds, outbox, recovery, record,
       connecting, senders, reader, identity
<1>24. ASSUME NEW g \in Gens, ReceiveRaises(g) PROVE SenderTypes'
  BY <1>24, <1>0 DEF ReceiveRaises, SenderTypes, native, sender, network,
       handler, server, history, bounds, outbox, recovery, record,
       connecting, senders, reader, identity
<1>25. ASSUME NEW g \in Gens, ApplyResult(g) PROVE SenderTypes'
  <2>1. CASE UNCHANGED <<record, checkpoint>>
    BY <2>1, <1>25, ResultApplied, <1>0 DEF SenderTypes, record, identity,
       connecting, senders
  <2>2. ASSUME hand[g] \in Replies, checkpoint' = hand[g].head,
               UNCHANGED record
        PROVE  SenderTypes'
    BY <2>2, <1>25, ResultApplied, <1>0 DEF SenderTypes, record, identity,
       connecting, senders, Replies
  <2>3. ASSUME hand[g] \in Replies, hand[g].kind \in Refusals,
               RecordFailure([id |-> hand[g].id, disposition |->
                                DispositionOf(hand[g].kind)]),
               UNCHANGED checkpoint
        PROVE  SenderTypes'
    <3>1. /\ failure' = [id |-> hand[g].id,
                         disposition |-> DispositionOf(hand[g].kind)]
          /\ artifact' = queue /\ checkpoint' = checkpoint
      BY <2>3 DEF RecordFailure
    <3>2. failure' \in [id : Nat, disposition : {"conflict", "invalid", "fatal"}]
      BY <2>3, <3>1 DEF DispositionOf, Refusals, Replies
    <3> QED
      BY <3>1, <3>2, <1>25, ResultApplied, <1>0
         DEF SenderTypes, NativeTypes, identity, connecting, senders
  <2> QED
    BY <1>25, <2>1, <2>2, <2>3, ResultApplied
<1>26. ASSUME NEW g \in Gens, ApplyLimited(g) PROVE SenderTypes'
  BY <1>26, <1>0 DEF ApplyLimited, AfterLimited, SenderTypes, native, sender,
       network, handler, server, history, bounds, outbox, recovery, record,
       connecting, senders, reader, identity
<1>27. ASSUME NEW g \in Gens, CloseReader(g) PROVE SenderTypes'
  <2>1. CASE sock = g
    BY <2>1, <1>27, <1>0 DEF CloseReader, Close, EndSession, MarkAllUnsent,
       SenderTypes, native, sender, network, handler, server, history,
       bounds, outbox, recovery, record, connecting, senders, reader,
       identity
  <2>2. CASE sock # g
    BY <2>2, <1>27, <1>0 DEF CloseReader, Close, EndSession, MarkAllUnsent,
       SenderTypes, native, sender, network, handler, server, history,
       bounds, outbox, recovery, record, connecting, senders, reader,
       identity
  <2> QED
    BY <2>1, <2>2
<1>28. ASSUME NEW g \in Gens, ServeHello(g) PROVE SenderTypes'
  BY <1>28, <1>0 DEF ServeHello, Answer, Reply, SenderTypes, native, sender,
       network, handler, server, history, bounds, outbox, recovery, record,
       connecting, senders, reader, identity
<1>29. ASSUME NEW g \in Gens, ServeTxn(g) PROVE SenderTypes'
  BY <1>29, <1>0 DEF ServeTxn, NextTxn, SenderTypes, native, sender, network,
       handler, server, history, bounds, outbox, recovery, record,
       connecting, senders, reader, identity
<1>30. ASSUME NEW g \in Gens, ResolveResult(g) PROVE SenderTypes'
  BY <1>30, <1>0 DEF ResolveResult, Coalesce, SenderTypes, native, sender,
       network, handler, server, history, bounds, outbox, recovery, record,
       connecting, senders, reader, identity
<1>31. ASSUME NEW g \in Gens, SendResults(g) PROVE SenderTypes'
  BY <1>31, <1>0 DEF SendResults, SenderTypes, native, sender, network,
       handler, server, history, bounds, outbox, recovery, record,
       connecting, senders, reader, identity
<1> QED
  BY <1>0, <1>1, <1>2, <1>3, <1>4, <1>5, <1>6, <1>7, <1>8, <1>9, <1>10,
     <1>11, <1>12, <1>13, <1>14, <1>15, <1>16, <1>17, <1>18, <1>19, <1>20,
     <1>21, <1>22, <1>23, <1>24, <1>25, <1>26, <1>27, <1>28, <1>29, <1>30,
     <1>31, StepCases

\* Types of the reader threads.
LEMMA ReaderTypesKept ==
    ASSUME LinkInv, Next
    PROVE  ReaderTypes'
<1>0. TypeOK /\ ReaderTypes /\ NetworkTypes
  BY TypeParts DEF LinkInv
<1>1. CASE BeginConnection
  BY <1>1, <1>0 DEF BeginConnection, BeginSession, MarkAllUnsent, Hello,
       ReaderTypes, native, sender, network, handler, server, history,
       bounds, outbox, recovery, record, connecting, senders, reader,
       identity
<1>2. CASE AttemptFails
  BY <1>2, <1>0 DEF AttemptFails, Fault, EndSession, MarkAllUnsent,
       ReaderTypes, native, sender, network, handler, server, history,
       bounds, outbox, recovery, record, connecting, senders, reader,
       identity
<1>3. CASE AcceptHello
  BY <1>3, HelloAccepted, <1>0 DEF ReaderTypes, reader
<1>4. CASE Publish
  BY <1>4, <1>0 DEF Publish, StillWanted, SendLockFree, ReaderTypes, native,
       sender, network, handler, server, history, bounds, outbox, recovery,
       record, connecting, senders, reader, identity
<1>5. CASE ReplayNext
  BY <1>5, <1>0 DEF ReplayNext, Claimable, ClaimNext, Transmit, Txn,
       ReaderTypes, native, sender, network, handler, server, history,
       bounds, outbox, recovery, record, connecting, senders, reader,
       identity
<1>6. CASE ReplayDone
  BY <1>6, <1>0 DEF ReplayDone, Claimable, ReaderTypes, native, sender,
       network, handler, server, history, bounds, outbox, recovery, record,
       connecting, senders, reader, identity
<1>7. CASE ReplayFails
  <2>1. CASE sock = gen
    BY <2>1, <1>7, <1>0 DEF ReplayFails, Close, EndSession, MarkAllUnsent,
       ReaderTypes, native, sender, network, handler, server, history,
       bounds, outbox, recovery, record, connecting, senders, reader,
       identity
  <2>2. CASE sock # gen
    BY <2>2, <1>7, <1>0 DEF ReplayFails, Close, EndSession, MarkAllUnsent,
       ReaderTypes, native, sender, network, handler, server, history,
       bounds, outbox, recovery, record, connecting, senders, reader,
       identity
  <2> QED
    BY <2>1, <2>2
<1>8. CASE FinishSend
  BY <1>8, <1>0 DEF FinishSend, Transmit, Txn, ReaderTypes, native, sender,
       network, handler, server, history, bounds, outbox, recovery, record,
       connecting, senders, reader, identity
<1>9. CASE SendRaises
  <2>0. PICK c : /\ c = caller.g /\ Close(c) /\ caller # None /\ caller' = None
               /\ UNCHANGED <<gen, queue, nextId, lastAcked, recovery,
                              identity, record, checkpoint, connecting,
                              reader, toServer, handler, server, history,
                              bounds>>
    BY <1>9, SendRaised
  <2>1. CASE sock = c
    BY <2>0, <2>1, <1>0 DEF Close, EndSession, MarkAllUnsent, ReaderTypes,
       native, sender, network, handler, server, history, bounds, outbox,
       recovery, record, connecting, senders, reader, identity
  <2>2. CASE sock # c
    BY <2>0, <2>2, <1>0 DEF Close, EndSession, MarkAllUnsent, ReaderTypes,
       native, sender, network, handler, server, history, bounds, outbox,
       recovery, record, connecting, senders, reader, identity
  <2> QED
    BY <2>1, <2>2
<1>10. CASE WriterClaim
  BY <1>10, <1>0 DEF WriterClaim, Claimable, ClaimNext, ReaderTypes, native,
       sender, network, handler, server, history, bounds, outbox, recovery,
       record, connecting, senders, reader, identity
<1>11. CASE WriterSend
  BY <1>11, <1>0 DEF WriterSend, SendLockFree, Transmit, Txn, ReaderTypes,
       native, sender, network, handler, server, history, bounds, outbox,
       recovery, record, connecting, senders, reader, identity
<1>12. CASE WriterRaises
  BY <1>12, <1>0 DEF WriterRaises, Close, EndSession, MarkAllUnsent,
       ReaderTypes, native, sender, network, handler, server, history,
       bounds, outbox, recovery, record, connecting, senders, reader,
       identity
<1>13. ASSUME NEW p \in Payloads, SendEvents(p) PROVE ReaderTypes'
  BY <1>13, <1>0 DEF SendEvents, CanAppend, SendLockFree, AppendNext,
       Submitted, ReaderTypes, native, sender, network, handler, server,
       history, bounds, outbox, recovery, record, connecting, senders,
       reader, identity
<1>14. ASSUME NEW p \in Payloads, RepairRejectedTransaction(p)
       PROVE  ReaderTypes'
  BY <1>14, <1>0 DEF RepairRejectedTransaction, CloseForRecovery,
       SendLockFree, RepairRejected, ClearRecovery, ClearFailure,
       ReaderTypes, native, sender, network, handler, server, history,
       bounds, outbox, recovery, record, connecting, senders, reader,
       identity
<1>15. CASE AbandonRejectedSession
  BY <1>15, <1>0 DEF AbandonRejectedSession, Fault, CloseForRecovery,
       SendLockFree, ResetSession, ClearRecovery, NewSession, ClearFailure,
       ReaderTypes, native, sender, network, handler, server, history,
       bounds, outbox, recovery, record, connecting, senders, reader,
       identity
<1>16. CASE CancelConnect
  BY <1>16, <1>0 DEF CancelConnect, Fault, ReaderTypes, native, sender,
       network, handler, server, history, bounds, outbox, recovery, record,
       connecting, senders, reader, identity
<1>17. CASE Disconnect
  BY <1>17, <1>0 DEF Disconnect, Fault, SendLockFree, Close, EndSession,
       MarkAllUnsent, ReaderTypes, native, sender, network, handler, server,
       history, bounds, outbox, recovery, record, connecting, senders,
       reader, identity
<1>18. ASSUME NEW g \in Gens, ServeError(g) PROVE ReaderTypes'
  BY <1>18, <1>0 DEF ServeError, NextTxn, Fault, Reply, ReaderTypes, native,
       sender, network, handler, server, history, bounds, outbox, recovery,
       record, connecting, senders, reader, identity
<1>19. ASSUME NEW g \in Gens, ServeLimited(g) PROVE ReaderTypes'
  BY <1>19, <1>0 DEF ServeLimited, NextTxn, Fault, Answer, Reply,
       ReaderTypes, native, sender, network, handler, server, history,
       bounds, outbox, recovery, record, connecting, senders, reader,
       identity
<1>20. ASSUME NEW g \in Gens, Break(g) PROVE ReaderTypes'
  BY <1>20, <1>0 DEF Break, Fault, ReaderTypes, native, sender, network,
       handler, server, history, bounds, outbox, recovery, record,
       connecting, senders, reader, identity
<1>21. CASE Restart
  BY <1>21, <1>0 DEF Restart, Fault, ReaderTypes, native, sender, network,
       handler, server, history, bounds, outbox, recovery, record,
       connecting, senders, reader, identity
<1>22. CASE EditGraph
  BY <1>22, <1>0 DEF EditGraph, ReaderTypes, native, sender, network,
       handler, server, history, bounds, outbox, recovery, record,
       connecting, senders, reader, identity
<1>23. ASSUME NEW g \in Gens, ReceiveResult(g) PROVE ReaderTypes'
  BY <1>23, <1>0 DEF ReceiveResult, ReaderTypes, NetworkTypes, native,
       sender, network, handler, server, history, bounds, outbox, recovery,
       record, connecting, senders, reader, identity
<1>24. ASSUME NEW g \in Gens, ReceiveRaises(g) PROVE ReaderTypes'
  BY <1>24, <1>0 DEF ReceiveRaises, ReaderTypes, native, sender, network,
       handler, server, history, bounds, outbox, recovery, record,
       connecting, senders, reader, identity
<1>25. ASSUME NEW g \in Gens, ApplyResult(g) PROVE ReaderTypes'
  BY <1>25, ResultApplied, <1>0 DEF ReaderTypes
<1>26. ASSUME NEW g \in Gens, ApplyLimited(g) PROVE ReaderTypes'
  BY <1>26, <1>0 DEF ApplyLimited, AfterLimited, ReaderTypes, native, sender,
       network, handler, server, history, bounds, outbox, recovery, record,
       connecting, senders, reader, identity
<1>27. ASSUME NEW g \in Gens, CloseReader(g) PROVE ReaderTypes'
  <2>1. CASE sock = g
    BY <2>1, <1>27, <1>0 DEF CloseReader, Close, EndSession, MarkAllUnsent,
       ReaderTypes, native, sender, network, handler, server, history,
       bounds, outbox, recovery, record, connecting, senders, reader,
       identity
  <2>2. CASE sock # g
    BY <2>2, <1>27, <1>0 DEF CloseReader, Close, EndSession, MarkAllUnsent,
       ReaderTypes, native, sender, network, handler, server, history,
       bounds, outbox, recovery, record, connecting, senders, reader,
       identity
  <2> QED
    BY <2>1, <2>2
<1>28. ASSUME NEW g \in Gens, ServeHello(g) PROVE ReaderTypes'
  BY <1>28, <1>0 DEF ServeHello, Answer, Reply, ReaderTypes, native, sender,
       network, handler, server, history, bounds, outbox, recovery, record,
       connecting, senders, reader, identity
<1>29. ASSUME NEW g \in Gens, ServeTxn(g) PROVE ReaderTypes'
  BY <1>29, <1>0 DEF ServeTxn, NextTxn, ReaderTypes, native, sender, network,
       handler, server, history, bounds, outbox, recovery, record,
       connecting, senders, reader, identity
<1>30. ASSUME NEW g \in Gens, ResolveResult(g) PROVE ReaderTypes'
  BY <1>30, <1>0 DEF ResolveResult, Coalesce, ReaderTypes, native, sender,
       network, handler, server, history, bounds, outbox, recovery, record,
       connecting, senders, reader, identity
<1>31. ASSUME NEW g \in Gens, SendResults(g) PROVE ReaderTypes'
  BY <1>31, <1>0 DEF SendResults, ReaderTypes, native, sender, network,
       handler, server, history, bounds, outbox, recovery, record,
       connecting, senders, reader, identity
<1> QED
  BY <1>0, <1>1, <1>2, <1>3, <1>4, <1>5, <1>6, <1>7, <1>8, <1>9, <1>10,
     <1>11, <1>12, <1>13, <1>14, <1>15, <1>16, <1>17, <1>18, <1>19, <1>20,
     <1>21, <1>22, <1>23, <1>24, <1>25, <1>26, <1>27, <1>28, <1>29, <1>30,
     <1>31, StepCases

\* An outcome is a reply.
LEMMA OutcomeType ==
    ASSUME TypeOK, NEW s \in Sessions, NEW f \in Frames
    PROVE  /\ Outcome(s, f) \in Replies
           /\ Outcome(s, f).kind \in {"ack", "stale", "invalid", "unexpected"}
<1>1. committed[s] \in Nat /\ Len(log) + 1 \in Nat /\ f.id \in Nat
  BY DEF TypeOK, Frames
<1>2. Verdict(f.p) \in {"stale", "invalid", "ack"}
  BY DEF Verdict
<1>3. PICK v : v = Verdict(f.p)
  OBVIOUS
<1> QED
  BY <1>1, <1>2, <1>3 DEF Outcome, Reply, Replies

\* Coalescing yields answers.
LEMMA CoalesceType ==
    ASSUME NEW S \in SUBSET Replies, NEW out \in Seq(S), NEW r \in S
    PROVE  Coalesce(out, r) \in Seq(S)
<1>1. Append(out, r) \in Seq(S)
  OBVIOUS
<1>2. out # <<>> => [out EXCEPT ![Len(out)] = r] \in Seq(S)
  <2>1. out # <<>> => Len(out) \in 1..Len(out)
    OBVIOUS
  <2> QED
    BY <2>1, ExceptSeq
<1> QED
  BY <1>1, <1>2 DEF Coalesce

\* A frame sent is a frame under way.
LEMMA TransmittedType ==
    ASSUME NetworkTypes, NEW c, NEW f \in Frames
    PROVE  [toServer EXCEPT ![c] = Append(@, f)] \in [Gens -> Seq(Frames)]
<1>1. \A g \in Gens : Append(toServer[g], f) \in Seq(Frames)
  BY AppendProperties DEF NetworkTypes
<1> QED
  BY <1>1 DEF NetworkTypes

\* Closing a connection leaves links and answers.
LEMMA ClosedType ==
    ASSUME NetworkTypes, NEW g, CloseEnd(g)
    PROVE  /\ link' \in [Gens -> {"unused", "up", "shut", "down"}]
           /\ toClient' \in [Gens -> Seq(Replies)]
<1>1. <<>> \in Seq(Replies)
  OBVIOUS
<1> QED
  BY <1>1 DEF NetworkTypes, CloseEnd

\* Types of the connections and their handlers.
LEMMA NetworkTypesKept ==
    ASSUME LinkInv, Next
    PROVE  NetworkTypes'
<1>0. /\ TypeOK /\ NativeTypes /\ SenderTypes
      /\ NetworkTypes /\ ServerTypes
  BY TypeParts DEF LinkInv
<1>1. CASE BeginConnection
  <2>1. Hello \in Frames /\ session \in Sessions
    BY <1>0 DEF Hello, Frames, SenderTypes
  <2>2. <<Hello>> \in Seq(Frames)
    BY <2>1
  <2> QED
    BY <1>1, <2>1, <2>2, <1>0 DEF BeginConnection, NetworkTypes
<1>2. CASE AttemptFails
  <2>1. UNCHANGED <<toServer, owner, results, outgoing>>
    BY <1>2 DEF AttemptFails, handler
  <2>2. (\E c : CloseEnd(c)) \/ UNCHANGED <<link, toClient>>
    BY <1>2 DEF AttemptFails
  <2> QED
    BY <2>1, <2>2, <1>0, ClosedType DEF NetworkTypes
<1>3. CASE AcceptHello
  <2>1. Tail(toClient[gen]) \in Seq(Replies)
    <3>1. gen \in Gens /\ toClient[gen] # <<>>
      BY <1>3 DEF AcceptHello, LinkInv, Attempting
    <3> QED
      BY <3>1, <1>0 DEF NetworkTypes
  <2> QED
    BY <1>3, HelloAccepted, <2>1, <1>0 DEF NetworkTypes, handler
<1>4. CASE Publish
  BY <1>4, <1>0 DEF Publish, StillWanted, SendLockFree, NetworkTypes, vars,
       native, sender, network, handler, server, history, bounds, outbox,
       recovery, record, connecting, senders, reader, identity
<1>5. CASE ReplayNext
  <2>1. PICK c, e : /\ e \in Entries
                    /\ \/ toServer' = [toServer EXCEPT ![c] = Append(@, Txn(e))]
                       \/ toServer' = toServer
                    /\ UNCHANGED <<link, toClient, owner, results, outgoing>>
    <3>1. unsent + 1 \in 1..Len(queue) /\ queue \in Seq(Entries)
      BY <1>5, <1>0 DEF ReplayNext, Claimable, NativeTypes
    <3>2. queue[unsent + 1] \in Entries
      BY <3>1
    <3> QED
      BY <1>5, <3>2 DEF ReplayNext, Transmit, handler
  <2>2. Txn(e) \in Frames
    BY <2>1 DEF Txn, Entries, Frames
  <2>3. toServer' \in [Gens -> Seq(Frames)]
    <3>1. [toServer EXCEPT ![c] = Append(@, Txn(e))] \in [Gens -> Seq(Frames)]
      BY <2>2, <1>0, TransmittedType
    <3>2. toServer \in [Gens -> Seq(Frames)]
      BY <1>0 DEF NetworkTypes
    <3> QED
      BY <2>1, <3>1, <3>2
  <2> QED
    BY <2>1, <2>3, <1>0 DEF NetworkTypes
<1>6. CASE ReplayDone
  BY <1>6, <1>0 DEF ReplayDone, Claimable, NetworkTypes, vars, native,
       sender, network, handler, server, history, bounds, outbox, recovery,
       record, connecting, senders, reader, identity
<1>7. CASE ReplayFails
  <2>1. UNCHANGED <<toServer, owner, results, outgoing>>
    BY <1>7 DEF ReplayFails, handler
  <2>2. (\E c : CloseEnd(c)) \/ UNCHANGED <<link, toClient>>
    BY <1>7 DEF ReplayFails, Close
  <2> QED
    BY <2>1, <2>2, <1>0, ClosedType DEF NetworkTypes
<1>8. CASE FinishSend
  <2>1. PICK c, e : /\ e \in Entries
                    /\ \/ toServer' = [toServer EXCEPT ![c] = Append(@, Txn(e))]
                       \/ toServer' = toServer
                    /\ UNCHANGED <<link, toClient, owner, results, outgoing>>
    <3>1. caller.e \in Entries
      BY <1>8, <1>0 DEF FinishSend, SenderTypes
    <3> QED
      BY <1>8, <3>1 DEF FinishSend, Transmit, handler
  <2>2. Txn(e) \in Frames
    BY <2>1 DEF Txn, Entries, Frames
  <2>3. toServer' \in [Gens -> Seq(Frames)]
    <3>1. [toServer EXCEPT ![c] = Append(@, Txn(e))] \in [Gens -> Seq(Frames)]
      BY <2>2, <1>0, TransmittedType
    <3>2. toServer \in [Gens -> Seq(Frames)]
      BY <1>0 DEF NetworkTypes
    <3> QED
      BY <2>1, <3>1, <3>2
  <2> QED
    BY <2>1, <2>3, <1>0 DEF NetworkTypes
<1>9. CASE SendRaises
  <2>1. UNCHANGED <<toServer, owner, results, outgoing>>
    BY <1>9 DEF SendRaises, handler
  <2>2. (\E c : CloseEnd(c)) \/ UNCHANGED <<link, toClient>>
    BY <1>9 DEF SendRaises, Close
  <2> QED
    BY <2>1, <2>2, <1>0, ClosedType DEF NetworkTypes
<1>10. CASE WriterClaim
  BY <1>10, <1>0 DEF WriterClaim, Claimable, ClaimNext, NetworkTypes, vars,
       native, sender, network, handler, server, history, bounds, outbox,
       recovery, record, connecting, senders, reader, identity
<1>11. CASE WriterSend
  <2>1. PICK c, e : /\ e \in Entries
                    /\ \/ toServer' = [toServer EXCEPT ![c] = Append(@, Txn(e))]
                       \/ toServer' = toServer
                    /\ UNCHANGED <<link, toClient, owner, results, outgoing>>
    <3>1. claimed \in Entries
      BY <1>11, <1>0 DEF WriterSend, SenderTypes
    <3> QED
      BY <1>11, <3>1 DEF WriterSend, Transmit, handler
  <2>2. Txn(e) \in Frames
    BY <2>1 DEF Txn, Entries, Frames
  <2>3. toServer' \in [Gens -> Seq(Frames)]
    <3>1. [toServer EXCEPT ![c] = Append(@, Txn(e))] \in [Gens -> Seq(Frames)]
      BY <2>2, <1>0, TransmittedType
    <3>2. toServer \in [Gens -> Seq(Frames)]
      BY <1>0 DEF NetworkTypes
    <3> QED
      BY <2>1, <3>1, <3>2
  <2> QED
    BY <2>1, <2>3, <1>0 DEF NetworkTypes
<1>12. CASE WriterRaises
  <2>1. UNCHANGED <<toServer, owner, results, outgoing>>
    BY <1>12 DEF WriterRaises, handler
  <2>2. (\E c : CloseEnd(c)) \/ UNCHANGED <<link, toClient>>
    BY <1>12 DEF WriterRaises, Close
  <2> QED
    BY <2>1, <2>2, <1>0, ClosedType DEF NetworkTypes
<1>13. ASSUME NEW p \in Payloads, SendEvents(p) PROVE NetworkTypes'
  BY <1>13, <1>0 DEF SendEvents, CanAppend, SendLockFree, AppendNext,
       Submitted, NetworkTypes, vars, native, sender, network, handler,
       server, history, bounds, outbox, recovery, record, connecting,
       senders, reader, identity
<1>14. ASSUME NEW p \in Payloads, RepairRejectedTransaction(p)
       PROVE  NetworkTypes'
  <2>1. UNCHANGED <<toServer, owner, results, outgoing>>
    BY <1>14 DEF RepairRejectedTransaction, handler
  <2>2. (\E c : CloseEnd(c)) \/ UNCHANGED <<link, toClient>>
    BY <1>14 DEF RepairRejectedTransaction, CloseForRecovery
  <2> QED
    BY <2>1, <2>2, <1>0, ClosedType DEF NetworkTypes
<1>15. CASE AbandonRejectedSession
  <2>1. UNCHANGED <<toServer, owner, results, outgoing>>
    BY <1>15 DEF AbandonRejectedSession, handler
  <2>2. (\E c : CloseEnd(c)) \/ UNCHANGED <<link, toClient>>
    BY <1>15 DEF AbandonRejectedSession, CloseForRecovery
  <2> QED
    BY <2>1, <2>2, <1>0, ClosedType DEF NetworkTypes
<1>16. CASE CancelConnect
  <2>1. UNCHANGED <<toServer, owner, results, outgoing>>
    BY <1>16 DEF CancelConnect, handler
  <2>2. (\E c : CloseEnd(c)) \/ UNCHANGED <<link, toClient>>
    BY <1>16 DEF CancelConnect
  <2> QED
    BY <2>1, <2>2, <1>0, ClosedType DEF NetworkTypes
<1>17. CASE Disconnect
  <2>1. UNCHANGED <<toServer, owner, results, outgoing>>
    BY <1>17 DEF Disconnect, handler
  <2>2. (\E c : CloseEnd(c)) \/ UNCHANGED <<link, toClient>>
    BY <1>17 DEF Disconnect, Close
  <2> QED
    BY <2>1, <2>2, <1>0, ClosedType DEF NetworkTypes
<1>18. ASSUME NEW g \in Gens, ServeError(g) PROVE NetworkTypes'
  <2>1. Reply("error", 0, 0) \in Replies
    BY DEF Reply, Replies
  <2>2. toServer[g] # <<>> /\ toServer[g] \in Seq(Frames)
    BY <1>18, <1>0 DEF ServeError, NextTxn, NetworkTypes
  <2>3. Tail(toServer[g]) \in Seq(Frames)
    BY <2>2
  <2> QED
    BY <1>18, <2>1, <2>3, <1>0 DEF ServeError, NextTxn, NetworkTypes
<1>19. ASSUME NEW g \in Gens, ServeLimited(g) PROVE NetworkTypes'
  <2>1. Reply("limited", 0, 0) \in Replies
    BY DEF Reply, Replies
  <2>2. toServer[g] # <<>> /\ toServer[g] \in Seq(Frames)
    BY <1>19, <1>0 DEF ServeLimited, NextTxn, NetworkTypes
  <2>3. Tail(toServer[g]) \in Seq(Frames)
    BY <2>2
  <2> QED
    BY <1>19, <2>1, <2>3, <1>0 DEF ServeLimited, NextTxn, Answer, NetworkTypes,
       handler
<1>20. ASSUME NEW g \in Gens, Break(g) PROVE NetworkTypes'
  <2>1. PICK i \in 0..Len(toServer[g]), j \in 0..Len(toClient[g]) :
          /\ toServer' = [toServer EXCEPT ![g] = SubSeq(@, 1, i)]
          /\ toClient' = [toClient EXCEPT ![g] = SubSeq(@, 1, j)]
    BY <1>20 DEF Break
  <2>2. toServer[g] \in Seq(Frames) /\ toClient[g] \in Seq(Replies)
    BY <1>0 DEF NetworkTypes
  <2>3. SubSeq(toServer[g], 1, i) \in Seq(Frames)
        /\ SubSeq(toClient[g], 1, j) \in Seq(Replies)
    BY <2>2
  <2>4. /\ link' = [link EXCEPT ![g] = "down"]
        /\ UNCHANGED <<owner, results, outgoing>>
    BY <1>20 DEF Break, handler
  <2> QED
    BY <2>1, <2>3, <2>4, <1>0 DEF NetworkTypes
<1>21. CASE Restart
  <2>1. <<>> \in Seq(Frames) /\ <<>> \in Seq(Replies)
    OBVIOUS
  <2> QED
    BY <1>21, <2>1, <1>0 DEF Restart, NetworkTypes
<1>22. CASE EditGraph
  BY <1>22, <1>0 DEF EditGraph, NetworkTypes, vars, native, sender, network,
       handler, server, history, bounds, outbox, recovery, record,
       connecting, senders, reader, identity
<1>23. ASSUME NEW g \in Gens, ReceiveResult(g) PROVE NetworkTypes'
  BY <1>23, <1>0 DEF ReceiveResult, NetworkTypes, vars, native, sender,
       network, handler, server, history, bounds, outbox, recovery, record,
       connecting, senders, reader, identity
<1>24. ASSUME NEW g \in Gens, ReceiveRaises(g) PROVE NetworkTypes'
  BY <1>24, <1>0 DEF ReceiveRaises, NetworkTypes, vars, native, sender,
       network, handler, server, history, bounds, outbox, recovery, record,
       connecting, senders, reader, identity
<1>25. ASSUME NEW g \in Gens, ApplyResult(g) PROVE NetworkTypes'
  BY <1>25, ResultApplied, <1>0 DEF NetworkTypes, network, handler
<1>26. ASSUME NEW g \in Gens, ApplyLimited(g) PROVE NetworkTypes'
  BY <1>26, <1>0 DEF ApplyLimited, AfterLimited, NetworkTypes, vars, native,
       sender, network, handler, server, history, bounds, outbox, recovery,
       record, connecting, senders, reader, identity
<1>27. ASSUME NEW g \in Gens, CloseReader(g) PROVE NetworkTypes'
  <2>1. UNCHANGED <<toServer, owner, results, outgoing>>
    BY <1>27 DEF CloseReader, handler
  <2>2. (\E c : CloseEnd(c)) \/ UNCHANGED <<link, toClient>>
    BY <1>27 DEF CloseReader, Close
  <2> QED
    BY <2>1, <2>2, <1>0, ClosedType DEF NetworkTypes
<1>28. ASSUME NEW g \in Gens, ServeHello(g) PROVE NetworkTypes'
  <2>1. Reply("hello", committed[owner[g]], 0) \in Replies
    BY <1>0 DEF Reply, Replies, NetworkTypes, ServerTypes
  <2>2. toServer[g] # <<>> /\ toServer[g] \in Seq(Frames)
    BY <1>28, <1>0 DEF ServeHello, NetworkTypes
  <2>3. Tail(toServer[g]) \in Seq(Frames)
    BY <2>2
  <2> QED
    BY <1>28, <2>1, <2>3, <1>0 DEF ServeHello, Answer, NetworkTypes, handler
<1>29. ASSUME NEW g \in Gens, ServeTxn(g) PROVE NetworkTypes'
  <2>1. /\ toServer' = [toServer EXCEPT ![g] = Tail(@)] /\ toServer[g] # <<>>
        /\ results' = [results EXCEPT ![g] = Append(@, Outcome(owner[g],
                                                     Head(toServer[g])))]
        /\ UNCHANGED <<link, toClient, owner, outgoing>>
    BY <1>29 DEF ServeTxn, NextTxn
  <2>2. toServer[g] \in Seq(Frames) /\ owner[g] \in Sessions
    BY <1>0 DEF NetworkTypes
  <2>3. Head(toServer[g]) \in Frames /\ Tail(toServer[g]) \in Seq(Frames)
    BY <2>1, <2>2
  <2>4. Outcome(owner[g], Head(toServer[g])) \in Replies
    BY <2>2, <2>3, <1>0, OutcomeType
  <2> QED
    BY <2>1, <2>3, <2>4, <1>0 DEF NetworkTypes
<1>30. ASSUME NEW g \in Gens, ResolveResult(g) PROVE NetworkTypes'
  <2>1. results[g] \in Seq(Replies) /\ outgoing[g] \in Seq(Replies)
        /\ results[g] # <<>>
    BY <1>30, <1>0 DEF ResolveResult, NetworkTypes
  <2>2. Head(results[g]) \in Replies /\ Tail(results[g]) \in Seq(Replies)
    BY <2>1
  <2>3. Coalesce(outgoing[g], Head(results[g])) \in Seq(Replies)
    BY <2>1, <2>2, CoalesceType
  <2> QED
    BY <1>30, <2>2, <2>3, <1>0 DEF ResolveResult, NetworkTypes
<1>31. ASSUME NEW g \in Gens, SendResults(g) PROVE NetworkTypes'
  <2>1. <<>> \in Seq(Replies) /\ outgoing[g] \in Seq(Replies)
        /\ toClient[g] \in Seq(Replies)
    BY <1>0 DEF NetworkTypes
  <2>2. toClient[g] \o outgoing[g] \in Seq(Replies)
    BY <2>1
  <2> QED
    BY <1>31, <2>1, <2>2, <1>0 DEF SendResults, NetworkTypes
<1> QED
  BY <1>0, <1>1, <1>2, <1>3, <1>4, <1>5, <1>6, <1>7, <1>8, <1>9, <1>10,
     <1>11, <1>12, <1>13, <1>14, <1>15, <1>16, <1>17, <1>18, <1>19, <1>20,
     <1>21, <1>22, <1>23, <1>24, <1>25, <1>26, <1>27, <1>28, <1>29, <1>30,
     <1>31, StepCases

\* The bounds of the scenario are numbers.
LEMMA ScenarioTyped ==
    ASSUME TypeOK
    PROVE  scenario.faults \in Nat /\ scenario.flips \in Nat
BY ProducerLinkAssumption DEF TypeOK

\* A transaction that is sent carries a payload.
LEMMA FramesTyped ==
    ASSUME TypeOK, FramesKnown, NEW g \in Gens, toServer[g] # <<>>,
           Head(toServer[g]).kind = "txn"
    PROVE  /\ Head(toServer[g]).p \in Payloads
           /\ Known(owner[g], Head(toServer[g]))
<1>1. toServer[g] \in Seq(Frames) /\ owner[g] \in Sessions
  BY DEF TypeOK
<1>2. 1 \in DOMAIN toServer[g] /\ Head(toServer[g]) = toServer[g][1]
  BY <1>1
<1>3. PICK f, s : f = Head(toServer[g]) /\ s = owner[g]
  OBVIOUS
<1>4. Known(s, f)
  BY <1>2, <1>3 DEF FramesKnown
<1>5. versions[s] \in Seq(Seq(Payloads))
  BY <1>1, <1>3 DEF TypeOK
<1>6. versions[s][f.id] \in Seq(Payloads)
  BY <1>4, <1>5 DEF Known
<1>7. f.p \in Payloads
  BY <1>4, <1>6 DEF Known
<1> QED
  BY <1>3, <1>4, <1>7

\* A repaired transaction adds a payload to its versions.
LEMMA ReplacedType ==
    ASSUME NEW v \in Seq(Seq(Payloads)), NEW id, NEW p \in Payloads
    PROVE  [v EXCEPT ![id] = Append(v[id], p)] \in Seq(Seq(Payloads))
<1>1. CASE id \in 1..Len(v)
  <2>1. Append(v[id], p) \in Seq(Payloads)
    BY <1>1, AppendProperties
  <2> QED
    BY <1>1, <2>1, ExceptSeq
<1>2. CASE id \notin 1..Len(v)
  <2>1. v \in [1..Len(v) -> Seq(Payloads)]
    BY LenProperties
  <2>2. [v EXCEPT ![id] = Append(v[id], p)] = v
    BY <1>2, <2>1
  <2> QED
    BY <2>2
<1> QED
  BY <1>1, <1>2

\* Types of the server, the history and the counters.
LEMMA ServerTypesKept ==
    ASSUME LinkInv, Next
    PROVE  ServerTypes'
<1>0. /\ TypeOK /\ NativeTypes /\ SenderTypes
      /\ NetworkTypes /\ ServerTypes
      /\ scenario.faults \in Nat /\ scenario.flips \in Nat
  BY TypeParts, ScenarioTyped DEF LinkInv
<1>1. CASE BeginConnection
  BY <1>1, <1>0 DEF BeginConnection, BeginSession, Hello, ServerTypes,
       native, sender, network, handler, server, history, bounds, outbox,
       recovery, record, connecting, senders, reader, identity
<1>2. CASE AttemptFails
  BY <1>2, <1>0 DEF AttemptFails, Fault, ServerTypes, native, sender,
       network, handler, server, history, bounds, outbox, recovery, record,
       connecting, senders, reader, identity
<1>3. CASE AcceptHello
  <2>1. PICK id \in Nat : AcknowledgeOutbox(id)
          /\ UNCHANGED <<server, versions, bounds, identity>>
    BY <1>3, HelloAccepted
  <2>2. Greater(lastAcked, id) \in Nat
    BY <1>0 DEF Greater, NativeTypes
  <2> QED
    BY <2>1, <2>2, <1>0 DEF AcknowledgeOutbox, ServerTypes, server, bounds,
       identity
<1>4. CASE Publish
  BY <1>4, <1>0 DEF Publish, StillWanted, SendLockFree, ServerTypes, native,
       sender, network, handler, server, history, bounds, outbox, recovery,
       record, connecting, senders, reader, identity
<1>5. CASE ReplayNext
  BY <1>5, <1>0 DEF ReplayNext, Claimable, ClaimNext, Txn, ServerTypes,
       native, sender, network, handler, server, history, bounds, outbox,
       recovery, record, connecting, senders, reader, identity
<1>6. CASE ReplayDone
  BY <1>6, <1>0 DEF ReplayDone, Claimable, ServerTypes, native, sender,
       network, handler, server, history, bounds, outbox, recovery, record,
       connecting, senders, reader, identity
<1>7. CASE ReplayFails
  <2>1. CASE sock = gen
    BY <2>1, <1>7, <1>0 DEF ReplayFails, ServerTypes, native, sender,
       network, handler, server, history, bounds, outbox, recovery, record,
       connecting, senders, reader, identity
  <2>2. CASE sock # gen
    BY <2>2, <1>7, <1>0 DEF ReplayFails, ServerTypes, native, sender,
       network, handler, server, history, bounds, outbox, recovery, record,
       connecting, senders, reader, identity
  <2> QED
    BY <2>1, <2>2
<1>8. CASE FinishSend
  BY <1>8, <1>0 DEF FinishSend, Txn, ServerTypes, native, sender, network,
       handler, server, history, bounds, outbox, recovery, record,
       connecting, senders, reader, identity
<1>9. CASE SendRaises
  <2>0. PICK c : /\ c = caller.g /\ Close(c) /\ caller # None /\ caller' = None
               /\ UNCHANGED <<gen, queue, nextId, lastAcked, recovery,
                              identity, record, checkpoint, connecting,
                              reader, toServer, handler, server, history,
                              bounds>>
    BY <1>9, SendRaised
  <2>1. CASE sock = c
    BY <2>0, <2>1, <1>0 DEF ServerTypes, native, sender, network, handler,
       server, history, bounds, outbox, recovery, record, connecting,
       senders, reader, identity
  <2>2. CASE sock # c
    BY <2>0, <2>2, <1>0 DEF ServerTypes, native, sender, network, handler,
       server, history, bounds, outbox, recovery, record, connecting,
       senders, reader, identity
  <2> QED
    BY <2>1, <2>2
<1>10. CASE WriterClaim
  BY <1>10, <1>0 DEF WriterClaim, Claimable, ClaimNext, ServerTypes, native,
       sender, network, handler, server, history, bounds, outbox, recovery,
       record, connecting, senders, reader, identity
<1>11. CASE WriterSend
  BY <1>11, <1>0 DEF WriterSend, SendLockFree, Txn, ServerTypes, native,
       sender, network, handler, server, history, bounds, outbox, recovery,
       record, connecting, senders, reader, identity
<1>12. CASE WriterRaises
  BY <1>12, <1>0 DEF WriterRaises, ServerTypes, native, sender, network,
       handler, server, history, bounds, outbox, recovery, record,
       connecting, senders, reader, identity
<1>13. ASSUME NEW p \in Payloads, SendEvents(p) PROVE ServerTypes'
  <2>1. /\ versions' = [versions EXCEPT ![session] = Append(@, <<p>>)]
        /\ UNCHANGED <<server, acked, bounds, identity>>
    BY <1>13 DEF SendEvents, Submitted
  <2>2. <<p>> \in Seq(Payloads) /\ session \in Sessions
    BY <1>0 DEF SenderTypes
  <2>3. versions[session] \in Seq(Seq(Payloads))
    BY <2>2, <1>0 DEF ServerTypes
  <2>4. Append(versions[session], <<p>>) \in Seq(Seq(Payloads))
    BY <2>2, <2>3, AppendProperties
  <2> QED
    BY <2>1, <2>4, <1>0 DEF ServerTypes, server, bounds, identity
<1>14. ASSUME NEW p \in Payloads, RepairRejectedTransaction(p)
       PROVE  ServerTypes'
  <2>1. /\ versions' = [versions EXCEPT ![session][failure.id] = Append(@, p)]
        /\ repairs < scenario.repairs /\ repairs' = repairs + 1
        /\ UNCHANGED <<server, acked, faults, flips, identity>>
    BY <1>14 DEF RepairRejectedTransaction
  <2>2. PICK v, id : v = versions[session] /\ id = failure.id
    OBVIOUS
  <2>3. v \in Seq(Seq(Payloads))
    BY <2>2, <1>0 DEF ServerTypes, SenderTypes
  <2>4. versions' = [versions EXCEPT ![session] =
                        [v EXCEPT ![id] = Append(v[id], p)]]
    BY <2>1, <2>2
  <2>5. [v EXCEPT ![id] = Append(v[id], p)] \in Seq(Seq(Payloads))
    BY <2>3, ReplacedType
  <2>6. repairs' \in 0..scenario'.repairs
    <3>1. scenario.repairs \in Nat
      BY BoundsHold, <1>0 DEF SenderTypes
    <3> QED
      BY <2>1, <3>1, <1>0 DEF ServerTypes, identity
  <2> QED
    BY <2>1, <2>4, <2>5, <2>6, <1>0 DEF ServerTypes, server, identity
<1>15. CASE AbandonRejectedSession
  BY <1>15, <1>0 DEF AbandonRejectedSession, Fault, CloseForRecovery,
       SendLockFree, ResetSession, ClearRecovery, NewSession, ClearFailure,
       ServerTypes, native, sender, network, handler, server, history,
       bounds, outbox, recovery, record, connecting, senders, reader,
       identity
<1>16. CASE CancelConnect
  BY <1>16, <1>0 DEF CancelConnect, Fault, ServerTypes, native, sender,
       network, handler, server, history, bounds, outbox, recovery, record,
       connecting, senders, reader, identity
<1>17. CASE Disconnect
  BY <1>17, <1>0 DEF Disconnect, Fault, SendLockFree, ServerTypes, native,
       sender, network, handler, server, history, bounds, outbox, recovery,
       record, connecting, senders, reader, identity
<1>18. ASSUME NEW g \in Gens, ServeError(g) PROVE ServerTypes'
  BY <1>18, <1>0 DEF ServeError, NextTxn, Fault, ServerTypes, native, sender,
       network, handler, server, history, bounds, outbox, recovery, record,
       connecting, senders, reader, identity
<1>19. ASSUME NEW g \in Gens, ServeLimited(g) PROVE ServerTypes'
  BY <1>19, <1>0 DEF ServeLimited, NextTxn, Fault, ServerTypes, native,
       sender, network, handler, server, history, bounds, outbox, recovery,
       record, connecting, senders, reader, identity
<1>20. ASSUME NEW g \in Gens, Break(g) PROVE ServerTypes'
  BY <1>20, <1>0 DEF Break, Fault, ServerTypes, native, sender, network,
       handler, server, history, bounds, outbox, recovery, record,
       connecting, senders, reader, identity
<1>21. CASE Restart
  BY <1>21, <1>0 DEF Restart, Fault, ServerTypes, native, sender, network,
       handler, server, history, bounds, outbox, recovery, record,
       connecting, senders, reader, identity
<1>22. CASE EditGraph
  <2>1. attached' = ~attached /\ flips < scenario.flips /\ flips' = flips + 1
        /\ UNCHANGED <<log, committed, history, faults, repairs, identity>>
    BY <1>22 DEF EditGraph, sender
  <2>2. attached' \in BOOLEAN
    BY <2>1
  <2> QED
    BY <2>1, <2>2, <1>0 DEF ServerTypes, history, identity
<1>23. ASSUME NEW g \in Gens, ReceiveResult(g) PROVE ServerTypes'
  BY <1>23, <1>0 DEF ReceiveResult, ServerTypes, native, sender, network,
       handler, server, history, bounds, outbox, recovery, record,
       connecting, senders, reader, identity
<1>24. ASSUME NEW g \in Gens, ReceiveRaises(g) PROVE ServerTypes'
  BY <1>24, <1>0 DEF ReceiveRaises, ServerTypes, native, sender, network,
       handler, server, history, bounds, outbox, recovery, record,
       connecting, senders, reader, identity
<1>25. ASSUME NEW g \in Gens, ApplyResult(g) PROVE ServerTypes'
  <2>1. UNCHANGED <<server, versions, bounds, identity>>
    BY <1>25, ResultApplied
  <2>2. UNCHANGED acked \/ \E id \in Nat : AcknowledgeOutbox(id)
    BY <1>25, ResultApplied DEF Replies
  <2>3. \A id \in Nat : Greater(lastAcked, id) \in Nat
    BY <1>0 DEF Greater, NativeTypes
  <2>4. acked' \in [Sessions -> Nat]
    BY <2>2, <2>3, <1>0 DEF AcknowledgeOutbox, ServerTypes
  <2> QED
    BY <2>1, <2>4, <1>0 DEF ServerTypes, server, bounds, identity
<1>26. ASSUME NEW g \in Gens, ApplyLimited(g) PROVE ServerTypes'
  BY <1>26, <1>0 DEF ApplyLimited, AfterLimited, ServerTypes, native, sender,
       network, handler, server, history, bounds, outbox, recovery, record,
       connecting, senders, reader, identity
<1>27. ASSUME NEW g \in Gens, CloseReader(g) PROVE ServerTypes'
  <2>1. CASE sock = g
    BY <2>1, <1>27, <1>0 DEF CloseReader, ServerTypes, native, sender,
       network, handler, server, history, bounds, outbox, recovery, record,
       connecting, senders, reader, identity
  <2>2. CASE sock # g
    BY <2>2, <1>27, <1>0 DEF CloseReader, ServerTypes, native, sender,
       network, handler, server, history, bounds, outbox, recovery, record,
       connecting, senders, reader, identity
  <2> QED
    BY <2>1, <2>2
<1>28. ASSUME NEW g \in Gens, ServeHello(g) PROVE ServerTypes'
  BY <1>28, <1>0 DEF ServeHello, ServerTypes, native, sender, network,
       handler, server, history, bounds, outbox, recovery, record,
       connecting, senders, reader, identity
<1>29. ASSUME NEW g \in Gens, ServeTxn(g) PROVE ServerTypes'
  <2>1. toServer[g] # <<>> /\ toServer[g] \in Seq(Frames)
        /\ owner[g] \in Sessions /\ Head(toServer[g]).kind = "txn"
    BY <1>29, <1>0 DEF ServeTxn, NextTxn, NetworkTypes
  <2>2. PICK f, s : f = Head(toServer[g]) /\ s = owner[g]
    OBVIOUS
  <2>3. f \in Frames /\ f.id \in Nat /\ s \in Sessions
    <3>1. f \in Frames
      BY <2>1, <2>2
    <3> QED
      BY <2>1, <2>2, <3>1 DEF Frames
  <2>4. f.p \in Payloads
    BY <2>1, <2>2, FramesTyped DEF LinkInv
  <2>5. \/ UNCHANGED <<log, committed>>
        \/ /\ log' = Append(log, [s |-> s, id |-> f.id, p |-> f.p])
           /\ committed' = [committed EXCEPT ![s] = f.id]
    BY <1>29, <2>2 DEF ServeTxn
  <2>6. [s |-> s, id |-> f.id, p |-> f.p]
            \in [s : Sessions, id : Nat, p : Payloads]
    BY <2>3, <2>4
  <2>7. log' \in Seq([s : Sessions, id : Nat, p : Payloads])
    <3>1. log \in Seq([s : Sessions, id : Nat, p : Payloads])
      BY <1>0 DEF ServerTypes
    <3>2. PICK r, R : r = [s |-> s, id |-> f.id, p |-> f.p]
                      /\ R = [s : Sessions, id : Nat, p : Payloads]
      OBVIOUS
    <3>3. r \in R /\ log \in Seq(R)
      BY <2>6, <3>1, <3>2
    <3>4. Append(log, r) \in Seq(R)
      BY <3>3
    <3> QED
      BY <2>5, <3>1, <3>2, <3>4
  <2>8. committed' \in [Sessions -> Nat]
    BY <2>3, <2>5, <1>0 DEF ServerTypes
  <2>9. UNCHANGED <<attached, history, bounds, identity>>
    BY <1>29 DEF ServeTxn, sender
  <2> QED
    BY <2>7, <2>8, <2>9, <1>0 DEF ServerTypes, history, bounds, identity
<1>30. ASSUME NEW g \in Gens, ResolveResult(g) PROVE ServerTypes'
  BY <1>30, <1>0 DEF ResolveResult, Coalesce, ServerTypes, native, sender,
       network, handler, server, history, bounds, outbox, recovery, record,
       connecting, senders, reader, identity
<1>31. ASSUME NEW g \in Gens, SendResults(g) PROVE ServerTypes'
  BY <1>31, <1>0 DEF SendResults, ServerTypes, native, sender, network,
       handler, server, history, bounds, outbox, recovery, record,
       connecting, senders, reader, identity
<1> QED
  BY <1>0, <1>1, <1>2, <1>3, <1>4, <1>5, <1>6, <1>7, <1>8, <1>9, <1>10,
     <1>11, <1>12, <1>13, <1>14, <1>15, <1>16, <1>17, <1>18, <1>19, <1>20,
     <1>21, <1>22, <1>23, <1>24, <1>25, <1>26, <1>27, <1>28, <1>29, <1>30,
     <1>31, StepCases

\* Every step keeps the types.
LEMMA TypesKept ==
    ASSUME LinkInv, Next
    PROVE  TypeOK'
BY TypeParts, NativeTypesKept, SenderTypesKept, ReaderTypesKept,
   NetworkTypesKept, ServerTypesKept

-----------------------------------------------------------------------------
(* The control state of the connections.                                   *)

\* No answer at all can be sent.
LEMMA SendableEmpty == <<>> \in Seq(Sendable)
OBVIOUS

\* A reader that holds a reply holds one that can be sent.
LEMMA HandsFullKept ==
    ASSUME LinkInv, Next
    PROVE  HandsFull'
<1>0. /\ TypeOK /\ HandsFull /\ ReaderTypes /\ NetworkTypes
      /\ ServerTypes
  BY TypeParts DEF LinkInv
<1>1. CASE BeginConnection
  BY <1>1, <1>0 DEF BeginConnection, BeginSession, MarkAllUnsent, Hello,
       HandsFull, ReaderTypes, native, sender, network, handler, server,
       history, bounds, outbox, recovery, record, connecting, senders,
       reader, identity
<1>2. CASE AttemptFails
  <2>1. UNCHANGED <<hand, outgoing>> /\ \A c \in Gens :
            rpc'[c] = rpc[c] \/ rpc'[c] = "none"
    BY <1>2, <1>0 DEF AttemptFails, handler, reader, ReaderTypes
  <2>2. (\E c : CloseEnd(c)) \/ UNCHANGED toClient
    BY <1>2 DEF AttemptFails
  <2>3. \A c \in Gens : toClient'[c] = toClient[c] \/ toClient'[c] = <<>>
    BY <2>2, <1>0 DEF CloseEnd, NetworkTypes
  <2> QED
    BY <2>1, <2>3, <1>0, SendableEmpty DEF HandsFull
<1>3. CASE AcceptHello
  <2>1. toClient' = [toClient EXCEPT ![gen] = Tail(@)] /\ Len(toClient[gen]) = 1
        /\ UNCHANGED <<rpc, hand, outgoing>>
    BY <1>3, HelloAccepted DEF reader, handler
  <2>2. gen \in Gens /\ toClient[gen] # <<>>
    BY <1>3 DEF AcceptHello, LinkInv, Attempting
  <2>3. Tail(toClient[gen]) \in Seq(Sendable)
    BY <2>2, <1>0 DEF HandsFull
  <2>4. \A c \in Gens : toClient'[c] \in Seq(Sendable)
    BY <2>1, <2>3, <1>0 DEF HandsFull, NetworkTypes
  <2> QED
    BY <2>1, <2>4, <1>0 DEF HandsFull
<1>4. CASE Publish
  BY <1>4, <1>0 DEF Publish, StillWanted, SendLockFree, HandsFull,
       ReaderTypes, native, sender, network, handler, server, history,
       bounds, outbox, recovery, record, connecting, senders, reader,
       identity
<1>5. CASE ReplayNext
  BY <1>5, <1>0 DEF ReplayNext, Claimable, ClaimNext, Transmit, Txn,
       HandsFull, ReaderTypes, native, sender, network, handler, server,
       history, bounds, outbox, recovery, record, connecting, senders,
       reader, identity
<1>6. CASE ReplayDone
  BY <1>6, <1>0 DEF ReplayDone, Claimable, HandsFull, ReaderTypes, native,
       sender, network, handler, server, history, bounds, outbox, recovery,
       record, connecting, senders, reader, identity
<1>7. CASE ReplayFails
  <2>1. UNCHANGED <<hand, outgoing>> /\ \A c \in Gens :
            rpc'[c] = rpc[c] \/ rpc'[c] = "none"
    BY <1>7, <1>0 DEF ReplayFails, handler, reader, ReaderTypes
  <2>2. (\E c : CloseEnd(c)) \/ UNCHANGED toClient
    BY <1>7 DEF ReplayFails, Close
  <2>3. \A c \in Gens : toClient'[c] = toClient[c] \/ toClient'[c] = <<>>
    BY <2>2, <1>0 DEF CloseEnd, NetworkTypes
  <2> QED
    BY <2>1, <2>3, <1>0, SendableEmpty DEF HandsFull
<1>8. CASE FinishSend
  BY <1>8, <1>0 DEF FinishSend, Transmit, Txn, HandsFull, ReaderTypes,
       native, sender, network, handler, server, history, bounds, outbox,
       recovery, record, connecting, senders, reader, identity
<1>9. CASE SendRaises
  <2>1. UNCHANGED <<hand, outgoing>> /\ \A c \in Gens :
            rpc'[c] = rpc[c] \/ rpc'[c] = "none"
    BY <1>9, <1>0 DEF SendRaises, handler, reader, ReaderTypes
  <2>2. (\E c : CloseEnd(c)) \/ UNCHANGED toClient
    BY <1>9 DEF SendRaises, Close
  <2>3. \A c \in Gens : toClient'[c] = toClient[c] \/ toClient'[c] = <<>>
    BY <2>2, <1>0 DEF CloseEnd, NetworkTypes
  <2> QED
    BY <2>1, <2>3, <1>0, SendableEmpty DEF HandsFull
<1>10. CASE WriterClaim
  BY <1>10, <1>0 DEF WriterClaim, Claimable, ClaimNext, HandsFull,
       ReaderTypes, native, sender, network, handler, server, history,
       bounds, outbox, recovery, record, connecting, senders, reader,
       identity
<1>11. CASE WriterSend
  BY <1>11, <1>0 DEF WriterSend, SendLockFree, Transmit, Txn, HandsFull,
       ReaderTypes, native, sender, network, handler, server, history,
       bounds, outbox, recovery, record, connecting, senders, reader,
       identity
<1>12. CASE WriterRaises
  <2>1. UNCHANGED <<hand, outgoing>> /\ \A c \in Gens :
            rpc'[c] = rpc[c] \/ rpc'[c] = "none"
    BY <1>12, <1>0 DEF WriterRaises, handler, reader, ReaderTypes
  <2>2. (\E c : CloseEnd(c)) \/ UNCHANGED toClient
    BY <1>12 DEF WriterRaises, Close
  <2>3. \A c \in Gens : toClient'[c] = toClient[c] \/ toClient'[c] = <<>>
    BY <2>2, <1>0 DEF CloseEnd, NetworkTypes
  <2> QED
    BY <2>1, <2>3, <1>0, SendableEmpty DEF HandsFull
<1>13. ASSUME NEW p \in Payloads, SendEvents(p) PROVE HandsFull'
  BY <1>13, <1>0 DEF SendEvents, CanAppend, SendLockFree, AppendNext,
       Submitted, HandsFull, ReaderTypes, native, sender, network, handler,
       server, history, bounds, outbox, recovery, record, connecting,
       senders, reader, identity
<1>14. ASSUME NEW p \in Payloads, RepairRejectedTransaction(p) PROVE HandsFull'
  <2>1. UNCHANGED <<hand, outgoing>> /\ \A c \in Gens :
            rpc'[c] = rpc[c] \/ rpc'[c] = "none"
    BY <1>14, <1>0 DEF RepairRejectedTransaction, handler, reader, ReaderTypes
  <2>2. (\E c : CloseEnd(c)) \/ UNCHANGED toClient
    BY <1>14 DEF RepairRejectedTransaction, CloseForRecovery
  <2>3. \A c \in Gens : toClient'[c] = toClient[c] \/ toClient'[c] = <<>>
    BY <2>2, <1>0 DEF CloseEnd, NetworkTypes
  <2> QED
    BY <2>1, <2>3, <1>0, SendableEmpty DEF HandsFull
<1>15. CASE AbandonRejectedSession
  <2>1. UNCHANGED <<hand, outgoing>> /\ \A c \in Gens :
            rpc'[c] = rpc[c] \/ rpc'[c] = "none"
    BY <1>15, <1>0 DEF AbandonRejectedSession, handler, reader, ReaderTypes
  <2>2. (\E c : CloseEnd(c)) \/ UNCHANGED toClient
    BY <1>15 DEF AbandonRejectedSession, CloseForRecovery
  <2>3. \A c \in Gens : toClient'[c] = toClient[c] \/ toClient'[c] = <<>>
    BY <2>2, <1>0 DEF CloseEnd, NetworkTypes
  <2> QED
    BY <2>1, <2>3, <1>0, SendableEmpty DEF HandsFull
<1>16. CASE CancelConnect
  <2>1. UNCHANGED <<hand, outgoing>> /\ \A c \in Gens :
            rpc'[c] = rpc[c] \/ rpc'[c] = "none"
    BY <1>16, <1>0 DEF CancelConnect, handler, reader, ReaderTypes
  <2>2. (\E c : CloseEnd(c)) \/ UNCHANGED toClient
    BY <1>16 DEF CancelConnect
  <2>3. \A c \in Gens : toClient'[c] = toClient[c] \/ toClient'[c] = <<>>
    BY <2>2, <1>0 DEF CloseEnd, NetworkTypes
  <2> QED
    BY <2>1, <2>3, <1>0, SendableEmpty DEF HandsFull
<1>17. CASE Disconnect
  <2>1. UNCHANGED <<hand, outgoing>> /\ \A c \in Gens :
            rpc'[c] = rpc[c] \/ rpc'[c] = "none"
    BY <1>17, <1>0 DEF Disconnect, handler, reader, ReaderTypes
  <2>2. (\E c : CloseEnd(c)) \/ UNCHANGED toClient
    BY <1>17 DEF Disconnect, Close
  <2>3. \A c \in Gens : toClient'[c] = toClient[c] \/ toClient'[c] = <<>>
    BY <2>2, <1>0 DEF CloseEnd, NetworkTypes
  <2> QED
    BY <2>1, <2>3, <1>0, SendableEmpty DEF HandsFull
<1>18. ASSUME NEW g \in Gens, ServeError(g) PROVE HandsFull'
  BY <1>18, <1>0 DEF ServeError, NextTxn, Fault, Reply, HandsFull,
       ReaderTypes, native, sender, network, handler, server, history,
       bounds, outbox, recovery, record, connecting, senders, reader,
       identity
<1>19. ASSUME NEW g \in Gens, ServeLimited(g) PROVE HandsFull'
  <2>1. PICK r \in Sendable : \/ toClient' = [toClient EXCEPT ![g] = Append(@, r)]
                              \/ toClient' = toClient
    <3>1. Reply("limited", 0, 0) \in Sendable
      BY <1>0 DEF Reply, Sendable, Replies, NetworkTypes, ServerTypes
    <3> QED
      BY <1>19, <3>1 DEF ServeLimited, Answer
  <2>2. UNCHANGED <<rpc, hand, outgoing>>
    BY <1>19 DEF ServeLimited, sender, reader, handler
  <2>3. Append(toClient[g], r) \in Seq(Sendable)
    BY <1>0, AppendProperties DEF HandsFull
  <2>4. \A c \in Gens : toClient'[c] \in Seq(Sendable)
    BY <2>1, <2>3, <1>0 DEF HandsFull, NetworkTypes
  <2> QED
    BY <2>2, <2>4, <1>0 DEF HandsFull
<1>20. ASSUME NEW g \in Gens, Break(g) PROVE HandsFull'
  <2>1. PICK j \in 0..Len(toClient[g]) :
          toClient' = [toClient EXCEPT ![g] = SubSeq(@, 1, j)]
    BY <1>20 DEF Break
  <2>2. UNCHANGED <<rpc, hand, outgoing>>
    BY <1>20 DEF Break, sender, reader, handler
  <2>3. SubSeq(toClient[g], 1, j) \in Seq(Sendable)
    <3>1. toClient[g] \in Seq(Sendable)
      BY <1>0 DEF HandsFull
    <3> QED
      BY <3>1
  <2>4. \A c \in Gens : toClient'[c] \in Seq(Sendable)
    BY <2>1, <2>3, <1>0 DEF HandsFull, NetworkTypes
  <2> QED
    BY <2>2, <2>4, <1>0 DEF HandsFull
<1>21. CASE Restart
  BY <1>21, <1>0, SendableEmpty DEF Restart, HandsFull, sender, reader
<1>22. CASE EditGraph
  BY <1>22, <1>0 DEF EditGraph, HandsFull, ReaderTypes, native, sender,
       network, handler, server, history, bounds, outbox, recovery, record,
       connecting, senders, reader, identity
<1>23. ASSUME NEW g \in Gens, ReceiveResult(g) PROVE HandsFull'
  <2>1. /\ toClient[g] # <<>> /\ hand' = [hand EXCEPT ![g] = Head(toClient[g])]
        /\ toClient' = [toClient EXCEPT ![g] = Tail(@)]
        /\ rpc' = [rpc EXCEPT ![g] = "holding"] /\ outgoing' = outgoing
    BY <1>23 DEF ReceiveResult, handler
  <2>2. Head(toClient[g]) \in Sendable /\ Tail(toClient[g]) \in Seq(Sendable)
    BY <2>1, <1>0 DEF HandsFull
  <2>3. ASSUME NEW c \in Gens
        PROVE  /\ rpc'[c] = "holding" => hand'[c] \in Sendable
               /\ toClient'[c] \in Seq(Sendable) /\ outgoing'[c] \in Seq(Sendable)
    <3>1. CASE c = g
      BY <3>1, <2>1, <2>2, <1>0 DEF HandsFull, ReaderTypes, NetworkTypes
    <3>2. CASE c # g
      BY <3>2, <2>1, <1>0 DEF HandsFull, ReaderTypes, NetworkTypes
    <3> QED
      BY <3>1, <3>2
  <2> QED
    BY <2>3 DEF HandsFull
<1>24. ASSUME NEW g \in Gens, ReceiveRaises(g) PROVE HandsFull'
  BY <1>24, <1>0 DEF ReceiveRaises, HandsFull, ReaderTypes, native, sender,
       network, handler, server, history, bounds, outbox, recovery, record,
       connecting, senders, reader, identity
<1>25. ASSUME NEW g \in Gens, ApplyResult(g) PROVE HandsFull'
  <2>1. UNCHANGED <<toClient, outgoing>> /\ hand' = [hand EXCEPT ![g] = None]
        /\ \/ rpc' = [rpc EXCEPT ![g] = "waiting"]
           \/ rpc' = [rpc EXCEPT ![g] = "closing"]
    BY <1>25, ResultApplied DEF network, handler
  <2> QED
    BY <2>1, <1>0 DEF HandsFull, ReaderTypes
<1>26. ASSUME NEW g \in Gens, ApplyLimited(g) PROVE HandsFull'
  BY <1>26, <1>0 DEF ApplyLimited, AfterLimited, HandsFull, ReaderTypes,
       native, sender, network, handler, server, history, bounds, outbox,
       recovery, record, connecting, senders, reader, identity
<1>27. ASSUME NEW g \in Gens, CloseReader(g) PROVE HandsFull'
  <2>1. UNCHANGED <<hand, outgoing>> /\ \A c \in Gens :
            rpc'[c] = rpc[c] \/ rpc'[c] = "none"
    BY <1>27, <1>0 DEF CloseReader, handler, reader, ReaderTypes
  <2>2. (\E c : CloseEnd(c)) \/ UNCHANGED toClient
    BY <1>27 DEF CloseReader, Close
  <2>3. \A c \in Gens : toClient'[c] = toClient[c] \/ toClient'[c] = <<>>
    BY <2>2, <1>0 DEF CloseEnd, NetworkTypes
  <2> QED
    BY <2>1, <2>3, <1>0, SendableEmpty DEF HandsFull
<1>28. ASSUME NEW g \in Gens, ServeHello(g) PROVE HandsFull'
  <2>1. PICK r \in Sendable : \/ toClient' = [toClient EXCEPT ![g] = Append(@, r)]
                              \/ toClient' = toClient
    <3>1. Reply("hello", committed[owner[g]], 0) \in Sendable
      BY <1>0 DEF Reply, Sendable, Replies, NetworkTypes, ServerTypes
    <3> QED
      BY <1>28, <3>1 DEF ServeHello, Answer
  <2>2. UNCHANGED <<rpc, hand, outgoing>>
    BY <1>28 DEF ServeHello, sender, reader, handler
  <2>3. Append(toClient[g], r) \in Seq(Sendable)
    BY <1>0, AppendProperties DEF HandsFull
  <2>4. \A c \in Gens : toClient'[c] \in Seq(Sendable)
    BY <2>1, <2>3, <1>0 DEF HandsFull, NetworkTypes
  <2> QED
    BY <2>2, <2>4, <1>0 DEF HandsFull
<1>29. ASSUME NEW g \in Gens, ServeTxn(g) PROVE HandsFull'
  BY <1>29, <1>0 DEF ServeTxn, NextTxn, HandsFull, ReaderTypes, native,
       sender, network, handler, server, history, bounds, outbox, recovery,
       record, connecting, senders, reader, identity
<1>30. ASSUME NEW g \in Gens, ResolveResult(g) PROVE HandsFull'
  <2>1. results[g] # <<>> /\ results[g] \in Seq(Replies)
        /\ UNCHANGED <<rpc, hand, toClient>>
    BY <1>30, <1>0 DEF ResolveResult, NetworkTypes, sender, reader
  <2>2. PICK r : r = Head(results[g]) /\ r \in Replies
    BY <2>1
  <2>3. \/ outgoing' = outgoing
        \/ /\ r.kind # "error"
           /\ outgoing' = [outgoing EXCEPT ![g] = Coalesce(@, r)]
    BY <1>30, <2>2 DEF ResolveResult
  <2>4. r.kind # "error" => Coalesce(outgoing[g], r) \in Seq(Sendable)
    <3>1. r.kind # "error" => r \in Sendable
      BY <2>2 DEF Sendable
    <3>2. Sendable \in SUBSET Replies /\ outgoing[g] \in Seq(Sendable)
      BY <1>0 DEF Sendable, HandsFull
    <3> QED
      BY <3>1, <3>2, CoalesceType
  <2>5. \A c \in Gens : outgoing'[c] \in Seq(Sendable)
    BY <2>3, <2>4, <1>0 DEF HandsFull, NetworkTypes
  <2> QED
    BY <2>1, <2>5, <1>0 DEF HandsFull
<1>31. ASSUME NEW g \in Gens, SendResults(g) PROVE HandsFull'
  <2>1. /\ \/ toClient' = [toClient EXCEPT ![g] = @ \o outgoing[g]]
           \/ toClient' = toClient
        /\ outgoing' = [outgoing EXCEPT ![g] = <<>>]
        /\ UNCHANGED <<rpc, hand>>
    BY <1>31 DEF SendResults, sender, reader
  <2>2. toClient[g] \o outgoing[g] \in Seq(Sendable)
    BY <1>0, ConcatProperties DEF HandsFull
  <2>3. \A c \in Gens : toClient'[c] \in Seq(Sendable)
    BY <2>1, <2>2, <1>0 DEF HandsFull, NetworkTypes
  <2>4. \A c \in Gens : outgoing'[c] \in Seq(Sendable)
    BY <2>1, <1>0, SendableEmpty DEF HandsFull, NetworkTypes
  <2> QED
    BY <2>1, <2>3, <2>4, <1>0 DEF HandsFull
<1> QED
  BY <1>0, <1>1, <1>2, <1>3, <1>4, <1>5, <1>6, <1>7, <1>8, <1>9, <1>10,
     <1>11, <1>12, <1>13, <1>14, <1>15, <1>16, <1>17, <1>18, <1>19, <1>20,
     <1>21, <1>22, <1>23, <1>24, <1>25, <1>26, <1>27, <1>28, <1>29, <1>30,
     <1>31, StepCases

\* A generation that is not begun has no traffic.
LEMMA UnusedIsEmptyKept ==
    ASSUME LinkInv, Next
    PROVE  UnusedIsEmpty'
<1>0. /\ TypeOK /\ NativeTypes /\ SenderTypes /\ ReaderTypes
      /\ NetworkTypes /\ UnusedIsEmpty
  BY TypeParts DEF LinkInv
<1>1. CASE BeginConnection
  <2>1. /\ gen' = gen + 1 /\ UNCHANGED <<toClient, results, outgoing, rpc>>
        /\ toServer' = [toServer EXCEPT ![gen + 1] = <<Hello>>]
    BY <1>1 DEF BeginConnection, BeginSession, reader
  <2>2. \A c \in Gens : c > gen' => c > gen /\ c # gen + 1
    BY <2>1, <1>0 DEF NativeTypes, Gens
  <2> QED
    BY <2>1, <2>2, <1>0 DEF UnusedIsEmpty, NetworkTypes
<1>2. CASE AttemptFails
  <2>1. gen' >= gen /\ gen' \in Nat /\ UNCHANGED <<toServer, results, outgoing>>
        /\ \A c \in Gens : rpc'[c] = rpc[c] \/ rpc'[c] = "none"
    BY <1>2, <1>0 DEF AttemptFails, handler, reader, ReaderTypes, NativeTypes
  <2>2. (\E c : CloseEnd(c)) \/ UNCHANGED toClient
    BY <1>2 DEF AttemptFails
  <2>3. \A c \in Gens : toClient'[c] = toClient[c] \/ toClient'[c] = <<>>
    BY <2>2, <1>0 DEF CloseEnd, NetworkTypes
  <2>4. \A c \in Gens : c > gen' => c > gen
    BY <2>1, <1>0 DEF NativeTypes, Gens
  <2> QED
    BY <2>1, <2>3, <2>4, <1>0 DEF UnusedIsEmpty
<1>3. CASE AcceptHello
  <2>1. toClient' = [toClient EXCEPT ![gen] = Tail(@)] /\ gen' = gen
        /\ UNCHANGED <<rpc, toServer, results, outgoing>>
    BY <1>3, HelloAccepted DEF reader, handler
  <2> QED
    BY <2>1, <1>0 DEF UnusedIsEmpty, NativeTypes, NetworkTypes, Gens
<1>4. CASE Publish
  <2>1. rpc' \in {rpc, [rpc EXCEPT ![gen] = "waiting"]}
        /\ UNCHANGED <<gen, toServer, toClient, results, outgoing>>
    BY <1>4 DEF Publish, native, network, handler
  <2>2. \A c \in Gens : c > gen => rpc'[c] = rpc[c]
    <3>1. \A c \in Gens : c > gen => c # gen
      BY <1>0 DEF NativeTypes, Gens
    <3> QED
      BY <2>1, <3>1, <1>0 DEF ReaderTypes
  <2> QED
    BY <2>1, <2>2, <1>0 DEF UnusedIsEmpty
<1>5. CASE ReplayNext
  <2>1. PICK f : \/ toServer' = [toServer EXCEPT ![gen] = Append(@, f)]
                 \/ toServer' = toServer
    BY <1>5 DEF ReplayNext, Transmit
  <2>2. UNCHANGED <<gen, toClient, results, outgoing, rpc>>
    BY <1>5 DEF ReplayNext, sender, reader, handler
  <2>3. \A c \in Gens : c > gen => toServer'[c] = toServer[c]
    <3>1. \A c \in Gens : c > gen => c # gen
      BY <1>0 DEF NativeTypes, Gens
    <3> QED
      BY <2>1, <3>1, <1>0 DEF NetworkTypes
  <2> QED
    BY <2>2, <2>3, <1>0 DEF UnusedIsEmpty
<1>6. CASE ReplayDone
  <2>1. rpc' = [rpc EXCEPT ![gen] = "waiting"]
        /\ UNCHANGED <<gen, toServer, toClient, results, outgoing>>
    BY <1>6 DEF ReplayDone, native, network, handler
  <2>2. \A c \in Gens : c > gen => rpc'[c] = rpc[c]
    <3>1. \A c \in Gens : c > gen => c # gen
      BY <1>0 DEF NativeTypes, Gens
    <3> QED
      BY <2>1, <3>1, <1>0 DEF ReaderTypes
  <2> QED
    BY <2>1, <2>2, <1>0 DEF UnusedIsEmpty
<1>7. CASE ReplayFails
  <2>1. gen' >= gen /\ gen' \in Nat /\ UNCHANGED <<toServer, results, outgoing>>
        /\ \A c \in Gens : rpc'[c] = rpc[c] \/ rpc'[c] = "none"
    BY <1>7, <1>0 DEF ReplayFails, handler, reader, ReaderTypes, NativeTypes
  <2>2. (\E c : CloseEnd(c)) \/ UNCHANGED toClient
    BY <1>7 DEF ReplayFails, Close
  <2>3. \A c \in Gens : toClient'[c] = toClient[c] \/ toClient'[c] = <<>>
    BY <2>2, <1>0 DEF CloseEnd, NetworkTypes
  <2>4. \A c \in Gens : c > gen' => c > gen
    BY <2>1, <1>0 DEF NativeTypes, Gens
  <2> QED
    BY <2>1, <2>3, <2>4, <1>0 DEF UnusedIsEmpty
<1>8. CASE FinishSend
  <2>1. caller.g <= gen /\ caller.g \in Gens
    BY <1>8, <1>0 DEF FinishSend, SenderTypes, LinkInv, Sending
  <2>2. PICK c, f : /\ c = caller.g
                    /\ \/ toServer' = [toServer EXCEPT ![c] = Append(@, f)]
                       \/ toServer' = toServer
    BY <1>8 DEF FinishSend, Transmit
  <2>3. UNCHANGED <<gen, toClient, results, outgoing, rpc>>
    BY <1>8 DEF FinishSend, native, reader, handler
  <2>4. \A d \in Gens : d > gen => toServer'[d] = toServer[d]
    <3>1. \A d \in Gens : d > gen => d # caller.g
      BY <2>1, <1>0 DEF NativeTypes, Gens
    <3> QED
      BY <2>2, <3>1, <1>0 DEF NetworkTypes
  <2> QED
    BY <2>3, <2>4, <1>0 DEF UnusedIsEmpty
<1>9. CASE SendRaises
  <2>1. gen' >= gen /\ gen' \in Nat /\ UNCHANGED <<toServer, results, outgoing>>
        /\ \A c \in Gens : rpc'[c] = rpc[c] \/ rpc'[c] = "none"
    BY <1>9, <1>0 DEF SendRaises, handler, reader, ReaderTypes, NativeTypes
  <2>2. (\E c : CloseEnd(c)) \/ UNCHANGED toClient
    BY <1>9 DEF SendRaises, Close
  <2>3. \A c \in Gens : toClient'[c] = toClient[c] \/ toClient'[c] = <<>>
    BY <2>2, <1>0 DEF CloseEnd, NetworkTypes
  <2>4. \A c \in Gens : c > gen' => c > gen
    BY <2>1, <1>0 DEF NativeTypes, Gens
  <2> QED
    BY <2>1, <2>3, <2>4, <1>0 DEF UnusedIsEmpty
<1>10. CASE WriterClaim
  BY <1>10, <1>0 DEF WriterClaim, Claimable, ClaimNext, UnusedIsEmpty,
       native, sender, network, handler, server, history, bounds, outbox,
       recovery, record, connecting, senders, reader, identity
<1>11. CASE WriterSend
  <2>1. sock = gen
    BY <1>11 DEF WriterSend, LinkInv, Sending, Published
  <2>2. PICK f : \/ toServer' = [toServer EXCEPT ![sock] = Append(@, f)]
                 \/ toServer' = toServer
    BY <1>11 DEF WriterSend, Transmit
  <2>3. UNCHANGED <<gen, toClient, results, outgoing, rpc>>
    BY <1>11 DEF WriterSend, native, reader, handler
  <2>4. \A c \in Gens : c > gen => toServer'[c] = toServer[c]
    <3>1. \A c \in Gens : c > gen => c # sock
      BY <2>1, <1>0 DEF NativeTypes, Gens
    <3> QED
      BY <2>2, <3>1, <1>0 DEF NetworkTypes
  <2> QED
    BY <2>3, <2>4, <1>0 DEF UnusedIsEmpty
<1>12. CASE WriterRaises
  <2>1. gen' >= gen /\ gen' \in Nat /\ UNCHANGED <<toServer, results, outgoing>>
        /\ \A c \in Gens : rpc'[c] = rpc[c] \/ rpc'[c] = "none"
    BY <1>12, <1>0 DEF WriterRaises, handler, reader, ReaderTypes, NativeTypes
  <2>2. (\E c : CloseEnd(c)) \/ UNCHANGED toClient
    BY <1>12 DEF WriterRaises, Close
  <2>3. \A c \in Gens : toClient'[c] = toClient[c] \/ toClient'[c] = <<>>
    BY <2>2, <1>0 DEF CloseEnd, NetworkTypes
  <2>4. \A c \in Gens : c > gen' => c > gen
    BY <2>1, <1>0 DEF NativeTypes, Gens
  <2> QED
    BY <2>1, <2>3, <2>4, <1>0 DEF UnusedIsEmpty
<1>13. ASSUME NEW p \in Payloads, SendEvents(p) PROVE UnusedIsEmpty'
  BY <1>13, <1>0 DEF SendEvents, CanAppend, SendLockFree, AppendNext,
       Submitted, UnusedIsEmpty, native, sender, network, handler, server,
       history, bounds, outbox, recovery, record, connecting, senders,
       reader, identity
<1>14. ASSUME NEW p \in Payloads, RepairRejectedTransaction(p)
       PROVE  UnusedIsEmpty'
  <2>1. gen' >= gen /\ gen' \in Nat /\ UNCHANGED <<toServer, results, outgoing>>
        /\ \A c \in Gens : rpc'[c] = rpc[c] \/ rpc'[c] = "none"
    BY <1>14, <1>0 DEF RepairRejectedTransaction, RepairRejected, handler,
       reader, ReaderTypes, NativeTypes
  <2>2. (\E c : CloseEnd(c)) \/ UNCHANGED toClient
    BY <1>14 DEF RepairRejectedTransaction, CloseForRecovery
  <2>3. \A c \in Gens : toClient'[c] = toClient[c] \/ toClient'[c] = <<>>
    BY <2>2, <1>0 DEF CloseEnd, NetworkTypes
  <2>4. \A c \in Gens : c > gen' => c > gen
    BY <2>1, <1>0 DEF NativeTypes, Gens
  <2> QED
    BY <2>1, <2>3, <2>4, <1>0 DEF UnusedIsEmpty
<1>15. CASE AbandonRejectedSession
  <2>1. gen' >= gen /\ gen' \in Nat /\ UNCHANGED <<toServer, results, outgoing>>
        /\ \A c \in Gens : rpc'[c] = rpc[c] \/ rpc'[c] = "none"
    BY <1>15, <1>0 DEF AbandonRejectedSession, ResetSession, handler, reader,
       ReaderTypes, NativeTypes
  <2>2. (\E c : CloseEnd(c)) \/ UNCHANGED toClient
    BY <1>15 DEF AbandonRejectedSession, CloseForRecovery
  <2>3. \A c \in Gens : toClient'[c] = toClient[c] \/ toClient'[c] = <<>>
    BY <2>2, <1>0 DEF CloseEnd, NetworkTypes
  <2>4. \A c \in Gens : c > gen' => c > gen
    BY <2>1, <1>0 DEF NativeTypes, Gens
  <2> QED
    BY <2>1, <2>3, <2>4, <1>0 DEF UnusedIsEmpty
<1>16. CASE CancelConnect
  <2>1. gen' >= gen /\ gen' \in Nat /\ UNCHANGED <<toServer, results, outgoing>>
        /\ \A c \in Gens : rpc'[c] = rpc[c] \/ rpc'[c] = "none"
    BY <1>16, <1>0 DEF CancelConnect, native, handler, reader, ReaderTypes,
       NativeTypes
  <2>2. (\E c : CloseEnd(c)) \/ UNCHANGED toClient
    BY <1>16 DEF CancelConnect, native
  <2>3. \A c \in Gens : toClient'[c] = toClient[c] \/ toClient'[c] = <<>>
    BY <2>2, <1>0 DEF CloseEnd, NetworkTypes
  <2>4. \A c \in Gens : c > gen' => c > gen
    BY <2>1, <1>0 DEF NativeTypes, Gens
  <2> QED
    BY <2>1, <2>3, <2>4, <1>0 DEF UnusedIsEmpty
<1>17. CASE Disconnect
  <2>1. gen' >= gen /\ gen' \in Nat /\ UNCHANGED <<toServer, results, outgoing>>
        /\ \A c \in Gens : rpc'[c] = rpc[c] \/ rpc'[c] = "none"
    BY <1>17, <1>0 DEF Disconnect, handler, reader, ReaderTypes, NativeTypes
  <2>2. (\E c : CloseEnd(c)) \/ UNCHANGED toClient
    BY <1>17 DEF Disconnect, Close
  <2>3. \A c \in Gens : toClient'[c] = toClient[c] \/ toClient'[c] = <<>>
    BY <2>2, <1>0 DEF CloseEnd, NetworkTypes
  <2>4. \A c \in Gens : c > gen' => c > gen
    BY <2>1, <1>0 DEF NativeTypes, Gens
  <2> QED
    BY <2>1, <2>3, <2>4, <1>0 DEF UnusedIsEmpty
<1>18. ASSUME NEW g \in Gens, ServeError(g) PROVE UnusedIsEmpty'
  <2>1. ~(g > gen)
    BY <1>18, <1>0 DEF ServeError, NextTxn, UnusedIsEmpty
  <2>2. gen' = gen /\ \A c \in Gens : c # g =>
          /\ toServer'[c] = toServer[c] /\ toClient'[c] = toClient[c]
          /\ results'[c] = results[c] /\ outgoing'[c] = outgoing[c]
          /\ rpc'[c] = rpc[c]
    BY <1>18, <1>0 DEF ServeError, NextTxn, NetworkTypes, ReaderTypes, native,
       sender, reader, network, handler
  <2> QED
    BY <2>1, <2>2, <1>0 DEF UnusedIsEmpty
<1>19. ASSUME NEW g \in Gens, ServeLimited(g) PROVE UnusedIsEmpty'
  <2>1. ~(g > gen)
    BY <1>19, <1>0 DEF ServeLimited, NextTxn, UnusedIsEmpty
  <2>2. gen' = gen /\ \A c \in Gens : c # g =>
          /\ toServer'[c] = toServer[c] /\ toClient'[c] = toClient[c]
          /\ results'[c] = results[c] /\ outgoing'[c] = outgoing[c]
          /\ rpc'[c] = rpc[c]
    BY <1>19, <1>0 DEF ServeLimited, NextTxn, Answer, NetworkTypes,
       ReaderTypes, native, sender, reader, network, handler
  <2> QED
    BY <2>1, <2>2, <1>0 DEF UnusedIsEmpty
<1>20. ASSUME NEW g \in Gens, Break(g) PROVE UnusedIsEmpty'
  <2>1. PICK i \in 0..Len(toServer[g]), j \in 0..Len(toClient[g]) :
          /\ toServer' = [toServer EXCEPT ![g] = SubSeq(@, 1, i)]
          /\ toClient' = [toClient EXCEPT ![g] = SubSeq(@, 1, j)]
    BY <1>20 DEF Break
  <2>2. UNCHANGED <<rpc, results, outgoing, gen>>
    BY <1>20 DEF Break, sender, reader, handler, native
  <2>3. g > gen => /\ SubSeq(toServer[g], 1, i) = <<>>
                   /\ SubSeq(toClient[g], 1, j) = <<>>
    <3>1. ASSUME g > gen PROVE toServer[g] = <<>> /\ toClient[g] = <<>>
      BY <3>1, <1>0 DEF UnusedIsEmpty
    <3>2. ASSUME NEW q, q = <<>>, NEW n \in 0..Len(q)
          PROVE  SubSeq(q, 1, n) = <<>>
      BY <3>2, SubSeqEmpty
    <3> QED
      BY <3>1, <3>2
  <2> QED
    BY <2>1, <2>2, <2>3, <1>0 DEF UnusedIsEmpty, NetworkTypes
<1>21. CASE Restart
  BY <1>21, <1>0 DEF Restart, Fault, UnusedIsEmpty, native, sender, network,
       handler, server, history, bounds, outbox, recovery, record,
       connecting, senders, reader, identity
<1>22. CASE EditGraph
  BY <1>22, <1>0 DEF EditGraph, UnusedIsEmpty, native, sender, network,
       handler, server, history, bounds, outbox, recovery, record,
       connecting, senders, reader, identity
<1>23. ASSUME NEW g \in Gens, ReceiveResult(g) PROVE UnusedIsEmpty'
  <2>1. ~(g > gen)
    BY <1>23, <1>0 DEF ReceiveResult, UnusedIsEmpty
  <2>2. gen' = gen /\ \A c \in Gens : c # g =>
          /\ toServer'[c] = toServer[c] /\ toClient'[c] = toClient[c]
          /\ results'[c] = results[c] /\ outgoing'[c] = outgoing[c]
          /\ rpc'[c] = rpc[c]
    BY <1>23, <1>0 DEF ReceiveResult, NetworkTypes, ReaderTypes, native,
       sender, reader, network, handler
  <2> QED
    BY <2>1, <2>2, <1>0 DEF UnusedIsEmpty
<1>24. ASSUME NEW g \in Gens, ReceiveRaises(g) PROVE UnusedIsEmpty'
  <2>1. ~(g > gen)
    BY <1>24, <1>0 DEF ReceiveRaises, UnusedIsEmpty
  <2>2. gen' = gen /\ \A c \in Gens : c # g =>
          /\ toServer'[c] = toServer[c] /\ toClient'[c] = toClient[c]
          /\ results'[c] = results[c] /\ outgoing'[c] = outgoing[c]
          /\ rpc'[c] = rpc[c]
    BY <1>24, <1>0 DEF ReceiveRaises, NetworkTypes, ReaderTypes, native,
       sender, reader, network, handler
  <2> QED
    BY <2>1, <2>2, <1>0 DEF UnusedIsEmpty
<1>25. ASSUME NEW g \in Gens, ApplyResult(g) PROVE UnusedIsEmpty'
  <2>1. rpc[g] # "none" /\ gen' = gen
        /\ UNCHANGED <<toServer, toClient, results, outgoing>>
        /\ \/ rpc' = [rpc EXCEPT ![g] = "waiting"]
           \/ rpc' = [rpc EXCEPT ![g] = "closing"]
    BY <1>25, ResultApplied DEF network, handler
  <2> QED
    BY <2>1, <1>0 DEF UnusedIsEmpty, ReaderTypes
<1>26. ASSUME NEW g \in Gens, ApplyLimited(g) PROVE UnusedIsEmpty'
  <2>1. ~(g > gen)
    BY <1>26, <1>0 DEF ApplyLimited, UnusedIsEmpty
  <2>2. gen' = gen /\ \A c \in Gens : c # g =>
          /\ toServer'[c] = toServer[c] /\ toClient'[c] = toClient[c]
          /\ results'[c] = results[c] /\ outgoing'[c] = outgoing[c]
          /\ rpc'[c] = rpc[c]
    BY <1>26, <1>0 DEF ApplyLimited, AfterLimited, NetworkTypes, ReaderTypes,
       native, sender, reader, network, handler
  <2> QED
    BY <2>1, <2>2, <1>0 DEF UnusedIsEmpty
<1>27. ASSUME NEW g \in Gens, CloseReader(g) PROVE UnusedIsEmpty'
  <2>1. gen' >= gen /\ gen' \in Nat /\ UNCHANGED <<toServer, results, outgoing>>
        /\ \A c \in Gens : rpc'[c] = rpc[c] \/ rpc'[c] = "none"
    BY <1>27, <1>0 DEF CloseReader, handler, reader, ReaderTypes, NativeTypes
  <2>2. (\E c : CloseEnd(c)) \/ UNCHANGED toClient
    BY <1>27 DEF CloseReader, Close
  <2>3. \A c \in Gens : toClient'[c] = toClient[c] \/ toClient'[c] = <<>>
    BY <2>2, <1>0 DEF CloseEnd, NetworkTypes
  <2>4. \A c \in Gens : c > gen' => c > gen
    BY <2>1, <1>0 DEF NativeTypes, Gens
  <2> QED
    BY <2>1, <2>3, <2>4, <1>0 DEF UnusedIsEmpty
<1>28. ASSUME NEW g \in Gens, ServeHello(g) PROVE UnusedIsEmpty'
  <2>1. ~(g > gen)
    BY <1>28, <1>0 DEF ServeHello, UnusedIsEmpty
  <2>2. gen' = gen /\ \A c \in Gens : c # g =>
          /\ toServer'[c] = toServer[c] /\ toClient'[c] = toClient[c]
          /\ results'[c] = results[c] /\ outgoing'[c] = outgoing[c]
          /\ rpc'[c] = rpc[c]
    BY <1>28, <1>0 DEF ServeHello, Answer, NetworkTypes, ReaderTypes, native,
       sender, reader, network, handler
  <2> QED
    BY <2>1, <2>2, <1>0 DEF UnusedIsEmpty
<1>29. ASSUME NEW g \in Gens, ServeTxn(g) PROVE UnusedIsEmpty'
  <2>1. ~(g > gen)
    BY <1>29, <1>0 DEF ServeTxn, NextTxn, UnusedIsEmpty
  <2>2. gen' = gen /\ \A c \in Gens : c # g =>
          /\ toServer'[c] = toServer[c] /\ toClient'[c] = toClient[c]
          /\ results'[c] = results[c] /\ outgoing'[c] = outgoing[c]
          /\ rpc'[c] = rpc[c]
    BY <1>29, <1>0 DEF ServeTxn, NextTxn, NetworkTypes, ReaderTypes, native,
       sender, reader, network, handler
  <2> QED
    BY <2>1, <2>2, <1>0 DEF UnusedIsEmpty
<1>30. ASSUME NEW g \in Gens, ResolveResult(g) PROVE UnusedIsEmpty'
  <2>1. ~(g > gen)
    BY <1>30, <1>0 DEF ResolveResult, UnusedIsEmpty
  <2>2. gen' = gen /\ \A c \in Gens : c # g =>
          /\ toServer'[c] = toServer[c] /\ toClient'[c] = toClient[c]
          /\ results'[c] = results[c] /\ outgoing'[c] = outgoing[c]
          /\ rpc'[c] = rpc[c]
    BY <1>30, <1>0 DEF ResolveResult, Coalesce, NetworkTypes, ReaderTypes,
       native, sender, reader, network, handler
  <2> QED
    BY <2>1, <2>2, <1>0 DEF UnusedIsEmpty
<1>31. ASSUME NEW g \in Gens, SendResults(g) PROVE UnusedIsEmpty'
  <2>1. ~(g > gen)
    BY <1>31, <1>0 DEF SendResults, UnusedIsEmpty
  <2>2. gen' = gen /\ \A c \in Gens : c # g =>
          /\ toServer'[c] = toServer[c] /\ toClient'[c] = toClient[c]
          /\ results'[c] = results[c] /\ outgoing'[c] = outgoing[c]
          /\ rpc'[c] = rpc[c]
    BY <1>31, <1>0 DEF SendResults, NetworkTypes, ReaderTypes, native, sender,
       reader, network, handler
  <2> QED
    BY <2>1, <2>2, <1>0 DEF UnusedIsEmpty
<1> QED
  BY <1>0, <1>1, <1>2, <1>3, <1>4, <1>5, <1>6, <1>7, <1>8, <1>9, <1>10,
     <1>11, <1>12, <1>13, <1>14, <1>15, <1>16, <1>17, <1>18, <1>19, <1>20,
     <1>21, <1>22, <1>23, <1>24, <1>25, <1>26, <1>27, <1>28, <1>29, <1>30,
     <1>31, StepCases

\* Frame f of session s is taken from connection g and answered with r.
TxnTaken(g, f, s, r) ==
    /\ toServer[g] # <<>> /\ f = toServer[g][1] /\ f.kind = "txn"
    /\ s = owner[g] /\ f.id \in Nat
    /\ Known(s, f) /\ f.p \in Payloads
    /\ toServer' = [toServer EXCEPT ![g] = Tail(@)]
    /\ results' = [results EXCEPT ![g] = Append(@, r)]
    /\ UNCHANGED <<native, sender, link, toClient, owner, outgoing,
                   attached, history, bounds>>

Commits(f, s, r) ==
    /\ r.kind = "ack" /\ r.id = f.id /\ f.id = committed[s] + 1
    /\ r.head = Len(log) + 1
    /\ log' = Append(log, [s |-> s, id |-> f.id, p |-> f.p])
    /\ committed' = [committed EXCEPT ![s] = f.id]

Declines(f, s, r) ==
    /\ \/ /\ r.kind = "ack" /\ r.id = committed[s] /\ r.head = 0
          /\ f.id <= committed[s]
       \/ r.kind \in Refusals /\ r.id = f.id /\ f.id = committed[s] + 1
       \/ r.kind = "unexpected" /\ f.id > committed[s] + 1
    /\ log' = log /\ committed' = committed

\* What the server does with the next transaction of a connection.
LEMMA TxnServed ==
    ASSUME LinkInv, NEW g \in Gens, ServeTxn(g)
    PROVE  \E f \in Frames, s \in Sessions, r \in Replies :
             TxnTaken(g, f, s, r) /\ (Commits(f, s, r) \/ Declines(f, s, r))
<1>0. TypeOK /\ FramesKnown
  BY DEF LinkInv
<1>1. toServer[g] # <<>> /\ Head(toServer[g]).kind = "txn"
      /\ toServer[g] \in Seq(Frames) /\ owner[g] \in Sessions
  BY <1>0 DEF ServeTxn, NextTxn, TypeOK
<1>2. PICK f, s : f = Head(toServer[g]) /\ s = owner[g]
  OBVIOUS
<1>3. f \in Frames /\ f = toServer[g][1]
  BY <1>1, <1>2
<1>4. f.id \in Nat /\ f.kind = "txn" /\ s \in Sessions
  BY <1>1, <1>2, <1>3 DEF Frames
<1>5. Known(s, f) /\ f.p \in Payloads
  BY <1>0, <1>1, <1>2, FramesTyped
<1>6. PICK r : r = Outcome(s, f)
  OBVIOUS
<1>7. r \in Replies
  BY <1>0, <1>3, <1>4, <1>6, OutcomeType
<1>8. /\ toServer' = [toServer EXCEPT ![g] = Tail(@)]
      /\ results' = [results EXCEPT ![g] = Append(@, r)]
      /\ IF r.kind = "ack" /\ r.head > 0
         THEN /\ log' = Append(log, [s |-> s, id |-> f.id, p |-> f.p])
              /\ committed' = [committed EXCEPT ![s] = f.id]
         ELSE UNCHANGED <<log, committed>>
      /\ UNCHANGED <<native, sender, link, toClient, owner, outgoing,
                     attached, history, bounds>>
  BY <1>2, <1>6 DEF ServeTxn, NextTxn
<1>9. committed[s] \in Nat /\ Len(log) + 1 \in Nat /\ Len(log) + 1 > 0
  <2>1. Len(log) \in Nat
    BY <1>0 DEF TypeOK
  <2>2. committed[s] \in Nat
    BY <1>0, <1>4 DEF TypeOK
  <2> QED
    BY <2>1, <2>2
<1>10. PICK v : v = Verdict(f.p)
  OBVIOUS
<1>11. v \in {"stale", "invalid", "ack"}
  BY <1>10 DEF Verdict
<1>12. \/ /\ f.id <= committed[s] /\ r.kind = "ack" /\ r.id = committed[s]
          /\ r.head = 0
       \/ /\ f.id > committed[s] + 1 /\ r.kind = "unexpected"
       \/ /\ f.id = committed[s] + 1 /\ r.kind = v /\ r.id = f.id
          /\ r.head = IF v = "ack" THEN Len(log) + 1 ELSE 0
  <2>1. CASE f.id <= committed[s]
    BY <2>1, <1>6 DEF Outcome, Reply
  <2>2. CASE f.id > committed[s] + 1
    BY <2>2, <1>4, <1>6, <1>9 DEF Outcome, Reply
  <2>3. CASE f.id = committed[s] + 1
    BY <2>3, <1>6, <1>9, <1>10 DEF Outcome, Reply
  <2> QED
    BY <2>1, <2>2, <2>3, <1>4, <1>9
<1>13. TxnTaken(g, f, s, r)
  BY <1>1, <1>2, <1>3, <1>4, <1>5, <1>8 DEF TxnTaken
<1>14. Commits(f, s, r) \/ Declines(f, s, r)
  BY <1>8, <1>9, <1>11, <1>12 DEF Commits, Declines, Refusals
<1> QED
  BY <1>3, <1>4, <1>7, <1>13, <1>14

\* Committed ids only grow.
LEMMA CommittedGrows ==
    ASSUME LinkInv, Next
    PROVE  \A s \in Sessions : committed'[s] >= committed[s]
<1>0. TypeOK /\ committed \in [Sessions -> Nat]
  BY DEF LinkInv, TypeOK
<1>1. ASSUME NEW g \in Gens, ServeTxn(g)
      PROVE  \A s \in Sessions : committed'[s] >= committed[s]
  <2>1. PICK f \in Frames, s \in Sessions, r \in Replies :
          Commits(f, s, r) \/ Declines(f, s, r)
    BY <1>1, TxnServed
  <2>2. \A c \in Sessions : committed'[c] = committed[c]
                            \/ committed'[c] = committed[c] + 1
    BY <2>1, <1>0 DEF Commits, Declines
  <2> QED
    BY <2>2, <1>0
<1>2. CASE UNCHANGED committed
  BY <1>0, <1>2
<1>3. UNCHANGED committed \/ \E g \in Gens : ServeTxn(g)
  <2>1. CASE BeginConnection
    BY <2>1 DEF BeginConnection, server
  <2>2. CASE AttemptFails
    BY <2>2 DEF AttemptFails, server
  <2>3. CASE AcceptHello
    BY <2>3, HelloAccepted DEF server
  <2>4. CASE Publish
    BY <2>4 DEF Publish, server
  <2>5. CASE ReplayNext
    BY <2>5 DEF ReplayNext, server
  <2>6. CASE ReplayDone
    BY <2>6 DEF ReplayDone, server
  <2>7. CASE ReplayFails
    BY <2>7 DEF ReplayFails, server
  <2>8. CASE FinishSend
    BY <2>8 DEF FinishSend, server
  <2>9. CASE SendRaises
    BY <2>9 DEF SendRaises, server
  <2>10. CASE WriterClaim
    BY <2>10 DEF WriterClaim, server
  <2>11. CASE WriterSend
    BY <2>11 DEF WriterSend, server
  <2>12. CASE WriterRaises
    BY <2>12 DEF WriterRaises, server
  <2>13. ASSUME NEW p \in Payloads, SendEvents(p) PROVE UNCHANGED committed
    BY <2>13 DEF SendEvents, server
  <2>14. ASSUME NEW p \in Payloads, RepairRejectedTransaction(p) PROVE UNCHANGED committed
    BY <2>14 DEF RepairRejectedTransaction, server
  <2>15. CASE AbandonRejectedSession
    BY <2>15 DEF AbandonRejectedSession, server
  <2>16. CASE CancelConnect
    BY <2>16 DEF CancelConnect, server
  <2>17. CASE Disconnect
    BY <2>17 DEF Disconnect, server
  <2>18. ASSUME NEW g \in Gens, ServeError(g) PROVE UNCHANGED committed
    BY <2>18 DEF ServeError, server
  <2>19. ASSUME NEW g \in Gens, ServeLimited(g) PROVE UNCHANGED committed
    BY <2>19 DEF ServeLimited, server
  <2>20. ASSUME NEW g \in Gens, Break(g) PROVE UNCHANGED committed
    BY <2>20 DEF Break, server
  <2>21. CASE Restart
    BY <2>21 DEF Restart, server
  <2>22. CASE EditGraph
    BY <2>22 DEF EditGraph, server
  <2>23. ASSUME NEW g \in Gens, ReceiveResult(g) PROVE UNCHANGED committed
    BY <2>23 DEF ReceiveResult, server
  <2>24. ASSUME NEW g \in Gens, ReceiveRaises(g) PROVE UNCHANGED committed
    BY <2>24 DEF ReceiveRaises, server
  <2>25. ASSUME NEW g \in Gens, ApplyResult(g) PROVE UNCHANGED committed
    BY <2>25, ResultApplied DEF server
  <2>26. ASSUME NEW g \in Gens, ApplyLimited(g) PROVE UNCHANGED committed
    BY <2>26 DEF ApplyLimited, server
  <2>27. ASSUME NEW g \in Gens, CloseReader(g) PROVE UNCHANGED committed
    BY <2>27 DEF CloseReader, server
  <2>28. ASSUME NEW g \in Gens, ServeHello(g) PROVE UNCHANGED committed
    BY <2>28 DEF ServeHello, server
  <2>29. ASSUME NEW g \in Gens, ResolveResult(g) PROVE UNCHANGED committed
    BY <2>29 DEF ResolveResult, server
  <2>30. ASSUME NEW g \in Gens, SendResults(g) PROVE UNCHANGED committed
    BY <2>30 DEF SendResults, server
  <2> QED
    BY <1>0, <2>1, <2>2, <2>3, <2>4, <2>5, <2>6, <2>7, <2>8, <2>9, <2>10,
       <2>11, <2>12, <2>13, <2>14, <2>15, <2>16, <2>17, <2>18, <2>19, <2>20,
       <2>21, <2>22, <2>23, <2>24, <2>25, <2>26, <2>27, <2>28, <2>29, <2>30,
       StepCases
<1> QED
  BY <1>1, <1>2, <1>3

-----------------------------------------------------------------------------
(* Connection attempts.                                                    *)

\* A prefix of at most one frame or answer is empty or all of it.
LEMMA ShortPrefix ==
    ASSUME NEW S, NEW q \in Seq(S), NEW n \in 0..Len(q)
    PROVE  /\ q = <<>> => SubSeq(q, 1, n) = <<>>
           /\ Len(q) = 1 => SubSeq(q, 1, n) = <<>> \/ SubSeq(q, 1, n) = q
<1>1. CASE n = 0
  <2>1. SubSeq(q, 1, n) = <<>>
    BY <1>1, SubSeqEmpty
  <2> QED
    BY <2>1
<1>2. CASE n = Len(q)
  <2>1. SubSeq(q, 1, n) = q
    BY <1>2, SubSeqFull
  <2> QED
    BY <2>1
<1>3. Len(q) \in Nat /\ (q = <<>> => Len(q) = 0)
  OBVIOUS
<1>4. CASE Len(q) \notin {0, 1}
  BY <1>4, <1>3
<1>5. CASE Len(q) \in {0, 1}
  <2>1. n = 0 \/ n = Len(q)
    BY <1>3, <1>5
  <2> QED
    BY <2>1, <1>1, <1>2
<1> QED
  BY <1>4, <1>5

\* No transaction is sent before the hello is answered.
LEMMA NoTxnYet ==
    ASSUME Attempting, NetworkTypes, NEW g \in Gens, toServer[g] # <<>>,
           Head(toServer[g]).kind = "txn", attempt \in {"hello", "accepted"}
    PROVE  g # gen
<1>1. Head(<<Hello>>).kind = "hello"
  BY DEF Hello
<1> QED
  BY <1>1 DEF Attempting

\* What happens on other connections does not disturb an attempt.
LEMMA AttemptStays ==
    ASSUME Attempting, NativeTypes, SenderTypes,
           committed \in [Sessions -> Nat],
           UNCHANGED <<attempt, gen, phase, sock, session, background,
                       lastAcked, owner, rpc>>,
           \A s \in Sessions : committed'[s] >= committed[s],
           committed' \in [Sessions -> Nat],
           attempt \in {"hello", "accepted"} =>
             /\ toServer'[gen] = toServer[gen] /\ toClient'[gen] = toClient[gen]
             /\ results'[gen] = results[gen] /\ outgoing'[gen] = outgoing[gen]
    PROVE  Attempting'
<1>1. ASSUME NEW n \in Nat, n \in lastAcked..committed[session]
      PROVE  n \in lastAcked'..committed'[session']
  <2>1. committed'[session] >= committed[session] /\ session \in Sessions
        /\ committed'[session] \in Nat /\ committed[session] \in Nat
        /\ lastAcked \in Nat /\ lastAcked' = lastAcked /\ session' = session
    BY DEF SenderTypes, NativeTypes
  <2> QED
    BY <1>1, <2>1
<1>2. \A n \in lastAcked..committed[session] : n \in Nat
  BY DEF NativeTypes, SenderTypes
<1>3. \A n \in lastAcked..committed[session] :
        n \in lastAcked'..committed'[session']
  BY <1>1, <1>2
<1> QED
  BY <1>3 DEF Attempting

\* A connection attempt keeps its connection to itself.
LEMMA AttemptingKept ==
    ASSUME LinkInv, Next
    PROVE  Attempting'
<1>0. /\ TypeOK /\ NativeTypes /\ SenderTypes /\ ReaderTypes /\ NetworkTypes
      /\ Attempting /\ Published /\ Sending /\ Recovering /\ UnusedIsEmpty
      /\ committed \in [Sessions -> Nat]
      /\ acked[session] = lastAcked /\ acked[session] <= committed[session]
  BY TypeParts DEF LinkInv, ServerTypes, HistoryIsExact, SenderTypes
<1>1. CASE BeginConnection
  <2>1. /\ gen < MaxGen /\ gen' = gen + 1 /\ phase' = "awaiting"
        /\ attempt' = "hello" /\ sock' = 0
        /\ toServer' = [toServer EXCEPT ![gen + 1] = <<Hello>>]
        /\ owner' = [owner EXCEPT ![gen + 1] = session]
        /\ UNCHANGED <<session, rpc, toClient, results, outgoing>>
    BY <1>1 DEF BeginConnection, BeginSession, identity, reader
  <2>2. gen + 1 \in Gens /\ gen + 1 > gen
    BY <2>1, <1>0, BoundsHold DEF NativeTypes, Gens
  <2>3. /\ toClient[gen + 1] = <<>> /\ results[gen + 1] = <<>>
        /\ outgoing[gen + 1] = <<>> /\ rpc[gen + 1] = "none"
    BY <2>2, <1>0 DEF UnusedIsEmpty
  <2>4. toServer'[gen + 1] = <<Hello>> /\ owner'[gen + 1] = session
    BY <2>1, <2>2, <1>0 DEF NetworkTypes
  <2> QED
    BY <2>1, <2>2, <2>3, <2>4 DEF Attempting
<1>2. CASE AttemptFails
  <2>1. attempt' = "idle"
    BY <1>2 DEF AttemptFails
  <2> QED
    BY <2>1 DEF Attempting
<1>3. CASE AcceptHello
  <2>1. /\ phase' = "ready" /\ attempt' = "accepted"
        /\ toClient' = [toClient EXCEPT ![gen] = Tail(@)]
        /\ Len(toClient[gen]) = 1 /\ toServer[gen] = <<>>
        /\ UNCHANGED <<gen, session, sock, rpc, toServer, owner, results,
                       outgoing>>
    BY <1>3, HelloAccepted DEF identity, reader, handler
  <2>2. attempt = "hello" /\ gen \in Gens /\ toClient[gen] \in Seq(Replies)
    BY <1>3, <1>0 DEF AcceptHello, Attempting, NetworkTypes
  <2>3. toClient'[gen] = <<>>
    <3>1. Tail(toClient[gen]) = <<>>
      <4>1. PICK q : q = toClient[gen]
        OBVIOUS
      <4>2. Len(q) = 1 /\ q \in Seq(Replies)
        BY <4>1, <2>1, <2>2
      <4>3. Tail(q) \in Seq(Replies) /\ Len(Tail(q)) = 0
        BY <4>2, HeadTailProperties
      <4>4. Tail(q) = <<>>
        BY <4>3, EmptySeq
      <4> QED
        BY <4>1, <4>4
    <3> QED
      BY <3>1, <2>1, <2>2, <1>0 DEF NetworkTypes
  <2> QED
    BY <2>1, <2>2, <2>3, <1>0 DEF Attempting
<1>4. CASE Publish
  BY <1>4, <1>0 DEF Publish, StillWanted, SendLockFree, Attempting,
       NativeTypes, SenderTypes, ReaderTypes, NetworkTypes, Gens, vars,
       native, sender, network, handler, server, history, bounds, outbox,
       recovery, record, connecting, senders, reader, identity
<1>5. CASE ReplayNext
  BY <1>5, <1>0 DEF ReplayNext, Claimable, ClaimNext, Transmit, Txn,
       Attempting, NativeTypes, SenderTypes, ReaderTypes, NetworkTypes, Gens,
       vars, native, sender, network, handler, server, history, bounds,
       outbox, recovery, record, connecting, senders, reader, identity
<1>6. CASE ReplayDone
  <2>1. attempt' = "idle"
    BY <1>6 DEF ReplayDone
  <2> QED
    BY <2>1 DEF Attempting
<1>7. CASE ReplayFails
  <2>1. attempt' = "idle"
    BY <1>7 DEF ReplayFails
  <2> QED
    BY <2>1 DEF Attempting
<1>8. CASE FinishSend
  <2>0. PICK g, f : /\ g = caller.g
                    /\ \/ toServer' = [toServer EXCEPT ![g] = Append(@, f)]
                       \/ toServer' = toServer
    BY <1>8 DEF FinishSend, Transmit
  <2>1. attempt # "idle" => g # gen
    BY <1>8, <2>0, <1>0 DEF FinishSend, Sending
  <2>2. UNCHANGED <<attempt, gen, phase, sock, session, background, lastAcked,
                    owner, rpc, toClient, results, outgoing>>
        /\ \A c \in Gens : c # g => toServer'[c] = toServer[c]
    BY <1>8, <2>0, <1>0 DEF FinishSend, NetworkTypes, native, outbox,
       identity, connecting, reader, handler
  <2>3. \A s \in Sessions : committed'[s] >= committed[s]
    BY CommittedGrows
  <2>4. committed' \in [Sessions -> Nat]
    BY TypesKept DEF TypeOK
  <2>5. attempt \in {"hello", "accepted"} =>
          /\ toServer'[gen] = toServer[gen] /\ toClient'[gen] = toClient[gen]
          /\ results'[gen] = results[gen] /\ outgoing'[gen] = outgoing[gen]
    BY <2>1, <2>2, <1>0 DEF Attempting
  <2>6. UNCHANGED <<attempt, gen, phase, sock, session, background,
                    lastAcked, owner, rpc>>
    BY <2>2
  <2> QED
    BY <2>3, <2>4, <2>5, <2>6, <1>0, AttemptStays
<1>9. CASE SendRaises
  <2>0. PICK c : /\ c = caller.g /\ Close(c) /\ caller # None /\ caller' = None
               /\ UNCHANGED <<gen, queue, nextId, lastAcked, recovery,
                              identity, record, checkpoint, connecting,
                              reader, toServer, handler, server, history,
                              bounds>>
    BY <1>9, SendRaised
  <2>1. CASE sock = c
    <3>1. c # 0
      BY <2>0, <1>0 DEF SenderTypes, Gens
    <3>2. attempt' = "idle"
      BY <2>0, <2>1, <3>1, <1>0 DEF Attempting, Sending, SenderTypes,
         connecting
    <3> QED
      BY <3>2 DEF Attempting
  <2>2. CASE sock # c
    BY <2>0, <2>2, <1>0 DEF Close, Attempting, identity, connecting, reader,
       handler, server
  <2> QED
    BY <2>1, <2>2
<1>10. CASE WriterClaim
  BY <1>10, <1>0 DEF WriterClaim, Claimable, ClaimNext, Attempting,
       NativeTypes, SenderTypes, ReaderTypes, NetworkTypes, Gens, vars,
       native, sender, network, handler, server, history, bounds, outbox,
       recovery, record, connecting, senders, reader, identity
<1>11. CASE WriterSend
  <2>1. attempt' = "idle"
    BY <1>11, <1>0 DEF WriterSend, Sending, Attempting, connecting, SenderTypes
  <2> QED
    BY <2>1 DEF Attempting
<1>12. CASE WriterRaises
  <2>1. attempt' = "idle"
    BY <1>12, <1>0 DEF WriterRaises, Sending, Attempting, connecting,
       SenderTypes
  <2> QED
    BY <2>1 DEF Attempting
<1>13. ASSUME NEW p \in Payloads, SendEvents(p) PROVE Attempting'
  BY <1>13, <1>0 DEF SendEvents, CanAppend, SendLockFree, AppendNext,
       Submitted, Attempting, NativeTypes, SenderTypes, ReaderTypes,
       NetworkTypes, Gens, vars, native, sender, network, handler, server,
       history, bounds, outbox, recovery, record, connecting, senders,
       reader, identity
<1>14. ASSUME NEW p \in Payloads, RepairRejectedTransaction(p)
       PROVE  Attempting'
  <2>1. attempt' = "idle"
    BY <1>14, <1>0 DEF RepairRejectedTransaction, Recovering, connecting
  <2> QED
    BY <2>1 DEF Attempting
<1>15. CASE AbandonRejectedSession
  <2>1. attempt' = "idle"
    BY <1>15, <1>0 DEF AbandonRejectedSession, Recovering, connecting
  <2> QED
    BY <2>1 DEF Attempting
<1>16. CASE CancelConnect
  BY <1>16, <1>0 DEF CancelConnect, Fault, CloseEnd, Attempting, NativeTypes,
       SenderTypes, ReaderTypes, NetworkTypes, Gens, vars, native, sender,
       network, handler, server, history, bounds, outbox, recovery, record,
       connecting, senders, reader, identity
<1>17. CASE Disconnect
  <2>1. attempt' = "idle"
    BY <1>17, <1>0 DEF Disconnect, SendLockFree, Attempting, connecting,
       SenderTypes
  <2> QED
    BY <2>1 DEF Attempting
<1>18. ASSUME NEW g \in Gens, ServeError(g) PROVE Attempting'
  <2>1. attempt \in {"hello", "accepted"} => g # gen
    BY <1>18, <1>0, NoTxnYet DEF ServeError, NextTxn
  <2>2. UNCHANGED <<attempt, gen, phase, sock, session, background, lastAcked,
                    owner, rpc>>
        /\ \A c \in Gens : c # g =>
             /\ toServer'[c] = toServer[c] /\ toClient'[c] = toClient[c]
             /\ results'[c] = results[c] /\ outgoing'[c] = outgoing[c]
    BY <1>18, <1>0 DEF ServeError, NextTxn, NetworkTypes, native, outbox,
       sender, identity, connecting, reader, handler
  <2>3. \A s \in Sessions : committed'[s] >= committed[s]
    BY CommittedGrows
  <2>4. committed' \in [Sessions -> Nat]
    BY TypesKept DEF TypeOK
  <2>5. attempt \in {"hello", "accepted"} =>
          /\ toServer'[gen] = toServer[gen] /\ toClient'[gen] = toClient[gen]
          /\ results'[gen] = results[gen] /\ outgoing'[gen] = outgoing[gen]
    BY <2>1, <2>2, <1>0 DEF Attempting
  <2>6. UNCHANGED <<attempt, gen, phase, sock, session, background,
                    lastAcked, owner, rpc>>
    BY <2>2
  <2> QED
    BY <2>3, <2>4, <2>5, <2>6, <1>0, AttemptStays
<1>19. ASSUME NEW g \in Gens, ServeLimited(g) PROVE Attempting'
  <2>1. attempt \in {"hello", "accepted"} => g # gen
    BY <1>19, <1>0, NoTxnYet DEF ServeLimited, NextTxn
  <2>2. UNCHANGED <<attempt, gen, phase, sock, session, background, lastAcked,
                    owner, rpc>>
        /\ \A c \in Gens : c # g =>
             /\ toServer'[c] = toServer[c] /\ toClient'[c] = toClient[c]
             /\ results'[c] = results[c] /\ outgoing'[c] = outgoing[c]
    BY <1>19, <1>0 DEF ServeLimited, NextTxn, NetworkTypes, native, outbox,
       sender, identity, connecting, reader, handler, Answer
  <2>3. \A s \in Sessions : committed'[s] >= committed[s]
    BY CommittedGrows
  <2>4. committed' \in [Sessions -> Nat]
    BY TypesKept DEF TypeOK
  <2>5. attempt \in {"hello", "accepted"} =>
          /\ toServer'[gen] = toServer[gen] /\ toClient'[gen] = toClient[gen]
          /\ results'[gen] = results[gen] /\ outgoing'[gen] = outgoing[gen]
    BY <2>1, <2>2, <1>0 DEF Attempting
  <2>6. UNCHANGED <<attempt, gen, phase, sock, session, background,
                    lastAcked, owner, rpc>>
    BY <2>2
  <2> QED
    BY <2>3, <2>4, <2>5, <2>6, <1>0, AttemptStays
<1>20. ASSUME NEW g \in Gens, Break(g) PROVE Attempting'
  <2>1. PICK i \in 0..Len(toServer[g]), j \in 0..Len(toClient[g]) :
          /\ toServer' = [toServer EXCEPT ![g] = SubSeq(@, 1, i)]
          /\ toClient' = [toClient EXCEPT ![g] = SubSeq(@, 1, j)]
    BY <1>20 DEF Break
  <2>2. UNCHANGED <<attempt, gen, phase, sock, session, background, lastAcked,
                    owner, rpc, results, outgoing, committed>>
    BY <1>20 DEF Break, native, outbox, sender, identity, connecting, reader,
       handler, server
  <2>3. /\ toServer[g] = <<>> => toServer'[g] = <<>>
        /\ toClient[g] = <<>> => toClient'[g] = <<>>
        /\ Len(toServer[g]) = 1 =>
             toServer'[g] = <<>> \/ toServer'[g] = toServer[g]
        /\ Len(toClient[g]) = 1 =>
             toClient'[g] = <<>> \/ toClient'[g] = toClient[g]
    <3>1. PICK a, b : a = toServer[g] /\ b = toClient[g]
      OBVIOUS
    <3>2. a \in Seq(Frames) /\ b \in Seq(Replies)
      BY <3>1, <1>0 DEF NetworkTypes
    <3>3. /\ a = <<>> => SubSeq(a, 1, i) = <<>>
          /\ b = <<>> => SubSeq(b, 1, j) = <<>>
          /\ Len(a) = 1 => SubSeq(a, 1, i) = <<>> \/ SubSeq(a, 1, i) = a
          /\ Len(b) = 1 => SubSeq(b, 1, j) = <<>> \/ SubSeq(b, 1, j) = b
      BY <3>1, <3>2, ShortPrefix
    <3>4. toServer'[g] = SubSeq(a, 1, i) /\ toClient'[g] = SubSeq(b, 1, j)
      BY <2>1, <3>1, <1>0 DEF NetworkTypes
    <3> QED
      BY <3>1, <3>3, <3>4
  <2>4. \A c \in Gens : c # g =>
          toServer'[c] = toServer[c] /\ toClient'[c] = toClient[c]
    BY <2>1, <1>0 DEF NetworkTypes
  <2>5. CASE g # gen
    BY <2>2, <2>4, <2>5, <1>0 DEF Attempting
  <2>6. CASE g = gen
    <3>1. Len(<<Hello>>) = 1
      OBVIOUS
    <3> QED
      BY <2>2, <2>3, <2>6, <3>1, <1>0 DEF Attempting
  <2> QED
    BY <2>5, <2>6
<1>21. CASE Restart
  BY <1>21, <1>0 DEF Restart, Fault, Attempting, NativeTypes, SenderTypes,
       ReaderTypes, NetworkTypes, Gens, vars, native, sender, network,
       handler, server, history, bounds, outbox, recovery, record,
       connecting, senders, reader, identity
<1>22. CASE EditGraph
  BY <1>22, <1>0 DEF EditGraph, Attempting, NativeTypes, SenderTypes,
       ReaderTypes, NetworkTypes, Gens, vars, native, sender, network,
       handler, server, history, bounds, outbox, recovery, record,
       connecting, senders, reader, identity
<1>23. ASSUME NEW g \in Gens, ReceiveResult(g) PROVE Attempting'
  BY <1>23, <1>0 DEF ReceiveResult, Attempting, NativeTypes, SenderTypes,
       ReaderTypes, NetworkTypes, Gens, vars, native, sender, network,
       handler, server, history, bounds, outbox, recovery, record,
       connecting, senders, reader, identity
<1>24. ASSUME NEW g \in Gens, ReceiveRaises(g) PROVE Attempting'
  BY <1>24, <1>0 DEF ReceiveRaises, Attempting, NativeTypes, SenderTypes,
       ReaderTypes, NetworkTypes, Gens, vars, native, sender, network,
       handler, server, history, bounds, outbox, recovery, record,
       connecting, senders, reader, identity
<1>25. ASSUME NEW g \in Gens, ApplyResult(g) PROVE Attempting'
  <2>0. /\ rpc[g] = "holding"
        /\ UNCHANGED <<gen, session, background, sock, attempt, toServer,
                       toClient, owner, results, outgoing, committed>>
        /\ sock = g \/ UNCHANGED <<phase, lastAcked>>
        /\ \A c \in Gens : c # g => rpc'[c] = rpc[c]
    BY <1>25, <1>0, ResultApplied DEF identity, connecting, network, handler,
       server, outbox, ReaderTypes
  <2>1. CASE attempt = "idle"
    BY <2>0, <2>1 DEF Attempting
  <2>2. CASE attempt # "idle"
    <3>1. g # gen /\ sock # g
      BY <2>0, <2>2, <1>0 DEF Attempting, Published, SenderTypes, Gens
    <3> QED
      BY <2>0, <3>1, <1>0 DEF Attempting
  <2> QED
    BY <2>1, <2>2
<1>26. ASSUME NEW g \in Gens, ApplyLimited(g) PROVE Attempting'
  BY <1>26, <1>0 DEF ApplyLimited, AfterLimited, Attempting, NativeTypes,
       SenderTypes, ReaderTypes, NetworkTypes, Gens, vars, native, sender,
       network, handler, server, history, bounds, outbox, recovery, record,
       connecting, senders, reader, identity
<1>27. ASSUME NEW g \in Gens, CloseReader(g) PROVE Attempting'
  <2>1. CASE sock = g
    BY <2>1, <1>27, <1>0 DEF CloseReader, Close, EndSession, MarkAllUnsent,
       CloseEnd, Attempting, NativeTypes, SenderTypes, ReaderTypes,
       NetworkTypes, Gens, vars, native, sender, network, handler, server,
       history, bounds, outbox, recovery, record, connecting, senders,
       reader, identity
  <2>2. CASE sock # g
    BY <2>2, <1>27, <1>0 DEF CloseReader, Close, EndSession, MarkAllUnsent,
       CloseEnd, Attempting, NativeTypes, SenderTypes, ReaderTypes,
       NetworkTypes, Gens, vars, native, sender, network, handler, server,
       history, bounds, outbox, recovery, record, connecting, senders,
       reader, identity
  <2> QED
    BY <2>1, <2>2
<1>28. ASSUME NEW g \in Gens, ServeHello(g) PROVE Attempting'
  <2>1. UNCHANGED <<attempt, gen, phase, sock, session, background, lastAcked,
                    owner, rpc, results, outgoing, committed>>
        /\ toServer[g] # <<>>
        /\ toServer' = [toServer EXCEPT ![g] = Tail(@)]
        /\ \/ toClient' = toClient
           \/ toClient' = [toClient EXCEPT ![g] = Append(@,
                             Reply("hello", committed[owner[g]], 0))]
    BY <1>28 DEF ServeHello, Answer, native, outbox, sender, identity,
       connecting, reader, handler, server
  <2>2. CASE g # gen
    BY <2>1, <2>2, <1>0 DEF Attempting, NetworkTypes
  <2>3. CASE g = gen
    <3>1. CASE attempt \in {"idle", "replay"}
      BY <2>1, <3>1, <1>0 DEF Attempting
    <3>2. CASE attempt \in {"hello", "accepted"}
      <4>1. attempt = "hello" /\ toServer[g] = <<Hello>> /\ toClient[g] = <<>>
        BY <2>1, <2>3, <3>2, <1>0 DEF Attempting
      <4>2. toServer'[g] = <<>>
        <5>1. Tail(<<Hello>>) = <<>>
          OBVIOUS
        <5> QED
          BY <5>1, <4>1, <2>1, <1>0 DEF NetworkTypes
      <4>3. PICK x : x = Reply("hello", committed[owner[g]], 0)
        OBVIOUS
      <4>4. toClient'[g] = <<>> \/ toClient'[g] = <<x>>
        <5>1. Append(<<>>, x) = <<x>>
          OBVIOUS
        <5> QED
          BY <5>1, <4>1, <4>3, <2>1, <1>0 DEF NetworkTypes
      <4>5. x.id = committed[session] /\ x.id \in lastAcked..committed[session]
        <5>1. x.id = committed[session]
          BY <4>1, <4>3, <2>3, <1>0 DEF Attempting, Reply
        <5>2. committed[session] \in Nat /\ lastAcked \in Nat
          BY <1>0 DEF SenderTypes, NativeTypes
        <5>3. lastAcked <= committed[session]
          BY <1>0
        <5> QED
          BY <5>1, <5>2, <5>3
      <4>6. toClient'[g] = <<x>> => Len(toClient'[g]) = 1 /\ toClient'[g][1] = x
        OBVIOUS
      <4>7. attempt' = "hello" /\ gen' = g /\ phase' = "awaiting"
            /\ gen' \in Gens /\ owner'[gen'] = session' /\ rpc'[gen'] = "none"
            /\ sock' = 0 /\ results'[gen'] = <<>> /\ outgoing'[gen'] = <<>>
        BY <2>1, <2>3, <4>1, <1>0 DEF Attempting
      <4>8. \/ toServer'[gen'] = <<>> /\ toClient'[gen'] = <<>>
            \/ /\ toServer'[gen'] = <<>> /\ Len(toClient'[gen']) = 1
               /\ toClient'[gen'][1].id \in lastAcked'..committed'[session']
        BY <4>2, <4>4, <4>5, <4>6, <4>7, <2>1
      <4> QED
        BY <4>7, <4>8 DEF Attempting
    <3> QED
      BY <3>1, <3>2, <1>0 DEF SenderTypes
  <2> QED
    BY <2>2, <2>3
<1>29. ASSUME NEW g \in Gens, ServeTxn(g) PROVE Attempting'
  <2>1. attempt \in {"hello", "accepted"} => g # gen
    BY <1>29, <1>0, NoTxnYet DEF ServeTxn, NextTxn
  <2>2. UNCHANGED <<attempt, gen, phase, sock, session, background, lastAcked,
                    owner, rpc>>
        /\ \A c \in Gens : c # g =>
             /\ toServer'[c] = toServer[c] /\ toClient'[c] = toClient[c]
             /\ results'[c] = results[c] /\ outgoing'[c] = outgoing[c]
    BY <1>29, <1>0 DEF ServeTxn, NextTxn, NetworkTypes, native, outbox, sender,
       identity, connecting, reader, handler
  <2>3. \A s \in Sessions : committed'[s] >= committed[s]
    BY CommittedGrows
  <2>4. committed' \in [Sessions -> Nat]
    BY TypesKept DEF TypeOK
  <2>5. attempt \in {"hello", "accepted"} =>
          /\ toServer'[gen] = toServer[gen] /\ toClient'[gen] = toClient[gen]
          /\ results'[gen] = results[gen] /\ outgoing'[gen] = outgoing[gen]
    BY <2>1, <2>2, <1>0 DEF Attempting
  <2>6. UNCHANGED <<attempt, gen, phase, sock, session, background,
                    lastAcked, owner, rpc>>
    BY <2>2
  <2> QED
    BY <2>3, <2>4, <2>5, <2>6, <1>0, AttemptStays
<1>30. ASSUME NEW g \in Gens, ResolveResult(g) PROVE Attempting'
  BY <1>30, <1>0 DEF ResolveResult, Coalesce, Attempting, NativeTypes,
       SenderTypes, ReaderTypes, NetworkTypes, Gens, vars, native, sender,
       network, handler, server, history, bounds, outbox, recovery, record,
       connecting, senders, reader, identity
<1>31. ASSUME NEW g \in Gens, SendResults(g) PROVE Attempting'
  BY <1>31, <1>0 DEF SendResults, Attempting, NativeTypes, SenderTypes,
       ReaderTypes, NetworkTypes, Gens, vars, native, sender, network,
       handler, server, history, bounds, outbox, recovery, record,
       connecting, senders, reader, identity
<1> QED
  BY <1>0, <1>1, <1>2, <1>3, <1>4, <1>5, <1>6, <1>7, <1>8, <1>9, <1>10,
     <1>11, <1>12, <1>13, <1>14, <1>15, <1>16, <1>17, <1>18, <1>19, <1>20,
     <1>21, <1>22, <1>23, <1>24, <1>25, <1>26, <1>27, <1>28, <1>29, <1>30,
     <1>31, StepCases

\* The published socket is the last connection of the session.
LEMMA PublishedKept ==
    ASSUME LinkInv, Next
    PROVE  Published'
<1>0. /\ TypeOK /\ NativeTypes /\ SenderTypes /\ NetworkTypes
      /\ Attempting /\ Published
  BY TypeParts DEF LinkInv
<1>1. CASE BeginConnection
  <2>1. sock' = 0
    BY <1>1, <1>0 DEF BeginConnection
  <2> QED
    BY <2>1 DEF Published
<1>2. CASE AttemptFails
  <2>1. sock' = 0
    BY <1>2, <1>0 DEF AttemptFails, Attempting
  <2> QED
    BY <2>1 DEF Published
<1>3. CASE AcceptHello
  <2>1. sock' = 0
    BY <1>3, <1>0, HelloAccepted DEF AcceptHello, Attempting
  <2> QED
    BY <2>1 DEF Published
<1>4. CASE Publish
  <2>1. /\ sock' = gen /\ attempt = "accepted"
        /\ UNCHANGED <<gen, session, phase, owner, toServer>>
    BY <1>4 DEF Publish, native, identity, network, handler
  <2>2. toServer[gen] = <<>> /\ owner[gen] = session /\ phase = "ready"
    BY <2>1, <1>0 DEF Attempting
  <2>3. DOMAIN toServer[gen] = {}
    BY <2>2
  <2> QED
    BY <2>1, <2>2, <2>3 DEF Published
<1>5. CASE ReplayNext
  <2>0. PICK c, e : /\ c = gen /\ e = queue[unsent + 1]
                    /\ \/ toServer' = [toServer EXCEPT ![c] = Append(@, Txn(e))]
                       \/ toServer' = toServer
    BY <1>5 DEF ReplayNext, Transmit
  <2>1. UNCHANGED <<gen, session, sock, phase, owner>>
    BY <1>5 DEF ReplayNext, native, sender, identity, handler
  <2>2. CASE sock = 0
    BY <2>1, <2>2 DEF Published
  <2>3. CASE sock # 0
    <3>0. sock \in Gens /\ toServer[sock] \in Seq(Frames)
      BY <2>3, <1>0 DEF SenderTypes, NetworkTypes
    <3>1. toServer'[sock] \in {toServer[sock], Append(toServer[sock], Txn(e))}
      BY <2>0, <3>0, <1>0 DEF NetworkTypes
    <3>2. Txn(e).kind = "txn"
      BY DEF Txn
    <3>3. PICK q, x : q = toServer[sock] /\ x = Txn(e)
      OBVIOUS
    <3>4. \A i \in DOMAIN q : q[i].kind = "txn"
      BY <2>3, <3>3, <1>0 DEF Published
    <3>5. \A i \in DOMAIN Append(q, x) : Append(q, x)[i].kind = "txn"
      BY <3>0, <3>2, <3>3, <3>4
    <3>6. \A i \in DOMAIN toServer'[sock] : toServer'[sock][i].kind = "txn"
      BY <3>1, <3>3, <3>4, <3>5
    <3> QED
      BY <2>1, <2>3, <3>6, <1>0 DEF Published
  <2> QED
    BY <2>2, <2>3
<1>6. CASE ReplayDone
  BY <1>6, <1>0 DEF ReplayDone, Claimable, Published, NetworkTypes, vars,
       native, sender, network, handler, server, history, bounds, outbox,
       recovery, record, connecting, senders, reader, identity
<1>7. CASE ReplayFails
  <2>1. sock' = 0
    BY <1>7, <1>0 DEF ReplayFails, Attempting, Close
  <2> QED
    BY <2>1 DEF Published
<1>8. CASE FinishSend
  <2>0. PICK c, e : /\ c = caller.g /\ e = caller.e
                    /\ \/ toServer' = [toServer EXCEPT ![c] = Append(@, Txn(e))]
                       \/ toServer' = toServer
    BY <1>8 DEF FinishSend, Transmit
  <2>1. UNCHANGED <<gen, session, sock, phase, owner>>
    BY <1>8 DEF FinishSend, native, sender, identity, handler
  <2>2. CASE sock = 0
    BY <2>1, <2>2 DEF Published
  <2>3. CASE sock # 0
    <3>0. sock \in Gens /\ toServer[sock] \in Seq(Frames)
      BY <2>3, <1>0 DEF SenderTypes, NetworkTypes
    <3>1. toServer'[sock] \in {toServer[sock], Append(toServer[sock], Txn(e))}
      BY <2>0, <3>0, <1>0 DEF NetworkTypes
    <3>2. Txn(e).kind = "txn"
      BY DEF Txn
    <3>3. PICK q, x : q = toServer[sock] /\ x = Txn(e)
      OBVIOUS
    <3>4. \A i \in DOMAIN q : q[i].kind = "txn"
      BY <2>3, <3>3, <1>0 DEF Published
    <3>5. \A i \in DOMAIN Append(q, x) : Append(q, x)[i].kind = "txn"
      BY <3>0, <3>2, <3>3, <3>4
    <3>6. \A i \in DOMAIN toServer'[sock] : toServer'[sock][i].kind = "txn"
      BY <3>1, <3>3, <3>4, <3>5
    <3> QED
      BY <2>1, <2>3, <3>6, <1>0 DEF Published
  <2> QED
    BY <2>2, <2>3
<1>9. CASE SendRaises
  <2>0. PICK c : /\ c = caller.g /\ Close(c)
               /\ UNCHANGED <<gen, session, toServer, owner>>
    BY <1>9, SendRaised DEF identity, handler
  <2>1. CASE sock = c
    <3>1. sock' = 0
      BY <2>0, <2>1 DEF Close
    <3> QED
      BY <3>1 DEF Published
  <2>2. CASE sock # c
    BY <2>0, <2>2, <1>0 DEF Close, Published
  <2> QED
    BY <2>1, <2>2
<1>10. CASE WriterClaim
  BY <1>10, <1>0 DEF WriterClaim, Claimable, ClaimNext, Published,
       NetworkTypes, vars, native, sender, network, handler, server, history,
       bounds, outbox, recovery, record, connecting, senders, reader,
       identity
<1>11. CASE WriterSend
  <2>0. PICK c, e : /\ c = sock /\ e = claimed
                    /\ \/ toServer' = [toServer EXCEPT ![c] = Append(@, Txn(e))]
                       \/ toServer' = toServer
    BY <1>11 DEF WriterSend, Transmit
  <2>1. UNCHANGED <<gen, session, sock, phase, owner>>
    BY <1>11 DEF WriterSend, native, sender, identity, handler
  <2>2. CASE sock = 0
    BY <2>1, <2>2 DEF Published
  <2>3. CASE sock # 0
    <3>0. sock \in Gens /\ toServer[sock] \in Seq(Frames)
      BY <2>3, <1>0 DEF SenderTypes, NetworkTypes
    <3>1. toServer'[sock] \in {toServer[sock], Append(toServer[sock], Txn(e))}
      BY <2>0, <3>0, <1>0 DEF NetworkTypes
    <3>2. Txn(e).kind = "txn"
      BY DEF Txn
    <3>3. PICK q, x : q = toServer[sock] /\ x = Txn(e)
      OBVIOUS
    <3>4. \A i \in DOMAIN q : q[i].kind = "txn"
      BY <2>3, <3>3, <1>0 DEF Published
    <3>5. \A i \in DOMAIN Append(q, x) : Append(q, x)[i].kind = "txn"
      BY <3>0, <3>2, <3>3, <3>4
    <3>6. \A i \in DOMAIN toServer'[sock] : toServer'[sock][i].kind = "txn"
      BY <3>1, <3>3, <3>4, <3>5
    <3> QED
      BY <2>1, <2>3, <3>6, <1>0 DEF Published
  <2> QED
    BY <2>2, <2>3
<1>12. CASE WriterRaises
  <2>1. sock' = 0
    BY <1>12, <1>0 DEF WriterRaises, Close
  <2> QED
    BY <2>1 DEF Published
<1>13. ASSUME NEW p \in Payloads, SendEvents(p) PROVE Published'
  BY <1>13, <1>0 DEF SendEvents, CanAppend, SendLockFree, AppendNext,
       Submitted, Published, NetworkTypes, vars, native, sender, network,
       handler, server, history, bounds, outbox, recovery, record,
       connecting, senders, reader, identity
<1>14. ASSUME NEW p \in Payloads, RepairRejectedTransaction(p) PROVE Published'
  <2>1. sock' = 0
    BY <1>14, <1>0 DEF RepairRejectedTransaction, CloseForRecovery
  <2> QED
    BY <2>1 DEF Published
<1>15. CASE AbandonRejectedSession
  <2>1. sock' = 0
    BY <1>15, <1>0 DEF AbandonRejectedSession, CloseForRecovery
  <2> QED
    BY <2>1 DEF Published
<1>16. CASE CancelConnect
  <2>1. sock' = 0
    BY <1>16, <1>0 DEF CancelConnect, Attempting
  <2> QED
    BY <2>1 DEF Published
<1>17. CASE Disconnect
  <2>1. sock' = 0
    BY <1>17, <1>0 DEF Disconnect, Close
  <2> QED
    BY <2>1 DEF Published
<1>18. ASSUME NEW g \in Gens, ServeError(g) PROVE Published'
  <2>1. UNCHANGED <<gen, session, sock, phase, owner>>
        /\ toServer[g] # <<>> /\ toServer' = [toServer EXCEPT ![g] = Tail(@)]
    BY <1>18 DEF ServeError, NextTxn, native, sender, identity, handler
  <2>2. \A i \in DOMAIN Tail(toServer[g]) :
          i + 1 \in DOMAIN toServer[g] /\ Tail(toServer[g])[i] = toServer[g][i + 1]
    BY <2>1, <1>0 DEF NetworkTypes
  <2> QED
    BY <2>1, <2>2, <1>0 DEF Published, NetworkTypes
<1>19. ASSUME NEW g \in Gens, ServeLimited(g) PROVE Published'
  <2>1. UNCHANGED <<gen, session, sock, phase, owner>>
        /\ toServer[g] # <<>> /\ toServer' = [toServer EXCEPT ![g] = Tail(@)]
    BY <1>19 DEF ServeLimited, NextTxn, native, sender, identity, handler
  <2>2. \A i \in DOMAIN Tail(toServer[g]) :
          i + 1 \in DOMAIN toServer[g] /\ Tail(toServer[g])[i] = toServer[g][i + 1]
    BY <2>1, <1>0 DEF NetworkTypes
  <2> QED
    BY <2>1, <2>2, <1>0 DEF Published, NetworkTypes
<1>20. ASSUME NEW g \in Gens, Break(g) PROVE Published'
  <2>1. PICK i \in 0..Len(toServer[g]) :
          toServer' = [toServer EXCEPT ![g] = SubSeq(@, 1, i)]
    BY <1>20 DEF Break
  <2>2. UNCHANGED <<gen, session, sock, phase, owner>>
    BY <1>20 DEF Break, native, sender, identity, handler
  <2>3. \A j \in DOMAIN SubSeq(toServer[g], 1, i) :
          j \in DOMAIN toServer[g] /\ SubSeq(toServer[g], 1, i)[j] = toServer[g][j]
    <3>1. PICK q : q = toServer[g] /\ q \in Seq(Frames)
      BY <1>0 DEF NetworkTypes
    <3>2. i \in 0..Len(q) /\ Len(q) \in Nat /\ DOMAIN q = 1..Len(q)
      BY <3>1
    <3>3. /\ Len(SubSeq(q, 1, i)) = i
          /\ \A j \in 1..i : SubSeq(q, 1, i)[j] = q[j]
      BY <3>1, <3>2
    <3>4. DOMAIN SubSeq(q, 1, i) = 1..i
      BY <3>1, <3>2
    <3> QED
      BY <3>1, <3>2, <3>3, <3>4
  <2> QED
    BY <2>1, <2>2, <2>3, <1>0 DEF Published, NetworkTypes
<1>21. CASE Restart
  <2>1. UNCHANGED <<gen, session, sock, phase, owner>>
        /\ toServer' = [c \in Gens |-> <<>>]
    BY <1>21 DEF Restart, native, sender, identity, handler
  <2>2. DOMAIN <<>> = {}
    OBVIOUS
  <2>3. sock # 0 => DOMAIN toServer'[sock] = {}
    <3>1. ASSUME sock # 0 PROVE toServer'[sock] = <<>>
      BY <3>1, <2>1, <1>0 DEF SenderTypes
    <3> QED
      BY <3>1, <2>2
  <2> QED
    BY <2>1, <2>3, <1>0 DEF Published
<1>22. CASE EditGraph
  BY <1>22, <1>0 DEF EditGraph, Published, NetworkTypes, vars, native,
       sender, network, handler, server, history, bounds, outbox, recovery,
       record, connecting, senders, reader, identity
<1>23. ASSUME NEW g \in Gens, ReceiveResult(g) PROVE Published'
  BY <1>23, <1>0 DEF ReceiveResult, Published, NetworkTypes, vars, native,
       sender, network, handler, server, history, bounds, outbox, recovery,
       record, connecting, senders, reader, identity
<1>24. ASSUME NEW g \in Gens, ReceiveRaises(g) PROVE Published'
  BY <1>24, <1>0 DEF ReceiveRaises, Published, NetworkTypes, vars, native,
       sender, network, handler, server, history, bounds, outbox, recovery,
       record, connecting, senders, reader, identity
<1>25. ASSUME NEW g \in Gens, ApplyResult(g) PROVE Published'
  <2>1. UNCHANGED <<gen, session, sock, toServer, owner>>
        /\ phase' \in {phase, "recovery"}
    BY <1>25, <1>0, ResultApplied DEF identity, network, handler, EnterRecovery
  <2> QED
    BY <2>1, <1>0 DEF Published
<1>26. ASSUME NEW g \in Gens, ApplyLimited(g) PROVE Published'
  BY <1>26, <1>0 DEF ApplyLimited, AfterLimited, Published, NetworkTypes,
       vars, native, sender, network, handler, server, history, bounds,
       outbox, recovery, record, connecting, senders, reader, identity
<1>27. ASSUME NEW g \in Gens, CloseReader(g) PROVE Published'
  <2>0. Close(g) /\ UNCHANGED <<gen, session, toServer, owner>>
    BY <1>27 DEF CloseReader, identity, handler
  <2>1. CASE sock = g
    <3>1. sock' = 0
      BY <2>0, <2>1 DEF Close
    <3> QED
      BY <3>1 DEF Published
  <2>2. CASE sock # g
    BY <2>0, <2>2, <1>0 DEF Close, Published
  <2> QED
    BY <2>1, <2>2
<1>28. ASSUME NEW g \in Gens, ServeHello(g) PROVE Published'
  <2>1. UNCHANGED <<gen, session, sock, phase, owner>>
        /\ toServer[g] # <<>> /\ toServer' = [toServer EXCEPT ![g] = Tail(@)]
    BY <1>28 DEF ServeHello, native, sender, identity, handler
  <2>2. \A i \in DOMAIN Tail(toServer[g]) :
          i + 1 \in DOMAIN toServer[g] /\ Tail(toServer[g])[i] = toServer[g][i + 1]
    BY <2>1, <1>0 DEF NetworkTypes
  <2> QED
    BY <2>1, <2>2, <1>0 DEF Published, NetworkTypes
<1>29. ASSUME NEW g \in Gens, ServeTxn(g) PROVE Published'
  <2>1. UNCHANGED <<gen, session, sock, phase, owner>>
        /\ toServer[g] # <<>> /\ toServer' = [toServer EXCEPT ![g] = Tail(@)]
    BY <1>29 DEF ServeTxn, NextTxn, native, sender, identity, handler
  <2>2. \A i \in DOMAIN Tail(toServer[g]) :
          i + 1 \in DOMAIN toServer[g] /\ Tail(toServer[g])[i] = toServer[g][i + 1]
    BY <2>1, <1>0 DEF NetworkTypes
  <2> QED
    BY <2>1, <2>2, <1>0 DEF Published, NetworkTypes
<1>30. ASSUME NEW g \in Gens, ResolveResult(g) PROVE Published'
  BY <1>30, <1>0 DEF ResolveResult, Coalesce, Published, NetworkTypes, vars,
       native, sender, network, handler, server, history, bounds, outbox,
       recovery, record, connecting, senders, reader, identity
<1>31. ASSUME NEW g \in Gens, SendResults(g) PROVE Published'
  BY <1>31, <1>0 DEF SendResults, Published, NetworkTypes, vars, native,
       sender, network, handler, server, history, bounds, outbox, recovery,
       record, connecting, senders, reader, identity
<1> QED
  BY <1>0, <1>1, <1>2, <1>3, <1>4, <1>5, <1>6, <1>7, <1>8, <1>9, <1>10,
     <1>11, <1>12, <1>13, <1>14, <1>15, <1>16, <1>17, <1>18, <1>19, <1>20,
     <1>21, <1>22, <1>23, <1>24, <1>25, <1>26, <1>27, <1>28, <1>29, <1>30,
     <1>31, StepCases

\* What is claimed or being sent is still to be acknowledged.
LEMMA SendingKept ==
    ASSUME LinkInv, Next
    PROVE  Sending'
<1>0. /\ TypeOK /\ NativeTypes /\ SenderTypes /\ OutboxIsExact
      /\ Attempting /\ Published /\ Sending /\ committed \in [Sessions -> Nat]
      /\ lastAcked <= committed[session]
  BY TypeParts DEF LinkInv, ServerTypes, HistoryIsExact, SenderTypes
<1>1. CASE BeginConnection
  <2>1. claimed' = None /\ UNCHANGED <<caller, background, sock, nextId>>
        /\ sock = 0 /\ gen' = gen + 1 /\ attempt' = "hello"
    BY <1>1, <1>0 DEF BeginConnection, BeginSession, senders, identity, Sending
  <2>2. caller # None => caller.g \in Nat /\ caller.g <= gen /\ gen \in Nat
    BY <1>0 DEF Sending, SenderTypes, NativeTypes, Gens
  <2>3. caller # None => caller.g <= gen' /\ caller.g # gen'
    BY <2>1, <2>2
  <2> QED
    BY <2>1, <2>3, <1>0 DEF Sending
<1>2. CASE AttemptFails
  <2>1. claimed' = None /\ UNCHANGED <<caller, background, sock, nextId, gen>>
        /\ attempt' = "idle"
    BY <1>2, <1>0 DEF AttemptFails, senders, identity, Sending, Attempting
  <2> QED
    BY <2>1, <1>0 DEF Sending
<1>3. CASE AcceptHello
  <2>1. PICK id \in Nat : HighwaterValid(id) /\ AcknowledgeOutbox(id)
    BY <1>3, HelloAccepted
  <2>2. nextId' = nextId
    BY <2>1, <1>0, OutboxAcknowledged
  <2>3. claimed' = None /\ UNCHANGED <<caller, background, sock, gen>>
        /\ attempt' = "accepted" /\ attempt = "hello"
    BY <1>3, <1>0, HelloAccepted DEF AcceptHello, senders, identity, Sending,
       Attempting
  <2> QED
    BY <2>2, <2>3, <1>0 DEF Sending
<1>4. CASE Publish
  <2>1. claimed' = None /\ caller' = None
    BY <1>4, <1>0 DEF Publish, SendLockFree, senders, Sending, Attempting
  <2> QED
    BY <2>1 DEF Sending
<1>5. CASE ReplayNext
  <2>1. claimed' = None /\ caller' = None
    BY <1>5, <1>0 DEF ReplayNext, sender, senders, Sending, Attempting
  <2> QED
    BY <2>1 DEF Sending
<1>6. CASE ReplayDone
  <2>1. claimed' = None /\ caller' = None
    BY <1>6, <1>0 DEF ReplayDone, senders, Sending, Attempting
  <2> QED
    BY <2>1 DEF Sending
<1>7. CASE ReplayFails
  <2>1. claimed' = None /\ caller' = None
    BY <1>7, <1>0 DEF ReplayFails, Close, Sending, Attempting
  <2> QED
    BY <2>1 DEF Sending
<1>8. CASE FinishSend
  <2>1. caller' = None
        /\ UNCHANGED <<claimed, background, sock, lastAcked, unsent, committed,
                       session>>
    BY <1>8 DEF FinishSend, native, outbox, identity, server
  <2> QED
    BY <2>1, <1>0 DEF Sending
<1>9. CASE SendRaises
  <2>1. claimed' = None /\ caller' = None
    BY <1>9, <1>0 DEF SendRaises, Close, Sending
  <2> QED
    BY <2>1 DEF Sending
<1>10. CASE WriterClaim
  <2>1. /\ background /\ sock # 0 /\ claimed' = queue[unsent + 1]
        /\ unsent' = unsent + 1 /\ unsent < Len(queue)
        /\ UNCHANGED <<background, sock, lastAcked, caller, committed, session>>
    BY <1>10 DEF WriterClaim, Claimable, ClaimNext, identity, server
  <2>2. unsent + 1 \in DOMAIN queue
    BY <2>1, <1>0 DEF NativeTypes
  <2>3. claimed'.id = lastAcked + (unsent + 1)
    BY <2>1, <2>2, <1>0 DEF OutboxIsExact
  <2>4. caller' = None
    BY <2>1, <1>0 DEF Sending
  <2>5. lastAcked' + unsent' <= Greater(claimed'.id, committed'[session'])
    <3>1. claimed'.id \in Nat /\ lastAcked' + unsent' = claimed'.id
      BY <2>1, <2>3, <1>0 DEF NativeTypes
    <3>2. committed'[session'] \in Nat
      BY <2>1, <1>0 DEF SenderTypes
    <3> QED
      BY <3>1, <3>2 DEF Greater
  <2> QED
    BY <2>1, <2>4, <2>5 DEF Sending
<1>11. CASE WriterSend
  <2>1. claimed' = None /\ caller' = None
    BY <1>11, <1>0 DEF WriterSend, SendLockFree
  <2> QED
    BY <2>1 DEF Sending
<1>12. CASE WriterRaises
  <2>1. claimed' = None /\ caller' = None
    BY <1>12, <1>0 DEF WriterRaises, Close, Sending
  <2> QED
    BY <2>1 DEF Sending
<1>13. ASSUME NEW p \in Payloads, SendEvents(p) PROVE Sending'
  <2>1. sock # 0 /\ nextId' = nextId + 1
        /\ UNCHANGED <<claimed, background, sock, lastAcked, unsent, committed,
                       session, gen, attempt>>
    BY <1>13 DEF SendEvents, AppendNext, identity, server, connecting
  <2>2. CASE background
    <3>1. caller' = None
      BY <1>13, <2>2, <1>0 DEF SendEvents, Sending
    <3> QED
      BY <2>1, <3>1, <1>0 DEF Sending
  <2>3. CASE ~background
    <3>1. /\ attempt # "replay"
          /\ caller' = [g |-> sock, e |-> [id |-> nextId, p |-> p]]
      BY <1>13, <2>3 DEF SendEvents, SendLockFree
    <3>2. attempt = "idle"
      BY <3>1, <2>1, <1>0 DEF Attempting, SenderTypes
    <3>3. claimed = None
      BY <2>3, <1>0 DEF Sending
    <3>4. sock <= gen /\ caller'.g = sock /\ caller'.e.id = nextId' - 1
      BY <2>1, <3>1, <1>0 DEF Published, NativeTypes
    <3> QED
      BY <2>1, <2>3, <3>1, <3>2, <3>3, <3>4 DEF Sending
  <2> QED
    BY <2>2, <2>3
<1>14. ASSUME NEW p \in Payloads, RepairRejectedTransaction(p) PROVE Sending'
  <2>1. claimed' = None /\ caller' = None
    BY <1>14, <1>0 DEF RepairRejectedTransaction, CloseForRecovery,
       SendLockFree
  <2> QED
    BY <2>1 DEF Sending
<1>15. CASE AbandonRejectedSession
  <2>1. claimed' = None /\ caller' = None
    BY <1>15, <1>0 DEF AbandonRejectedSession, CloseForRecovery, SendLockFree
  <2> QED
    BY <2>1 DEF Sending
<1>16. CASE CancelConnect
  BY <1>16, <1>0 DEF CancelConnect, Fault, CloseEnd, Sending, vars, native,
       sender, network, handler, server, history, bounds, outbox, recovery,
       record, connecting, senders, reader, identity
<1>17. CASE Disconnect
  <2>1. claimed' = None /\ sock' = 0
        /\ UNCHANGED <<caller, background, attempt, gen, nextId>>
    BY <1>17 DEF Disconnect, Close, identity, connecting
  <2> QED
    BY <2>1, <1>0 DEF Sending
<1>18. ASSUME NEW g \in Gens, ServeError(g) PROVE Sending'
  BY <1>18, <1>0 DEF ServeError, NextTxn, Fault, Reply, Sending, vars,
       native, sender, network, handler, server, history, bounds, outbox,
       recovery, record, connecting, senders, reader, identity
<1>19. ASSUME NEW g \in Gens, ServeLimited(g) PROVE Sending'
  BY <1>19, <1>0 DEF ServeLimited, NextTxn, Fault, Answer, Reply, Sending,
       vars, native, sender, network, handler, server, history, bounds,
       outbox, recovery, record, connecting, senders, reader, identity
<1>20. ASSUME NEW g \in Gens, Break(g) PROVE Sending'
  BY <1>20, <1>0 DEF Break, Fault, Sending, vars, native, sender, network,
       handler, server, history, bounds, outbox, recovery, record,
       connecting, senders, reader, identity
<1>21. CASE Restart
  BY <1>21, <1>0 DEF Restart, Fault, Sending, vars, native, sender, network,
       handler, server, history, bounds, outbox, recovery, record,
       connecting, senders, reader, identity
<1>22. CASE EditGraph
  BY <1>22, <1>0 DEF EditGraph, Sending, vars, native, sender, network,
       handler, server, history, bounds, outbox, recovery, record,
       connecting, senders, reader, identity
<1>23. ASSUME NEW g \in Gens, ReceiveResult(g) PROVE Sending'
  BY <1>23, <1>0 DEF ReceiveResult, Sending, vars, native, sender, network,
       handler, server, history, bounds, outbox, recovery, record,
       connecting, senders, reader, identity
<1>24. ASSUME NEW g \in Gens, ReceiveRaises(g) PROVE Sending'
  BY <1>24, <1>0 DEF ReceiveRaises, Sending, vars, native, sender, network,
       handler, server, history, bounds, outbox, recovery, record,
       connecting, senders, reader, identity
<1>25. ASSUME NEW g \in Gens, ApplyResult(g) PROVE Sending'
  <2>0. UNCHANGED <<gen, session, background, sock, attempt, caller, claimed,
                    committed>>
    BY <1>25, ResultApplied DEF identity, connecting, senders, server
  <2>1. lastAcked \in Nat /\ unsent \in Nat /\ committed[session] \in Nat
        /\ (claimed # None => claimed.id \in Nat)
    BY <1>0 DEF NativeTypes, SenderTypes, Entries
  <2>2. ASSUME nextId' = nextId,
               claimed # None => lastAcked' + unsent'
                                   <= Greater(claimed.id, committed[session])
        PROVE  Sending'
    BY <2>0, <2>2, <1>0 DEF Sending
  <2>3. CASE UNCHANGED <<phase, outbox>>
    BY <2>2, <2>3, <1>0 DEF outbox, Sending
  <2>4. CASE /\ hand[g] \in Replies /\ HighwaterValid(hand[g].id)
             /\ hand[g].id <= committed[session]
             /\ AcknowledgeOutbox(hand[g].id)
    <3>1. PICK id \in Nat : HighwaterValid(id) /\ AcknowledgeOutbox(id)
                            /\ id <= committed[session]
      BY <2>4 DEF Replies
    <3>2. nextId' = nextId /\ lastAcked' + unsent' =
            IF id - lastAcked < unsent THEN lastAcked + unsent ELSE id
      BY <3>1, <1>0, OutboxAcknowledged
    <3>3. claimed # None => lastAcked' + unsent'
                              <= Greater(claimed.id, committed[session])
      <4>1. CASE lastAcked' + unsent' = lastAcked + unsent
        BY <4>1, <1>0 DEF Sending
      <4>2. CASE lastAcked' + unsent' = id
        BY <4>2, <3>1, <2>1 DEF Greater
      <4> QED
        BY <3>2, <4>1, <4>2
    <3> QED
      BY <3>2, <3>3, <2>2
  <2>5. CASE EnterRecovery(hand[g].id, DispositionOf(hand[g].kind))
             /\ UNCHANGED <<queue, nextId, lastAcked, acked, checkpoint>>
    <3>1. unsent' = 0 /\ nextId' = nextId /\ lastAcked' = lastAcked
      BY <2>5 DEF EnterRecovery, MarkAllUnsent
    <3>2. lastAcked <= committed[session]
      BY <1>0
    <3>3. claimed # None => lastAcked' + unsent'
                              <= Greater(claimed.id, committed[session])
      BY <3>1, <3>2, <2>1 DEF Greater
    <3> QED
      BY <3>1, <3>3, <2>2
  <2> QED
    BY <1>25, <2>3, <2>4, <2>5, ResultApplied
<1>26. ASSUME NEW g \in Gens, ApplyLimited(g) PROVE Sending'
  BY <1>26, <1>0 DEF ApplyLimited, AfterLimited, Sending, vars, native,
       sender, network, handler, server, history, bounds, outbox, recovery,
       record, connecting, senders, reader, identity
<1>27. ASSUME NEW g \in Gens, CloseReader(g) PROVE Sending'
  <2>1. (claimed' = None /\ sock' = 0) \/ UNCHANGED <<claimed, sock, unsent>>
    BY <1>27 DEF CloseReader, Close
  <2>2. UNCHANGED <<caller, background, attempt, gen, nextId, lastAcked,
                    committed, session>>
    BY <1>27 DEF CloseReader, identity, connecting, server
  <2> QED
    BY <2>1, <2>2, <1>0 DEF Sending
<1>28. ASSUME NEW g \in Gens, ServeHello(g) PROVE Sending'
  BY <1>28, <1>0 DEF ServeHello, Answer, Reply, Sending, vars, native,
       sender, network, handler, server, history, bounds, outbox, recovery,
       record, connecting, senders, reader, identity
<1>29. ASSUME NEW g \in Gens, ServeTxn(g) PROVE Sending'
  <2>1. UNCHANGED <<caller, background, attempt, gen, nextId, lastAcked, unsent,
                    session, claimed, sock>>
    BY <1>29 DEF ServeTxn, native, outbox, sender, identity, connecting,
       senders
  <2>2. committed'[session] >= committed[session]
    BY <1>0, CommittedGrows DEF SenderTypes
  <2>3. committed'[session] \in Nat /\ committed[session] \in Nat
        /\ lastAcked \in Nat /\ unsent \in Nat
        /\ (claimed # None => claimed.id \in Nat)
    BY <1>0, TypesKept DEF SenderTypes, NativeTypes, TypeOK, Entries
  <2>4. claimed # None => lastAcked + unsent
                            <= Greater(claimed.id, committed'[session])
    BY <2>2, <2>3, <1>0 DEF Sending, Greater
  <2> QED
    BY <2>1, <2>4, <1>0 DEF Sending
<1>30. ASSUME NEW g \in Gens, ResolveResult(g) PROVE Sending'
  BY <1>30, <1>0 DEF ResolveResult, Coalesce, Sending, vars, native, sender,
       network, handler, server, history, bounds, outbox, recovery, record,
       connecting, senders, reader, identity
<1>31. ASSUME NEW g \in Gens, SendResults(g) PROVE Sending'
  BY <1>31, <1>0 DEF SendResults, Sending, vars, native, sender, network,
       handler, server, history, bounds, outbox, recovery, record,
       connecting, senders, reader, identity
<1> QED
  BY <1>0, <1>1, <1>2, <1>3, <1>4, <1>5, <1>6, <1>7, <1>8, <1>9, <1>10,
     <1>11, <1>12, <1>13, <1>14, <1>15, <1>16, <1>17, <1>18, <1>19, <1>20,
     <1>21, <1>22, <1>23, <1>24, <1>25, <1>26, <1>27, <1>28, <1>29, <1>30,
     <1>31, StepCases

\* A recorded failure names an entry of the outbox.
LEMMA RecoveringKept ==
    ASSUME LinkInv, Next
    PROVE  Recovering'
<1>0. /\ TypeOK /\ NativeTypes /\ SenderTypes /\ ReaderTypes
      /\ Attempting /\ Published /\ Sending /\ Recovering
  BY TypeParts DEF LinkInv
<1>1. CASE BeginConnection
  <2>1. failure' = None /\ phase' # "recovery" /\ disposition' = "none"
    BY <1>1, <1>0 DEF BeginConnection, BeginSession, Recovering, record,
       recovery
  <2> QED
    BY <2>1 DEF Recovering
<1>2. CASE AttemptFails
  <2>1. failure' = None /\ phase' # "recovery" /\ disposition' = "none"
    BY <1>2, <1>0 DEF AttemptFails, EndSession, Recovering, record, recovery
  <2> QED
    BY <2>1 DEF Recovering
<1>3. CASE AcceptHello
  <2>1. failure' = None /\ phase' # "recovery" /\ disposition' = "none"
    BY <1>3, <1>0, HelloAccepted DEF AcceptHello, Recovering, record, recovery
  <2> QED
    BY <2>1 DEF Recovering
<1>4. CASE Publish
  <2>1. failure' = None /\ phase' # "recovery" /\ disposition' = "none"
    BY <1>4, <1>0 DEF Publish, Recovering, record, native, recovery
  <2> QED
    BY <2>1 DEF Recovering
<1>5. CASE ReplayNext
  <2>1. failure' = None /\ phase' # "recovery" /\ disposition' = "none"
    BY <1>5, <1>0 DEF ReplayNext, Recovering, sender, record, recovery
  <2> QED
    BY <2>1 DEF Recovering
<1>6. CASE ReplayDone
  <2>1. failure' = None /\ phase' # "recovery" /\ disposition' = "none"
    BY <1>6, <1>0 DEF ReplayDone, Recovering, record, native, recovery
  <2> QED
    BY <2>1 DEF Recovering
<1>7. CASE ReplayFails
  <2>1. failure' = None /\ phase' # "recovery" /\ disposition' = "none"
    BY <1>7, <1>0 DEF ReplayFails, Recovering, Attempting, Close, EndSession,
       record, recovery
  <2> QED
    BY <2>1 DEF Recovering
<1>8. CASE FinishSend
  BY <1>8, <1>0 DEF FinishSend, Transmit, Txn, Recovering, ReaderTypes,
       SenderTypes, vars, native, sender, network, handler, server, history,
       bounds, outbox, recovery, record, connecting, senders, reader,
       identity
<1>9. CASE SendRaises
  <2>0. PICK c : Close(c) /\ UNCHANGED <<failure, disposition, rejectedId, attempt, lastAcked,
                                 nextId, rpc>>
    BY <1>9, SendRaised DEF record, recovery, connecting, reader
  <2>1. CASE sock = c
    <3>1. sock' = 0 /\ phase' = IF phase = "recovery" THEN phase ELSE "disconnected"
      BY <2>0, <2>1 DEF Close, EndSession
    <3> QED
      BY <2>0, <3>1, <1>0 DEF Recovering
  <2>2. CASE sock # c
    <3>1. UNCHANGED <<sock, phase>>
      BY <2>0, <2>2 DEF Close
    <3> QED
      BY <2>0, <2>2, <3>1, <1>0 DEF Recovering, ReaderTypes, SenderTypes
  <2> QED
    BY <2>1, <2>2
<1>10. CASE WriterClaim
  <2>1. failure' = None /\ phase' # "recovery" /\ disposition' = "none"
    BY <1>10, <1>0 DEF WriterClaim, Recovering, record, recovery
  <2> QED
    BY <2>1 DEF Recovering
<1>11. CASE WriterSend
  BY <1>11, <1>0 DEF WriterSend, SendLockFree, Transmit, Txn, Recovering,
       ReaderTypes, SenderTypes, vars, native, sender, network, handler,
       server, history, bounds, outbox, recovery, record, connecting,
       senders, reader, identity
<1>12. CASE WriterRaises
  <2>0. Close(sock) /\ UNCHANGED <<failure, disposition, rejectedId, attempt, lastAcked,
                                 nextId, rpc>>
    BY <1>12 DEF WriterRaises, record, recovery, connecting, reader
  <2>1. CASE sock = sock
    <3>1. sock' = 0 /\ phase' = IF phase = "recovery" THEN phase ELSE "disconnected"
      BY <2>0, <2>1 DEF Close, EndSession
    <3> QED
      BY <2>0, <3>1, <1>0 DEF Recovering
  <2>2. CASE sock # sock
    <3>1. UNCHANGED <<sock, phase>>
      BY <2>0, <2>2 DEF Close
    <3> QED
      BY <2>0, <2>2, <3>1, <1>0 DEF Recovering, ReaderTypes, SenderTypes
  <2> QED
    BY <2>1, <2>2
<1>13. ASSUME NEW p \in Payloads, SendEvents(p) PROVE Recovering'
  <2>1. failure' = None /\ phase' # "recovery" /\ disposition' = "none"
    BY <1>13, <1>0 DEF SendEvents, Recovering, record, recovery
  <2> QED
    BY <2>1 DEF Recovering
<1>14. ASSUME NEW p \in Payloads, RepairRejectedTransaction(p)
       PROVE  Recovering'
  <2>1. failure' = None /\ phase' # "recovery" /\ disposition' = "none"
    BY <1>14, <1>0 DEF RepairRejectedTransaction, RepairRejected,
       ClearFailure, ClearRecovery
  <2> QED
    BY <2>1 DEF Recovering
<1>15. CASE AbandonRejectedSession
  <2>1. failure' = None /\ phase' # "recovery" /\ disposition' = "none"
    BY <1>15, <1>0 DEF AbandonRejectedSession, ResetSession, ClearFailure,
       ClearRecovery
  <2> QED
    BY <2>1 DEF Recovering
<1>16. CASE CancelConnect
  <2>1. failure' = None /\ phase' # "recovery" /\ disposition' = "none"
    BY <1>16, <1>0 DEF CancelConnect, Recovering, record, native, recovery
  <2> QED
    BY <2>1 DEF Recovering
<1>17. CASE Disconnect
  <2>0. Close(sock) /\ UNCHANGED <<failure, disposition, rejectedId, attempt, lastAcked,
                                 nextId, rpc>>
    BY <1>17 DEF Disconnect, record, recovery, connecting, reader
  <2>1. CASE sock = sock
    <3>1. sock' = 0 /\ phase' = IF phase = "recovery" THEN phase ELSE "disconnected"
      BY <2>0, <2>1 DEF Close, EndSession
    <3> QED
      BY <2>0, <3>1, <1>0 DEF Recovering
  <2>2. CASE sock # sock
    <3>1. UNCHANGED <<sock, phase>>
      BY <2>0, <2>2 DEF Close
    <3> QED
      BY <2>0, <2>2, <3>1, <1>0 DEF Recovering, ReaderTypes, SenderTypes
  <2> QED
    BY <2>1, <2>2
<1>18. ASSUME NEW g \in Gens, ServeError(g) PROVE Recovering'
  BY <1>18, <1>0 DEF ServeError, NextTxn, Fault, Reply, Recovering,
       ReaderTypes, SenderTypes, vars, native, sender, network, handler,
       server, history, bounds, outbox, recovery, record, connecting,
       senders, reader, identity
<1>19. ASSUME NEW g \in Gens, ServeLimited(g) PROVE Recovering'
  BY <1>19, <1>0 DEF ServeLimited, NextTxn, Fault, Answer, Reply, Recovering,
       ReaderTypes, SenderTypes, vars, native, sender, network, handler,
       server, history, bounds, outbox, recovery, record, connecting,
       senders, reader, identity
<1>20. ASSUME NEW g \in Gens, Break(g) PROVE Recovering'
  BY <1>20, <1>0 DEF Break, Fault, Recovering, ReaderTypes, SenderTypes,
       vars, native, sender, network, handler, server, history, bounds,
       outbox, recovery, record, connecting, senders, reader, identity
<1>21. CASE Restart
  BY <1>21, <1>0 DEF Restart, Fault, Recovering, ReaderTypes, SenderTypes,
       vars, native, sender, network, handler, server, history, bounds,
       outbox, recovery, record, connecting, senders, reader, identity
<1>22. CASE EditGraph
  BY <1>22, <1>0 DEF EditGraph, Recovering, ReaderTypes, SenderTypes, vars,
       native, sender, network, handler, server, history, bounds, outbox,
       recovery, record, connecting, senders, reader, identity
<1>23. ASSUME NEW g \in Gens, ReceiveResult(g) PROVE Recovering'
  <2>1. failure' = None /\ phase' # "recovery" /\ disposition' = "none"
    BY <1>23, <1>0 DEF ReceiveResult, Recovering, record, native, recovery,
       Gens
  <2> QED
    BY <2>1 DEF Recovering
<1>24. ASSUME NEW g \in Gens, ReceiveRaises(g) PROVE Recovering'
  BY <1>24, <1>0 DEF ReceiveRaises, Recovering, ReaderTypes, SenderTypes,
       vars, native, sender, network, handler, server, history, bounds,
       outbox, recovery, record, connecting, senders, reader, identity
<1>25. ASSUME NEW g \in Gens, ApplyResult(g) PROVE Recovering'
  <2>0. rpc[g] = "holding" /\ UNCHANGED <<sock, attempt>>
    BY <1>25, ResultApplied DEF connecting
  <2>1. CASE /\ sock # g /\ rpc' = [rpc EXCEPT ![g] = "waiting"]
             /\ UNCHANGED <<phase, outbox, recovery, record, checkpoint, acked>>
    BY <2>0, <2>1, <1>0 DEF Recovering, outbox, recovery, record, ReaderTypes,
       SenderTypes
  <2>2. CASE failure = None /\ UNCHANGED <<phase, recovery, record>>
    BY <2>2, <1>0 DEF Recovering, recovery, record
  <2>3. CASE /\ sock = g /\ rpc' = [rpc EXCEPT ![g] = "closing"]
             /\ hand[g] \in Replies /\ hand[g].kind \in Refusals
             /\ hand[g].id > lastAcked /\ hand[g].id < nextId
             /\ EnterRecovery(hand[g].id, DispositionOf(hand[g].kind))
             /\ RecordFailure([id |-> hand[g].id, disposition |->
                                DispositionOf(hand[g].kind)])
             /\ UNCHANGED <<queue, nextId, lastAcked, acked, checkpoint>>
    <3>1. PICK d : d = DispositionOf(hand[g].kind)
      OBVIOUS
    <3>2. d \in {"conflict", "invalid"}
      BY <2>3, <3>1 DEF DispositionOf, Refusals
    <3>3. /\ failure' = [id |-> hand[g].id, disposition |-> d]
          /\ phase' = "recovery" /\ rejectedId' = hand[g].id /\ disposition' = d
      BY <2>3, <3>1 DEF EnterRecovery, RecordFailure
    <3>4. failure' # None
      <4>1. hand[g].id \in Nat
        BY <2>3 DEF Replies
      <4> QED
        BY <3>2, <3>3, <4>1, NoneAssumption
    <3>5. attempt = "idle"
      BY <2>0, <2>3, <1>0 DEF Attempting, Published, SenderTypes, Gens
    <3>6. rpc'[g] = "closing"
      BY <2>3, <1>0 DEF ReaderTypes
    <3>7. rejectedId' > lastAcked' /\ rejectedId' < nextId'
      BY <2>3, <3>3
    <3> QED
      BY <2>0, <2>3, <3>2, <3>3, <3>4, <3>5, <3>6, <3>7 DEF Recovering
  <2> QED
    BY <1>25, <2>1, <2>2, <2>3, ResultApplied
<1>26. ASSUME NEW g \in Gens, ApplyLimited(g) PROVE Recovering'
  BY <1>26, <1>0 DEF ApplyLimited, AfterLimited, Recovering, ReaderTypes,
       SenderTypes, vars, native, sender, network, handler, server, history,
       bounds, outbox, recovery, record, connecting, senders, reader,
       identity
<1>27. ASSUME NEW g \in Gens, CloseReader(g) PROVE Recovering'
  <2>0. Close(g) /\ rpc' = [rpc EXCEPT ![g] = "none"] /\ UNCHANGED <<failure, disposition, rejectedId, attempt, lastAcked,
                                 nextId>>
    BY <1>27 DEF CloseReader, record, recovery, connecting
  <2>1. CASE sock = g
    <3>1. sock' = 0 /\ phase' = IF phase = "recovery" THEN phase ELSE "disconnected"
      BY <2>0, <2>1 DEF Close, EndSession
    <3> QED
      BY <2>0, <3>1, <1>0 DEF Recovering
  <2>2. CASE sock # g
    <3>1. UNCHANGED <<sock, phase>>
      BY <2>0, <2>2 DEF Close
    <3> QED
      BY <2>0, <2>2, <3>1, <1>0 DEF Recovering, ReaderTypes, SenderTypes
  <2> QED
    BY <2>1, <2>2
<1>28. ASSUME NEW g \in Gens, ServeHello(g) PROVE Recovering'
  BY <1>28, <1>0 DEF ServeHello, Answer, Reply, Recovering, ReaderTypes,
       SenderTypes, vars, native, sender, network, handler, server, history,
       bounds, outbox, recovery, record, connecting, senders, reader,
       identity
<1>29. ASSUME NEW g \in Gens, ServeTxn(g) PROVE Recovering'
  BY <1>29, <1>0 DEF ServeTxn, NextTxn, Recovering, ReaderTypes, SenderTypes,
       vars, native, sender, network, handler, server, history, bounds,
       outbox, recovery, record, connecting, senders, reader, identity
<1>30. ASSUME NEW g \in Gens, ResolveResult(g) PROVE Recovering'
  BY <1>30, <1>0 DEF ResolveResult, Coalesce, Recovering, ReaderTypes,
       SenderTypes, vars, native, sender, network, handler, server, history,
       bounds, outbox, recovery, record, connecting, senders, reader,
       identity
<1>31. ASSUME NEW g \in Gens, SendResults(g) PROVE Recovering'
  BY <1>31, <1>0 DEF SendResults, Recovering, ReaderTypes, SenderTypes, vars,
       native, sender, network, handler, server, history, bounds, outbox,
       recovery, record, connecting, senders, reader, identity
<1> QED
  BY <1>0, <1>1, <1>2, <1>3, <1>4, <1>5, <1>6, <1>7, <1>8, <1>9, <1>10,
     <1>11, <1>12, <1>13, <1>14, <1>15, <1>16, <1>17, <1>18, <1>19, <1>20,
     <1>21, <1>22, <1>23, <1>24, <1>25, <1>26, <1>27, <1>28, <1>29, <1>30,
     <1>31, StepCases

\* The outbox holds what is submitted and not acknowledged, once and in order.
LEMMA OutboxIsExactKept ==
    ASSUME LinkInv, Next
    PROVE  OutboxIsExact'
<1>0. /\ TypeOK /\ NativeTypes /\ SenderTypes /\ OutboxIsExact /\ Recovering
      /\ HistoryIsExact /\ versions \in [Sessions -> Seq(Seq(Payloads))]
  BY TypeParts DEF LinkInv, ServerTypes
<1>1. CASE BeginConnection
  <2>1. UNCHANGED <<session, versions, nextId, lastAcked, queue>>
    BY <1>1 DEF BeginConnection, native, outbox, sender, identity, history
  <2> QED
    BY <2>1, <1>0 DEF OutboxIsExact, Current
<1>2. CASE AttemptFails
  <2>1. UNCHANGED <<session, versions, nextId, lastAcked, queue>>
    BY <1>2 DEF AttemptFails, native, outbox, sender, identity, history
  <2> QED
    BY <2>1, <1>0 DEF OutboxIsExact, Current
<1>3. CASE AcceptHello
  <2>1. PICK id \in Nat : HighwaterValid(id) /\ AcknowledgeOutbox(id)
    BY <1>3, HelloAccepted
  <2>2. /\ lastAcked' = id /\ nextId' = nextId
        /\ queue' \in Seq(Entries)
        /\ Len(queue') = nextId - 1 - id
        /\ \A i \in DOMAIN queue' : queue'[i] = queue[i + (id - lastAcked)]
    BY <2>1, <1>0, OutboxAcknowledged
  <2>3. UNCHANGED <<session, versions>>
    BY <1>3, HelloAccepted DEF identity
  <2>4. OutboxIsExact'
    <3>1. /\ id >= lastAcked /\ id < nextId /\ lastAcked \in Nat /\ nextId \in Nat
          /\ Len(queue) = nextId - 1 - lastAcked /\ queue \in Seq(Entries)
          /\ \A i \in DOMAIN queue : /\ queue[i].id = lastAcked + i
                                     /\ queue[i].p = Current(session, lastAcked + i)
      BY <2>1, <1>0 DEF HighwaterValid, NativeTypes, OutboxIsExact
    <3>2. ASSUME NEW i \in DOMAIN queue'
          PROVE  queue'[i].id = id + i /\ queue'[i].p = Current(session, id + i)
      <4>1. PICK k : k = i + (id - lastAcked)
        OBVIOUS
      <4>2. i \in 1..(nextId - 1 - id)
        BY <2>2
      <4>3. k \in DOMAIN queue /\ lastAcked + k = id + i
        BY <3>1, <4>1, <4>2
      <4>4. queue'[i] = queue[k]
        BY <2>2, <4>1
      <4> QED
        BY <3>1, <4>3, <4>4
    <3> QED
      BY <2>2, <2>3, <3>1, <3>2, <1>0 DEF OutboxIsExact, Current
  <2> QED
    BY <2>4
<1>4. CASE Publish
  <2>1. UNCHANGED <<session, versions, nextId, lastAcked, queue>>
    BY <1>4 DEF Publish, native, outbox, sender, identity, history
  <2> QED
    BY <2>1, <1>0 DEF OutboxIsExact, Current
<1>5. CASE ReplayNext
  <2>1. UNCHANGED <<session, versions, nextId, lastAcked, queue>>
    BY <1>5 DEF ReplayNext, native, outbox, sender, identity, history
  <2> QED
    BY <2>1, <1>0 DEF OutboxIsExact, Current
<1>6. CASE ReplayDone
  <2>1. UNCHANGED <<session, versions, nextId, lastAcked, queue>>
    BY <1>6 DEF ReplayDone, native, outbox, sender, identity, history
  <2> QED
    BY <2>1, <1>0 DEF OutboxIsExact, Current
<1>7. CASE ReplayFails
  <2>1. UNCHANGED <<session, versions, nextId, lastAcked, queue>>
    BY <1>7 DEF ReplayFails, native, outbox, sender, identity, history
  <2> QED
    BY <2>1, <1>0 DEF OutboxIsExact, Current
<1>8. CASE FinishSend
  <2>1. UNCHANGED <<session, versions, nextId, lastAcked, queue>>
    BY <1>8 DEF FinishSend, native, outbox, sender, identity, history
  <2> QED
    BY <2>1, <1>0 DEF OutboxIsExact, Current
<1>9. CASE SendRaises
  <2>1. UNCHANGED <<session, versions, nextId, lastAcked, queue>>
    BY <1>9 DEF SendRaises, native, outbox, sender, identity, history
  <2> QED
    BY <2>1, <1>0 DEF OutboxIsExact, Current
<1>10. CASE WriterClaim
  <2>1. UNCHANGED <<session, versions, nextId, lastAcked, queue>>
    BY <1>10 DEF WriterClaim, native, outbox, sender, identity, history
  <2> QED
    BY <2>1, <1>0 DEF OutboxIsExact, Current
<1>11. CASE WriterSend
  <2>1. UNCHANGED <<session, versions, nextId, lastAcked, queue>>
    BY <1>11 DEF WriterSend, native, outbox, sender, identity, history
  <2> QED
    BY <2>1, <1>0 DEF OutboxIsExact, Current
<1>12. CASE WriterRaises
  <2>1. UNCHANGED <<session, versions, nextId, lastAcked, queue>>
    BY <1>12 DEF WriterRaises, native, outbox, sender, identity, history
  <2> QED
    BY <2>1, <1>0 DEF OutboxIsExact, Current
<1>13. ASSUME NEW p \in Payloads, SendEvents(p) PROVE OutboxIsExact'
  <2>1. /\ queue' = Append(queue, [id |-> nextId, p |-> p])
        /\ nextId' = nextId + 1
        /\ versions' = [versions EXCEPT ![session] = Append(@, <<p>>)]
        /\ UNCHANGED <<lastAcked, session>>
    BY <1>13 DEF SendEvents, AppendNext, Submitted, identity
  <2>2. PICK v : v = versions[session] /\ v \in Seq(Seq(Payloads))
    BY <1>0 DEF SenderTypes
  <2>3. versions'[session] = Append(v, <<p>>)
    BY <2>1, <2>2, <1>0 DEF SenderTypes
  <2>4. /\ Len(v) = nextId - 1 /\ lastAcked < nextId
        /\ lastAcked \in Nat /\ nextId \in Nat /\ queue \in Seq(Entries)
        /\ Len(queue) = nextId - 1 - lastAcked
    BY <2>2, <1>0 DEF OutboxIsExact, NativeTypes
  <2>5. /\ Len(Append(v, <<p>>)) = nextId /\ Append(v, <<p>>)[nextId] = <<p>>
        /\ \A id \in 1..(nextId - 1) : Append(v, <<p>>)[id] = v[id]
    BY <2>2, <2>4
  <2>6. \A id \in 1..(nextId - 1) :
          Current(session, id)' = Current(session, id)
    BY <2>1, <2>2, <2>3, <2>5 DEF Current
  <2>7. PICK m : m = nextId
    OBVIOUS
  <2>8. Current(session, m)' = p
    <3>1. versions'[session'][m] = <<p>>
      BY <2>1, <2>3, <2>5, <2>7
    <3>2. Len(<<p>>) = 1 /\ <<p>>[1] = p
      OBVIOUS
    <3>3. ASSUME NEW w, w = <<p>> PROVE w[Len(w)] = p
      BY <3>2, <3>3
    <3> QED
      BY <3>1, <3>3 DEF Current
  <2>9. ASSUME NEW i \in DOMAIN queue'
        PROVE  /\ queue'[i].id = lastAcked + i
               /\ queue'[i].p = Current(session, lastAcked + i)'
    <3>1. Len(queue') = nextId - lastAcked /\ i \in 1..(nextId - lastAcked)
      BY <2>1, <2>4
    <3>2. CASE i \in DOMAIN queue
      <4>1. queue'[i] = queue[i] /\ lastAcked + i \in 1..(nextId - 1)
        BY <2>1, <2>4, <3>2
      <4>2. queue[i].id = lastAcked + i /\ queue[i].p = Current(session, lastAcked + i)
        BY <1>0, <3>2 DEF OutboxIsExact
      <4>3. PICK n : n = lastAcked + i
        OBVIOUS
      <4>4. queue[i].p = Current(session, n)'
        BY <4>1, <4>2, <4>3, <2>6
      <4> QED
        BY <4>1, <4>2, <4>3, <4>4, <2>1
    <3>3. CASE i \notin DOMAIN queue
      <4>1. lastAcked + i = m /\ i = Len(queue) + 1
        BY <2>4, <2>7, <3>1, <3>3
      <4>2. queue'[i] = [id |-> nextId, p |-> p]
        <5>1. PICK e \in Entries : e = [id |-> nextId, p |-> p]
          BY <2>4 DEF Entries
        <5>2. queue' = Append(queue, e)
          BY <2>1, <5>1
        <5>3. queue'[Len(queue) + 1] = e
          BY <2>4, <5>2, AppendProperties
        <5> QED
          BY <4>1, <5>1, <5>3
      <4> QED
        BY <4>1, <4>2, <2>1, <2>7, <2>8
    <3> QED
      BY <3>2, <3>3
  <2>10. Len(queue') = nextId' - 1 - lastAcked' /\ lastAcked' < nextId'
    BY <2>1, <2>4
  <2>11. Len(versions'[session']) = nextId' - 1
    BY <2>1, <2>3, <2>4, <2>5
  <2> QED
    BY <2>1, <2>9, <2>10, <2>11 DEF OutboxIsExact
<1>14. ASSUME NEW p \in Payloads, RepairRejectedTransaction(p)
       PROVE  OutboxIsExact'
  <2>1. /\ queue' = [i \in DOMAIN queue |->
                       IF queue[i].id = rejectedId
                       THEN [id |-> rejectedId, p |-> p] ELSE queue[i]]
        /\ UNCHANGED <<nextId, lastAcked, session>> /\ failure # None
        /\ versions' = [versions EXCEPT ![session][failure.id] = Append(@, p)]
    BY <1>14 DEF RepairRejectedTransaction, RepairRejected, identity
  <2>2. PICK v, n : v = versions[session] /\ v \in Seq(Seq(Payloads))
                    /\ n = failure.id /\ n = rejectedId
    BY <2>1, <1>0 DEF SenderTypes, Recovering
  <2>3. /\ Len(v) = nextId - 1 /\ lastAcked < nextId
        /\ lastAcked \in Nat /\ nextId \in Nat /\ queue \in Seq(Entries)
        /\ Len(queue) = nextId - 1 - lastAcked
        /\ n \in Nat /\ n > lastAcked /\ n < nextId
    BY <2>1, <2>2, <1>0 DEF OutboxIsExact, NativeTypes, Recovering
  <2>4. PICK w : w = versions'[session] /\ w = [v EXCEPT ![n] = Append(@, p)]
    BY <2>1, <2>2, <1>0 DEF SenderTypes
  <2>5. n \in DOMAIN v /\ DOMAIN v = 1..(nextId - 1)
    BY <2>2, <2>3
  <2>6. \A id \in DOMAIN v : v[id] \in Seq(Payloads)
    BY <2>2, ElementOfSeq
  <2>7. w[n] = Append(v[n], p) /\ \A id \in DOMAIN v : id # n => w[id] = v[id]
    BY <2>4, <2>5
  <2>8. w \in Seq(Seq(Payloads)) /\ Len(w) = nextId - 1
    <3>1. DOMAIN w = DOMAIN v
      BY <2>4
    <3>2. Append(v[n], p) \in Seq(Payloads)
      BY <2>5, <2>6, AppendProperties
    <3>3. \A id \in DOMAIN v : w[id] \in Seq(Payloads)
      BY <2>6, <2>7, <3>2
    <3>4. nextId - 1 \in Nat
      BY <2>3
    <3>5. w = [id \in 1..(nextId - 1) |-> w[id]]
      BY <2>4, <2>5
    <3>6. w \in [1..(nextId - 1) -> Seq(Payloads)]
      BY <2>5, <3>3, <3>5
    <3>7. w \in Seq(Seq(Payloads))
      BY <3>4, <3>6, SeqDef
    <3> QED
      BY <3>1, <3>4, <3>6, <3>7, <2>5
  <2>9. \A id \in DOMAIN v : id # n => Current(session, id)' = Current(session, id)
    BY <2>1, <2>2, <2>4, <2>7 DEF Current
  <2>10. Current(session, n)' = p
    <3>1. PICK z : z = Append(v[n], p)
      OBVIOUS
    <3>2. z[Len(z)] = p
      BY <3>1, <2>5, <2>6, AppendProperties
    <3> QED
      BY <3>1, <3>2, <2>1, <2>4, <2>7 DEF Current
  <2>11. DOMAIN queue' = DOMAIN queue /\ Len(queue') = Len(queue)
    <3>1. queue' \in Seq(Entries)
      BY TypesKept DEF TypeOK
    <3> QED
      BY <3>1, <2>1, <2>3
  <2>12. ASSUME NEW i \in DOMAIN queue
         PROVE  /\ queue'[i].id = lastAcked + i
                /\ queue'[i].p = Current(session, lastAcked + i)'
    <3>1. queue[i].id = lastAcked + i /\ queue[i].p = Current(session, lastAcked + i)
      BY <1>0 DEF OutboxIsExact
    <3>2. lastAcked + i \in DOMAIN v
      BY <2>3, <2>5
    <3>3. CASE lastAcked + i = n
      BY <3>1, <3>3, <2>1, <2>2, <2>10
    <3>4. CASE lastAcked + i # n
      BY <3>1, <3>2, <3>4, <2>1, <2>2, <2>9
    <3> QED
      BY <3>3, <3>4
  <2> QED
    BY <2>1, <2>3, <2>4, <2>8, <2>11, <2>12 DEF OutboxIsExact
<1>15. CASE AbandonRejectedSession
  <2>1. /\ session' = session + 1 /\ versions' = versions
        /\ queue' = <<>> /\ nextId' = 1 /\ lastAcked' = 0
        /\ session < scenario.sessions
    BY <1>15 DEF AbandonRejectedSession, NewSession, ResetSession, history
  <2>2. session + 1 \in Sessions /\ session + 1 > session
    BY <2>1, <1>0, BoundsHold DEF SenderTypes, Sessions
  <2>3. versions[session + 1] = <<>>
    BY <2>2, <1>0 DEF HistoryIsExact
  <2>4. Len(<<>>) = 0 /\ DOMAIN <<>> = {}
    OBVIOUS
  <2>5. Len(versions'[session']) = 0 /\ Len(queue') = 0 /\ DOMAIN queue' = {}
    BY <2>1, <2>3, <2>4
  <2> QED
    BY <2>1, <2>5 DEF OutboxIsExact
<1>16. CASE CancelConnect
  <2>1. UNCHANGED <<session, versions, nextId, lastAcked, queue>>
    BY <1>16 DEF CancelConnect, native, outbox, sender, identity, history
  <2> QED
    BY <2>1, <1>0 DEF OutboxIsExact, Current
<1>17. CASE Disconnect
  <2>1. UNCHANGED <<session, versions, nextId, lastAcked, queue>>
    BY <1>17 DEF Disconnect, native, outbox, sender, identity, history
  <2> QED
    BY <2>1, <1>0 DEF OutboxIsExact, Current
<1>18. ASSUME NEW g \in Gens, ServeError(g) PROVE OutboxIsExact'
  <2>1. UNCHANGED <<session, versions, nextId, lastAcked, queue>>
    BY <1>18 DEF ServeError, native, outbox, sender, identity, history
  <2> QED
    BY <2>1, <1>0 DEF OutboxIsExact, Current
<1>19. ASSUME NEW g \in Gens, ServeLimited(g) PROVE OutboxIsExact'
  <2>1. UNCHANGED <<session, versions, nextId, lastAcked, queue>>
    BY <1>19 DEF ServeLimited, native, outbox, sender, identity, history
  <2> QED
    BY <2>1, <1>0 DEF OutboxIsExact, Current
<1>20. ASSUME NEW g \in Gens, Break(g) PROVE OutboxIsExact'
  <2>1. UNCHANGED <<session, versions, nextId, lastAcked, queue>>
    BY <1>20 DEF Break, native, outbox, sender, identity, history
  <2> QED
    BY <2>1, <1>0 DEF OutboxIsExact, Current
<1>21. CASE Restart
  <2>1. UNCHANGED <<session, versions, nextId, lastAcked, queue>>
    BY <1>21 DEF Restart, native, outbox, sender, identity, history
  <2> QED
    BY <2>1, <1>0 DEF OutboxIsExact, Current
<1>22. CASE EditGraph
  <2>1. UNCHANGED <<session, versions, nextId, lastAcked, queue>>
    BY <1>22 DEF EditGraph, native, outbox, sender, identity, history
  <2> QED
    BY <2>1, <1>0 DEF OutboxIsExact, Current
<1>23. ASSUME NEW g \in Gens, ReceiveResult(g) PROVE OutboxIsExact'
  <2>1. UNCHANGED <<session, versions, nextId, lastAcked, queue>>
    BY <1>23 DEF ReceiveResult, native, outbox, sender, identity, history
  <2> QED
    BY <2>1, <1>0 DEF OutboxIsExact, Current
<1>24. ASSUME NEW g \in Gens, ReceiveRaises(g) PROVE OutboxIsExact'
  <2>1. UNCHANGED <<session, versions, nextId, lastAcked, queue>>
    BY <1>24 DEF ReceiveRaises, native, outbox, sender, identity, history
  <2> QED
    BY <2>1, <1>0 DEF OutboxIsExact, Current
<1>25. ASSUME NEW g \in Gens, ApplyResult(g) PROVE OutboxIsExact'
  <2>0. UNCHANGED <<session, versions>>
    BY <1>25, ResultApplied DEF identity
  <2>1. CASE UNCHANGED <<queue, nextId, lastAcked>>
    BY <2>0, <2>1, <1>0 DEF OutboxIsExact, Current
  <2>2. ASSUME NEW id \in Nat, HighwaterValid(id), AcknowledgeOutbox(id)
        PROVE  OutboxIsExact'
    <3>2. /\ lastAcked' = id /\ nextId' = nextId
          /\ queue' \in Seq(Entries)
          /\ Len(queue') = nextId - 1 - id
          /\ \A i \in DOMAIN queue' : queue'[i] = queue[i + (id - lastAcked)]
      BY <2>2, <1>0, OutboxAcknowledged
    <3>3. UNCHANGED <<session, versions>>
      BY <2>0
    <3>4. OutboxIsExact'
      <4>1. /\ id >= lastAcked /\ id < nextId /\ lastAcked \in Nat /\ nextId \in Nat
            /\ Len(queue) = nextId - 1 - lastAcked /\ queue \in Seq(Entries)
            /\ \A i \in DOMAIN queue : /\ queue[i].id = lastAcked + i
                                       /\ queue[i].p = Current(session, lastAcked + i)
        BY <2>2, <1>0 DEF HighwaterValid, NativeTypes, OutboxIsExact
      <4>2. ASSUME NEW i \in DOMAIN queue'
            PROVE  queue'[i].id = id + i /\ queue'[i].p = Current(session, id + i)
        <5>1. PICK k : k = i + (id - lastAcked)
          OBVIOUS
        <5>2. i \in 1..(nextId - 1 - id)
          BY <3>2
        <5>3. k \in DOMAIN queue /\ lastAcked + k = id + i
          BY <4>1, <5>1, <5>2
        <5>4. queue'[i] = queue[k]
          BY <3>2, <5>1
        <5> QED
          BY <4>1, <5>3, <5>4
      <4> QED
        BY <3>2, <3>3, <4>1, <4>2, <1>0 DEF OutboxIsExact, Current
    <3> QED
      BY <3>4
  <2>3. \/ UNCHANGED <<queue, nextId, lastAcked>>
        \/ /\ hand[g] \in Replies /\ HighwaterValid(hand[g].id)
           /\ AcknowledgeOutbox(hand[g].id)
    BY <1>25, ResultApplied DEF outbox
  <2>4. hand[g] \in Replies => hand[g].id \in Nat
    BY DEF Replies
  <2> QED
    BY <2>1, <2>2, <2>3, <2>4
<1>26. ASSUME NEW g \in Gens, ApplyLimited(g) PROVE OutboxIsExact'
  <2>1. UNCHANGED <<session, versions, nextId, lastAcked, queue>>
    BY <1>26 DEF ApplyLimited, native, outbox, sender, identity, history
  <2> QED
    BY <2>1, <1>0 DEF OutboxIsExact, Current
<1>27. ASSUME NEW g \in Gens, CloseReader(g) PROVE OutboxIsExact'
  <2>1. UNCHANGED <<session, versions, nextId, lastAcked, queue>>
    BY <1>27 DEF CloseReader, native, outbox, sender, identity, history
  <2> QED
    BY <2>1, <1>0 DEF OutboxIsExact, Current
<1>28. ASSUME NEW g \in Gens, ServeHello(g) PROVE OutboxIsExact'
  <2>1. UNCHANGED <<session, versions, nextId, lastAcked, queue>>
    BY <1>28 DEF ServeHello, native, outbox, sender, identity, history
  <2> QED
    BY <2>1, <1>0 DEF OutboxIsExact, Current
<1>29. ASSUME NEW g \in Gens, ServeTxn(g) PROVE OutboxIsExact'
  <2>1. UNCHANGED <<session, versions, nextId, lastAcked, queue>>
    BY <1>29 DEF ServeTxn, native, outbox, sender, identity, history
  <2> QED
    BY <2>1, <1>0 DEF OutboxIsExact, Current
<1>30. ASSUME NEW g \in Gens, ResolveResult(g) PROVE OutboxIsExact'
  <2>1. UNCHANGED <<session, versions, nextId, lastAcked, queue>>
    BY <1>30 DEF ResolveResult, native, outbox, sender, identity, history
  <2> QED
    BY <2>1, <1>0 DEF OutboxIsExact, Current
<1>31. ASSUME NEW g \in Gens, SendResults(g) PROVE OutboxIsExact'
  <2>1. UNCHANGED <<session, versions, nextId, lastAcked, queue>>
    BY <1>31 DEF SendResults, native, outbox, sender, identity, history
  <2> QED
    BY <2>1, <1>0 DEF OutboxIsExact, Current
<1> QED
  BY <1>0, <1>1, <1>2, <1>3, <1>4, <1>5, <1>6, <1>7, <1>8, <1>9, <1>10,
     <1>11, <1>12, <1>13, <1>14, <1>15, <1>16, <1>17, <1>18, <1>19, <1>20,
     <1>21, <1>22, <1>23, <1>24, <1>25, <1>26, <1>27, <1>28, <1>29, <1>30,
     <1>31, StepCases
=============================================================================
