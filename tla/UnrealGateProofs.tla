-------------------------- MODULE UnrealGateProofs --------------------------
(***************************************************************************)
(* The gate of native edits follows the replay, for every scenario, every  *)
(* size of the queues and any number of losses, rewrites, failed           *)
(* applications and disconnections (GateFollowsReplay).                    *)
(*                                                                         *)
(* The invariant is about the frames between the server and the stage as a *)
(* stream: what is on the wire follows what was received, what is in the   *)
(* inbox leads from what was applied to what was received, a replay's      *)
(* frames are together and in front of its completion, and whatever shuts  *)
(* the gate has a completion behind it.                                    *)
(***************************************************************************)
EXTENDS UnrealClientProofs, FiniteSetTheorems

-----------------------------------------------------------------------------
(* Frames as a stream.                                                      *)

\* The cursor a frame leaves behind, and the frames that may follow a cursor.
Cur(f) == IF f.t = "event" THEN f.seq ELSE IF f.t = "complete" THEN f.head ELSE 0

Follows(c, f) ==
    /\ f.t = "event" => f.seq = c + 1
    /\ f.t = "complete" => f.head = c

Before(c, s, i) == IF i = 1 THEN c ELSE Cur(s[i - 1])

Chain(c, s) == \A i \in 1..Len(s) : Follows(Before(c, s, i), s[i])

End(c, s) == IF Len(s) = 0 THEN c ELSE Cur(s[Len(s)])

Frame(f) ==
    /\ f.b \in Nat /\ f.t \in {"event", "resync", "complete"}
    /\ f.t = "event" => f.seq \in Nat
    /\ f.t = "complete" => f.head \in Nat /\ f.b = 0
    /\ f.t = "resync" => f.b # 0

Frames(s, bt) == IsSeq(s) /\ \A i \in 1..Len(s) : Frame(s[i]) /\ s[i].b <= bt

Lacks(s, b) == \A i \in 1..Len(s) : s[i].b # b

Completed(s) == \E i \in 1..Len(s) : s[i].t = "complete"

\* A replay's frames are together and in front of its completion.
Blocks(b, w) ==
    /\ \A j \in 1..Len(w) : w[j].b # 0 => b <= w[j].b
    /\ \A i, j \in 1..Len(w) :
          i < j /\ w[j].b # 0 =>
             /\ w[i].b <= w[j].b
             /\ w[i].t = "complete" => b < w[j].b /\ \A k \in 1..i : w[k].b < w[j].b

\* Every Resync has a completion behind it.
Answered(w) ==
    \A i \in 1..Len(w) :
        w[i].t = "resync" => \E j \in 1..Len(w) : i < j /\ w[j].t = "complete"

-----------------------------------------------------------------------------
(* The inductive invariant, of the receiver r, its wire w, the game thread  *)
(* g, the length n of the log, the number bt of replays so far and whether  *)
(* the gate was opened late.                                                *)

ReceiverRec(r) ==
    r = [at |-> r.at, gen |-> r.gen, conn |-> r.conn, active |-> r.active,
         received |-> r.received, applied |-> r.applied, requested |-> r.requested,
         sync |-> r.sync, inbox |-> r.inbox, marker |-> r.marker, read |-> r.read,
         batch |-> r.batch, up |-> r.up]

MarkerRec(m) ==
    m # None => /\ m = [head |-> m.head, left |-> m.left]
                /\ m.head \in Nat /\ m.left \in Nat

Types(r, g, bt, late) ==
    /\ ReceiverRec(r) /\ MarkerRec(r.marker) /\ r.up \in BOOLEAN
    /\ r.gen \in Nat /\ r.conn \in Nat /\ r.received \in Nat /\ r.applied \in Nat
    /\ r.requested \in Nat /\ r.sync \in Nat /\ r.read \in Nat /\ r.batch \in Nat
    /\ g.replayGen \in Nat /\ g.last \in Nat /\ g.mark \in Nat /\ g.synchronized \in BOOLEAN
    /\ bt \in Nat /\ late \in BOOLEAN
    /\ r.conn <= r.gen /\ r.batch <= bt

Queues(r, w, bt) ==
    /\ Frames(w, bt) /\ Frames(r.inbox, bt)
    /\ \A i \in 1..Len(r.inbox) : r.inbox[i].t # "complete"
    /\ r.at = "reading" => r.batch >= 1 /\ Blocks(r.batch, w)

Connected(r) == r.at = "reading" /\ r.conn = r.gen

\* Nothing of an earlier connection is left over.
Starting(r) == r.at # "none" /\ (r.at \in {"begin", "hello"} \/ r.conn # r.gen)

Open == {"open1", "open2"}
Busy == {"first", "apply", "applied"}

\* Which places the two threads can be in together.
Places(r, g) ==
    /\ g.at = "flush" => r.at = "none"
    /\ g.at \in Open \cup Busy \cup {"recover"} => r.at # "none"
    /\ r.at = "hello" /\ r.conn = r.gen => g.at \notin Busy
    /\ r.gen = 0 => r.at \in {"begin", "none"} /\ (r.at = "begin" => g.at \notin Busy)
    /\ r.up => r.at = "reading"
    /\ r.marker # None => r.at \in {"reading", "none"}

\* A session about to connect asks for what follows all it ever received.
Session(r) ==
    /\ r.requested # 0 /\ r.at # "none" =>
          (r.at = "begin" \/ r.conn # r.gen) /\ r.requested = r.received + 1
    /\ Starting(r) => r.inbox = <<>> /\ r.received = r.applied /\ r.marker = None
    /\ r.at = "hello" => r.sync >= 1
    /\ r.at = "hello" /\ r.conn = r.gen => r.sync = r.received + 1

\* A gate about to be opened was earned by the replay it was marked with.
Opening(r, w, g) ==
    g.at \in Open =>
        /\ 1 <= g.mark /\ g.mark <= r.batch
        /\ g.mark = r.batch => Lacks(w, r.batch) /\ Lacks(r.inbox, r.batch)

\* A marker stands behind all frames of its replay.
Marking(r, w) ==
    r.marker # None =>
        /\ r.marker.left <= Len(r.inbox) /\ r.marker.head <= r.received /\ Lacks(w, r.batch)
        /\ \A i \in 1..Len(r.inbox) : i > r.marker.left => r.inbox[i].b # r.batch

Passed(r, w, g, late) ==
    g.synchronized /\ ~late /\ g.replayGen = r.gen => Lacks(w, r.batch) /\ Lacks(r.inbox, r.batch)

\* The cursor the inbox continues: the frame in hand counts as applied.
Cursor(r, g) == IF g.at = "applied" THEN g.last ELSE r.applied

Stream(r, w, g, n) ==
    /\ Chain(r.received, w)
    /\ r.up => End(r.received, w) = n
    /\ g.at # "recover" =>
          Chain(Cursor(r, g), r.inbox) /\ End(Cursor(r, g), r.inbox) = r.received
    /\ g.at \in {"first", "apply"} => g.last = r.applied

\* Whatever shut the gate, or will, has a completion behind it.
Due(r, w, g) ==
    r.up =>
        /\ g.synchronized \/ g.at \in Open \/ r.marker # None \/ Completed(w)
        /\ Answered(w)
        /\ \A i \in 1..Len(r.inbox) :
              r.inbox[i].t = "resync" => (r.marker # None /\ i <= r.marker.left) \/ Completed(w)

Gate(r, w, g, n, bt, late) ==
    /\ Types(r, g, bt, late) /\ Queues(r, w, bt) /\ Places(r, g) /\ Session(r)
    /\ Opening(r, w, g)
    /\ Connected(r) => Marking(r, w) /\ Passed(r, w, g, late) /\ Stream(r, w, g, n) /\ Due(r, w, g)

GateInvariant ==
    /\ IsSeq(server.log) /\ history.snapshot \in Nat
    /\ Gate(receiver, rwire, game, Len(server.log), history.batches, history.late)

-----------------------------------------------------------------------------
(* Facts about streams.                                                     *)

LEMMA NothingFacts ==
    /\ \A c : Chain(c, <<>>) /\ End(c, <<>>) = c
    /\ \A b : Lacks(<<>>, b) /\ Blocks(b, <<>>)
    /\ \A bt : Frames(<<>>, bt)
    /\ Answered(<<>>)
BY NothingIsSeq DEF Chain, End, Lacks, Blocks, Frames, Answered

LEMMA CurIsNat ==
    ASSUME NEW f, Frame(f)
    PROVE  Cur(f) \in Nat
BY DEF Frame, Cur

LEMMA EndIsNat ==
    ASSUME NEW c \in Nat, NEW s, NEW bt, Frames(s, bt)
    PROVE  End(c, s) \in Nat
<1>1. Len(s) \in Nat
  BY SeqFacts DEF Frames
<1>2. CASE Len(s) = 0
  BY <1>2 DEF End
<1>3. CASE Len(s) # 0
  <2>1. Frame(s[Len(s)])
    BY <1>1, <1>3 DEF Frames
  <2> QED BY <1>3, <2>1, CurIsNat DEF End
<1> QED BY <1>2, <1>3

\* The first frame is taken from a stream.
LEMMA ChainTail ==
    ASSUME NEW c, NEW s, IsSeq(s), s # <<>>, Chain(c, s)
    PROVE  /\ Follows(c, Head(s))
           /\ Chain(Cur(Head(s)), Tail(s)) /\ End(Cur(Head(s)), Tail(s)) = End(c, s)
<1> DEFINE t == Tail(s)
<1>1. /\ IsSeq(t) /\ Len(t) = Len(s) - 1 /\ Len(s) > 0 /\ Len(s) \in Nat
      /\ \A i \in 1..(Len(s) - 1) : t[i] = s[i + 1]
      /\ Head(s) = s[1]
  BY TailSeq, SeqFacts
<1> HIDE DEF t
<1>2. Follows(c, Head(s))
  BY <1>1 DEF Chain, Before
<1>3. ASSUME NEW i \in 1..Len(t) PROVE Follows(Before(Cur(Head(s)), t, i), t[i])
  <2>1. i + 1 \in 1..Len(s) /\ i + 1 # 1 /\ (i + 1) - 1 = i /\ t[i] = s[i + 1]
    BY <1>1
  <2>2. Before(c, s, i + 1) = Cur(s[i])
    BY <2>1 DEF Before
  <2>3. Before(Cur(Head(s)), t, i) = Cur(s[i])
    <3>1. CASE i = 1
      BY <1>1, <3>1 DEF Before
    <3>2. CASE i # 1
      <4>1. i - 1 \in 1..(Len(s) - 1) /\ (i - 1) + 1 = i
        BY <1>1, <3>2
      <4> QED BY <1>1, <3>2, <4>1 DEF Before
    <3> QED BY <3>1, <3>2
  <2> QED BY <2>1, <2>2, <2>3 DEF Chain
<1>4. End(Cur(Head(s)), t) = End(c, s)
  <2>1. CASE Len(t) = 0
    <3>1. Len(s) = 1 /\ Len(s) # 0
      BY <1>1, <2>1
    <3> QED BY <1>1, <2>1, <3>1 DEF End
  <2>2. CASE Len(t) # 0
    <3>1. Len(t) \in 1..(Len(s) - 1) /\ Len(t) + 1 = Len(s)
      BY <1>1, <2>2
    <3> QED BY <1>1, <2>2, <3>1 DEF End
  <2> QED BY <2>1, <2>2
<1> QED BY <1>2, <1>3, <1>4 DEF t, Chain

\* Streams that continue each other.
LEMMA ChainConcat ==
    ASSUME NEW c, NEW s, NEW t, IsSeq(s), IsSeq(t), Chain(c, s), Chain(End(c, s), t)
    PROVE  Chain(c, s \o t) /\ End(c, s \o t) = End(End(c, s), t)
<1> DEFINE u == s \o t
<1>1. /\ IsSeq(u) /\ Len(u) = Len(s) + Len(t) /\ Len(s) \in Nat /\ Len(t) \in Nat
      /\ \A i \in 1..(Len(s) + Len(t)) : u[i] = IF i <= Len(s) THEN s[i] ELSE t[i - Len(s)]
  BY ConcatSeq, SeqFacts
<1> HIDE DEF u
<1>2. ASSUME NEW i \in 1..Len(u) PROVE Follows(Before(c, u, i), u[i])
  <2>1. CASE i <= Len(s)
    <3>1. i \in 1..Len(s) /\ u[i] = s[i]
      BY <1>1, <2>1
    <3>2. i # 1 => u[i - 1] = s[i - 1]
      BY <1>1, <2>1
    <3>3. Before(c, u, i) = Before(c, s, i)
      BY <3>2 DEF Before
    <3> QED BY <3>1, <3>3 DEF Chain
  <2>2. CASE i > Len(s)
    <3> DEFINE k == i - Len(s)
    <3>1. k \in 1..Len(t) /\ u[i] = t[k]
      BY <1>1, <2>2
    <3>2. Before(c, u, i) = Before(End(c, s), t, k)
      <4>1. CASE k = 1
        <5>1. i - 1 = Len(s) /\ (i = 1 <=> Len(s) = 0)
          BY <1>1, <4>1
        <5>2. Len(s) # 0 => u[Len(s)] = s[Len(s)]
          BY <1>1
        <5> QED BY <4>1, <5>1, <5>2 DEF Before, End
      <4>2. CASE k # 1
        <5>1. i # 1 /\ i - 1 \in 1..Len(u) /\ ~(i - 1 <= Len(s)) /\ (i - 1) - Len(s) = k - 1
          BY <1>1, <2>2, <3>1, <4>2
        <5>2. u[i - 1] = t[k - 1]
          BY <1>1, <5>1
        <5> QED BY <4>2, <5>1, <5>2 DEF Before
      <4> QED BY <4>1, <4>2
    <3> HIDE DEF k
    <3> QED BY <3>1, <3>2 DEF Chain
  <2> QED BY <1>1, <2>1, <2>2
<1>3. End(c, u) = End(End(c, s), t)
  <2>1. CASE Len(t) = 0
    <3>1. Len(u) = Len(s) /\ (Len(s) # 0 => u[Len(s)] = s[Len(s)])
      BY <1>1, <2>1
    <3> QED BY <2>1, <3>1 DEF End
  <2>2. CASE Len(t) # 0
    <3>1. /\ Len(u) # 0 /\ Len(u) \in 1..(Len(s) + Len(t)) /\ ~(Len(u) <= Len(s))
          /\ Len(u) - Len(s) = Len(t)
      BY <1>1, <2>2
    <3>2. u[Len(u)] = t[Len(t)]
      BY <1>1, <3>1
    <3> QED BY <2>2, <3>1, <3>2 DEF End
  <2> QED BY <2>1, <2>2
<1> QED BY <1>2, <1>3 DEF u, Chain

\* A frame is added to a stream.
LEMMA ChainAppend ==
    ASSUME NEW c, NEW s, NEW f, IsSeq(s), Chain(c, s), Follows(End(c, s), f)
    PROVE  Chain(c, Append(s, f)) /\ End(c, Append(s, f)) = Cur(f)
<1> DEFINE u == Append(s, f)
<1>1. /\ IsSeq(u) /\ Len(u) = Len(s) + 1 /\ Len(s) \in Nat
      /\ \A i \in 1..Len(s) : u[i] = s[i]
      /\ u[Len(s) + 1] = f
  BY AppendSeq, SeqFacts
<1> HIDE DEF u
<1>2. ASSUME NEW i \in 1..Len(u) PROVE Follows(Before(c, u, i), u[i])
  <2>1. CASE i <= Len(s)
    <3>1. i \in 1..Len(s) /\ u[i] = s[i] /\ (i # 1 => u[i - 1] = s[i - 1])
      BY <1>1, <2>1
    <3>2. Before(c, u, i) = Before(c, s, i)
      BY <3>1 DEF Before
    <3> QED BY <3>1, <3>2 DEF Chain
  <2>2. CASE i = Len(s) + 1
    <3>1. i - 1 = Len(s) /\ (i = 1 <=> Len(s) = 0) /\ (Len(s) # 0 => u[Len(s)] = s[Len(s)])
      BY <1>1, <2>2
    <3>2. Before(c, u, i) = End(c, s)
      BY <3>1 DEF Before, End
    <3> QED BY <1>1, <2>2, <3>2
  <2> QED BY <1>1, <2>1, <2>2
<1>3. End(c, u) = Cur(f)
  BY <1>1 DEF End
<1> QED BY <1>2, <1>3 DEF u, Chain

LEMMA BeginningSeq ==
    ASSUME NEW s, IsSeq(s), NEW k \in 0..Len(s)
    PROVE  /\ IsSeq(SubSeq(s, 1, k)) /\ Len(SubSeq(s, 1, k)) = k /\ Len(s) \in Nat
           /\ \A i \in 1..k : SubSeq(s, 1, k)[i] = s[i]
<1> DEFINE u == SubSeq(s, 1, k)
<1>1. Len(s) \in Nat /\ k \in Int /\ k <= Len(s) /\ k \in Nat
  BY SeqFacts
<1>2. /\ IsSeq(u) /\ Len(u) = IF 1 <= k THEN k - 1 + 1 ELSE 0
      /\ \A i \in 1..(k - 1 + 1) : u[i] = s[1 + i - 1]
  BY <1>1, PartSeq
<1> HIDE DEF u
<1>3. k - 1 + 1 = k /\ (~(1 <= k) => k = 0) /\ \A i \in Int : 1 + i - 1 = i
  BY <1>1
<1>4. Len(u) = k
  BY <1>2, <1>3
<1>5. \A i \in 1..k : u[i] = s[i]
  BY <1>1, <1>2, <1>3
<1> QED BY <1>1, <1>2, <1>4, <1>5 DEF u

\* The beginning of a stream.
LEMMA ChainBeginning ==
    ASSUME NEW c, NEW s, IsSeq(s), Chain(c, s), NEW k \in 0..Len(s)
    PROVE  Chain(c, SubSeq(s, 1, k))
<1> DEFINE u == SubSeq(s, 1, k)
<1>1. /\ IsSeq(u) /\ Len(u) = k /\ Len(s) \in Nat
      /\ \A i \in 1..k : u[i] = s[i]
  BY BeginningSeq
<1> HIDE DEF u
<1>2. ASSUME NEW i \in 1..Len(u) PROVE Follows(Before(c, u, i), u[i])
  <2>1. i \in 1..Len(s) /\ u[i] = s[i] /\ (i # 1 => u[i - 1] = s[i - 1])
    BY <1>1
  <2>2. Before(c, u, i) = Before(c, s, i)
    BY <2>1 DEF Before
  <2> QED BY <2>1, <2>2 DEF Chain
<1> QED BY <1>2 DEF u, Chain

\* A frame is taken from a queue.
LEMMA QueueTail ==
    ASSUME NEW s, NEW bt, Frames(s, bt), s # <<>>
    PROVE  /\ Frame(Head(s)) /\ Head(s).b <= bt /\ Frames(Tail(s), bt)
           /\ \A b : Lacks(s, b) => Lacks(Tail(s), b) /\ Head(s).b # b
           /\ Head(s).t # "complete" /\ Completed(s) => Completed(Tail(s))
           /\ Answered(s) => Answered(Tail(s))
           /\ Answered(s) /\ Head(s).t = "resync" => Completed(Tail(s))
<1> DEFINE t == Tail(s)
<1>1. /\ IsSeq(t) /\ Len(t) = Len(s) - 1 /\ Len(s) > 0 /\ Len(s) \in Nat
      /\ \A i \in 1..(Len(s) - 1) : t[i] = s[i + 1]
      /\ Head(s) = s[1]
  BY TailSeq, SeqFacts DEF Frames
<1> HIDE DEF t
<1>2. 1 \in 1..Len(s) /\ \A i \in 1..Len(t) : i + 1 \in 1..Len(s) /\ t[i] = s[i + 1]
  BY <1>1
<1>3. \A j \in 1..Len(s) : j # 1 => j - 1 \in 1..Len(t) /\ t[j - 1] = s[j]
  <2> SUFFICES ASSUME NEW j \in 1..Len(s), j # 1 PROVE j - 1 \in 1..Len(t) /\ t[j - 1] = s[j]
    OBVIOUS
  <2>1. j - 1 \in 1..Len(t) /\ (j - 1) + 1 = j
    BY <1>1
  <2> QED BY <1>2, <2>1
<1>4. Frame(Head(s)) /\ Head(s).b <= bt /\ Frames(t, bt)
  BY <1>1, <1>2 DEF Frames
<1>5. ASSUME NEW b, Lacks(s, b) PROVE Lacks(t, b) /\ Head(s).b # b
  BY <1>1, <1>2, <1>5 DEF Lacks
<1>6. Head(s).t # "complete" /\ Completed(s) => Completed(t)
  BY <1>1, <1>3 DEF Completed
<1>7. ASSUME Answered(s) PROVE Answered(t)
  <2> SUFFICES ASSUME NEW i \in 1..Len(t), t[i].t = "resync"
               PROVE  \E j \in 1..Len(t) : i < j /\ t[j].t = "complete"
    BY DEF Answered
  <2>1. PICK j \in 1..Len(s) : i + 1 < j /\ s[j].t = "complete"
    BY <1>2, <1>7 DEF Answered
  <2>2. j # 1 /\ i < j - 1
    BY <1>1, <2>1
  <2> QED BY <1>3, <2>1, <2>2
<1>8. ASSUME Answered(s), Head(s).t = "resync" PROVE Completed(t)
  <2>1. PICK j \in 1..Len(s) : 1 < j /\ s[j].t = "complete"
    BY <1>1, <1>2, <1>8 DEF Answered
  <2> QED BY <1>3, <2>1 DEF Completed
<1> QED BY <1>4, <1>5, <1>6, <1>7, <1>8 DEF t

LEMMA BlocksTail ==
    ASSUME NEW s, NEW bt, Frames(s, bt), s # <<>>, NEW b \in Nat, b >= 1, Blocks(b, s)
    PROVE  /\ Blocks(b, Tail(s))
           /\ Head(s).t = "resync" => b <= Head(s).b /\ Blocks(Head(s).b, Tail(s))
           /\ Head(s).t = "complete" => Lacks(Tail(s), b)
<1> DEFINE t == Tail(s)
<1>1. /\ IsSeq(t) /\ Len(t) = Len(s) - 1 /\ Len(s) > 0 /\ Len(s) \in Nat
      /\ \A i \in 1..(Len(s) - 1) : t[i] = s[i + 1]
      /\ Head(s) = s[1]
  BY TailSeq, SeqFacts DEF Frames
<1> HIDE DEF t
<1>2. 1 \in 1..Len(s) /\ \A i \in 1..Len(t) : i + 1 \in 1..Len(s) /\ 1 < i + 1 /\ t[i] = s[i + 1]
  BY <1>1
<1>3. \A i \in 1..Len(s) : s[i].b \in Nat
  BY DEF Frames, Frame
<1>4. ASSUME NEW i \in 1..Len(t), NEW j \in 1..Len(t), i < j, t[j].b # 0
      PROVE  /\ t[i].b <= t[j].b
             /\ t[i].t = "complete" =>
                  b < t[j].b /\ s[1].b < t[j].b /\ \A k \in 1..i : t[k].b < t[j].b
  <2>1. /\ i + 1 \in 1..Len(s) /\ j + 1 \in 1..Len(s) /\ i + 1 < j + 1
        /\ t[i] = s[i + 1] /\ t[j] = s[j + 1]
    BY <1>2, <1>4
  <2>2. /\ s[i + 1].b <= s[j + 1].b
        /\ s[i + 1].t = "complete" =>
             b < s[j + 1].b /\ \A k \in 1..(i + 1) : s[k].b < s[j + 1].b
    BY <1>4, <2>1 DEF Blocks
  <2>3. ASSUME t[i].t = "complete", NEW k \in 1..i PROVE t[k].b < t[j].b
    <3>1. k + 1 \in 1..(i + 1) /\ k \in 1..Len(t)
      BY <1>1
    <3> QED BY <1>2, <2>1, <2>2, <2>3, <3>1
  <2>4. 1 \in 1..(i + 1)
    OBVIOUS
  <2> QED BY <2>1, <2>2, <2>3, <2>4
<1>5. \A j \in 1..Len(t) : t[j].b # 0 => b <= t[j].b
  BY <1>2 DEF Blocks
<1>6. Blocks(b, t)
  BY <1>4, <1>5 DEF Blocks
<1>7. ASSUME Head(s).t = "resync" PROVE b <= Head(s).b /\ Blocks(Head(s).b, t)
  <2>1. Head(s).b # 0
    BY <1>1, <1>2, <1>7 DEF Frames, Frame
  <2>2. b <= Head(s).b
    BY <1>1, <1>2, <2>1 DEF Blocks
  <2>3. \A j \in 1..Len(t) : t[j].b # 0 => Head(s).b <= t[j].b
    BY <1>1, <1>2 DEF Blocks
  <2> QED BY <1>1, <1>4, <2>2, <2>3 DEF Blocks
<1>8. ASSUME Head(s).t = "complete" PROVE Lacks(t, b)
  <2> SUFFICES ASSUME NEW j \in 1..Len(t) PROVE t[j].b # b
    BY DEF Lacks
  <2>1. t[j].b # 0 => b < t[j].b
    BY <1>1, <1>2, <1>8 DEF Blocks
  <2>2. t[j].b \in Nat
    BY <1>2, <1>3
  <2> QED BY <2>1, <2>2
<1> QED BY <1>6, <1>7, <1>8 DEF t

\* A frame is added to a queue.
LEMMA QueueAppend ==
    ASSUME NEW s, NEW bt, Frames(s, bt), NEW f, Frame(f), f.b <= bt
    PROVE  /\ Frames(Append(s, f), bt)
           /\ \A b : Lacks(s, b) /\ f.b # b => Lacks(Append(s, f), b)
<1> DEFINE u == Append(s, f)
<1>1. /\ IsSeq(u) /\ Len(u) = Len(s) + 1 /\ Len(s) \in Nat
      /\ \A i \in 1..Len(s) : u[i] = s[i]
      /\ u[Len(s) + 1] = f
  BY AppendSeq, SeqFacts DEF Frames
<1> HIDE DEF u
<1>2. \A i \in 1..Len(u) : (i \in 1..Len(s) /\ u[i] = s[i]) \/ u[i] = f
  <2> SUFFICES ASSUME NEW i \in 1..Len(u) PROVE (i \in 1..Len(s) /\ u[i] = s[i]) \/ u[i] = f
    OBVIOUS
  <2>1. i \in 1..Len(s) \/ i = Len(s) + 1
    BY <1>1
  <2> QED BY <1>1, <2>1
<1>3. Frames(u, bt)
  BY <1>1, <1>2 DEF Frames
<1>4. \A b : Lacks(s, b) /\ f.b # b => Lacks(u, b)
  BY <1>2 DEF Lacks
<1> QED BY <1>3, <1>4 DEF u

\* The beginning of a queue.
LEMMA QueueBeginning ==
    ASSUME NEW s, NEW bt, Frames(s, bt), NEW k \in 0..Len(s)
    PROVE  /\ Frames(SubSeq(s, 1, k), bt)
           /\ \A b : Lacks(s, b) => Lacks(SubSeq(s, 1, k), b)
           /\ \A b : Blocks(b, s) => Blocks(b, SubSeq(s, 1, k))
<1> DEFINE u == SubSeq(s, 1, k)
<1>1. /\ IsSeq(u) /\ Len(u) = k /\ Len(s) \in Nat
      /\ \A i \in 1..k : u[i] = s[i]
  BY BeginningSeq DEF Frames
<1> HIDE DEF u
<1>2. \A i \in 1..Len(u) : i \in 1..Len(s) /\ u[i] = s[i]
  BY <1>1
<1>3. Frames(u, bt) /\ \A b : Lacks(s, b) => Lacks(u, b)
  BY <1>1, <1>2 DEF Frames, Lacks
<1>4. ASSUME NEW b, Blocks(b, s) PROVE Blocks(b, u)
  <2>1. ASSUME NEW i \in 1..Len(u), NEW j \in 1..Len(u), i < j, u[j].b # 0
        PROVE  /\ u[i].b <= u[j].b
               /\ u[i].t = "complete" => b < u[j].b /\ \A m \in 1..i : u[m].b < u[j].b
    <3>1. i \in 1..Len(s) /\ j \in 1..Len(s) /\ u[i] = s[i] /\ u[j] = s[j]
      BY <1>2
    <3>2. \A m \in 1..i : u[m] = s[m]
      BY <1>1
    <3> QED BY <1>4, <2>1, <3>1, <3>2 DEF Blocks
  <2> QED BY <1>2, <1>4, <2>1 DEF Blocks
<1> QED BY <1>3, <1>4 DEF u

\* Frames are added to a queue.
LEMMA QueueConcat ==
    ASSUME NEW s, NEW t, NEW bt, Frames(s, bt), Frames(t, bt)
    PROVE  /\ Frames(s \o t, bt)
           /\ \A b : Lacks(s, b) /\ Lacks(t, b) => Lacks(s \o t, b)
           /\ Completed(s) \/ Completed(t) => Completed(s \o t)
           /\ Answered(s) /\ Answered(t) => Answered(s \o t)
<1> DEFINE u == s \o t
<1>1. /\ IsSeq(u) /\ Len(u) = Len(s) + Len(t) /\ Len(s) \in Nat /\ Len(t) \in Nat
      /\ \A i \in 1..(Len(s) + Len(t)) : u[i] = IF i <= Len(s) THEN s[i] ELSE t[i - Len(s)]
  BY ConcatSeq, SeqFacts DEF Frames
<1> HIDE DEF u
<1>2. ASSUME NEW i \in 1..Len(u)
      PROVE  \/ i \in 1..Len(s) /\ u[i] = s[i]
             \/ i - Len(s) \in 1..Len(t) /\ i > Len(s) /\ u[i] = t[i - Len(s)]
  <2>1. CASE i <= Len(s)
    BY <1>1, <2>1
  <2>2. CASE i > Len(s)
    <3>1. i - Len(s) \in 1..Len(t)
      BY <1>1, <2>2
    <3> QED BY <1>1, <2>2, <3>1
  <2> QED BY <1>1, <2>1, <2>2
<1>3. /\ \A i \in 1..Len(s) : i \in 1..Len(u) /\ u[i] = s[i]
      /\ \A i \in 1..Len(t) : i + Len(s) \in 1..Len(u) /\ u[i + Len(s)] = t[i]
  <2>1. ASSUME NEW i \in 1..Len(t) PROVE i + Len(s) \in 1..Len(u) /\ u[i + Len(s)] = t[i]
    <3>1. i + Len(s) \in 1..Len(u) /\ ~(i + Len(s) <= Len(s)) /\ (i + Len(s)) - Len(s) = i
      BY <1>1
    <3> QED BY <1>1, <3>1
  <2> QED BY <1>1, <2>1
<1>4. Frames(u, bt)
  BY <1>1, <1>2 DEF Frames
<1>5. \A b : Lacks(s, b) /\ Lacks(t, b) => Lacks(u, b)
  BY <1>2 DEF Lacks
<1>6. Completed(s) \/ Completed(t) => Completed(u)
  BY <1>3 DEF Completed
<1>7. ASSUME Answered(s), Answered(t) PROVE Answered(u)
  <2> SUFFICES ASSUME NEW i \in 1..Len(u), u[i].t = "resync"
               PROVE  \E j \in 1..Len(u) : i < j /\ u[j].t = "complete"
    BY DEF Answered
  <2>1. CASE i \in 1..Len(s) /\ u[i] = s[i]
    <3>1. PICK j \in 1..Len(s) : i < j /\ s[j].t = "complete"
      BY <1>7, <2>1 DEF Answered
    <3> QED BY <1>3, <3>1
  <2>2. CASE i - Len(s) \in 1..Len(t) /\ i > Len(s) /\ u[i] = t[i - Len(s)]
    <3>1. PICK j \in 1..Len(t) : i - Len(s) < j /\ t[j].t = "complete"
      BY <1>7, <2>2 DEF Answered
    <3>2. i < j + Len(s)
      BY <1>1, <3>1
    <3> QED BY <1>3, <3>1, <3>2
  <2> QED BY <1>2, <2>1, <2>2
<1> QED BY <1>4, <1>5, <1>6, <1>7 DEF u

\* Frames of a new replay, or of none, behind what was on the wire.
LEMMA BlocksConcat ==
    ASSUME NEW s, NEW t, NEW bt \in Nat, Frames(s, bt), IsSeq(t), NEW b \in Nat, b <= bt,
           \A j \in 1..Len(t) : t[j].b \in Nat /\ (t[j].b # 0 => bt < t[j].b),
           Blocks(b, s), Blocks(bt + 1, t)
    PROVE  Blocks(b, s \o t)
<1> DEFINE u == s \o t
<1>1. /\ IsSeq(u) /\ Len(u) = Len(s) + Len(t) /\ Len(s) \in Nat /\ Len(t) \in Nat
      /\ \A i \in 1..(Len(s) + Len(t)) : u[i] = IF i <= Len(s) THEN s[i] ELSE t[i - Len(s)]
  BY ConcatSeq, SeqFacts DEF Frames
<1> HIDE DEF u
<1>2. /\ \A i \in 1..Len(u) : i <= Len(s) => i \in 1..Len(s) /\ u[i] = s[i]
      /\ \A i \in 1..Len(u) : i > Len(s) => i - Len(s) \in 1..Len(t) /\ u[i] = t[i - Len(s)]
  <2>1. ASSUME NEW i \in 1..Len(u), i > Len(s)
        PROVE  i - Len(s) \in 1..Len(t) /\ u[i] = t[i - Len(s)]
    <3>1. i - Len(s) \in 1..Len(t) /\ ~(i <= Len(s))
      BY <1>1, <2>1
    <3> QED BY <1>1, <3>1
  <2> QED BY <1>1, <2>1
<1>3. \A i \in 1..Len(s) : s[i].b \in Nat /\ s[i].b <= bt
  BY DEF Frames, Frame
<1>4. \A j \in 1..Len(u) : u[j].b # 0 => b <= u[j].b
  <2> SUFFICES ASSUME NEW j \in 1..Len(u), u[j].b # 0 PROVE b <= u[j].b
    OBVIOUS
  <2>1. CASE j <= Len(s)
    BY <1>2, <2>1 DEF Blocks
  <2>2. CASE j > Len(s)
    <3>1. PICK x \in Nat : x = u[j].b /\ bt < x
      BY <1>2, <2>2
    <3> QED BY <3>1
  <2> QED BY <1>1, <2>1, <2>2
<1>5. ASSUME NEW i \in 1..Len(u), NEW j \in 1..Len(u), i < j, u[j].b # 0
      PROVE  /\ u[i].b <= u[j].b
             /\ u[i].t = "complete" => b < u[j].b /\ \A k \in 1..i : u[k].b < u[j].b
  <2>1. CASE j <= Len(s)
    <3>1. i <= Len(s) /\ u[i] = s[i] /\ u[j] = s[j] /\ i \in 1..Len(s) /\ j \in 1..Len(s)
      BY <1>1, <1>2, <1>5, <2>1
    <3>2. \A k \in 1..i : u[k] = s[k]
      BY <1>1, <1>2, <3>1
    <3> QED BY <1>5, <3>1, <3>2 DEF Blocks
  <2>2. CASE j > Len(s)
    <3>1. PICK l \in 1..Len(t) : l = j - Len(s) /\ u[j] = t[l]
      BY <1>2, <2>2
    <3>2. PICK x \in Nat : x = u[j].b /\ bt < x
      BY <1>5, <3>1
    <3>3. \A k \in 1..Len(s) : u[k].b < x /\ u[k].b <= x
      <4> SUFFICES ASSUME NEW k \in 1..Len(s) PROVE u[k].b < x /\ u[k].b <= x
        OBVIOUS
      <4>1. k \in 1..Len(u) /\ k <= Len(s)
        BY <1>1
      <4>2. PICK y \in Nat : y = u[k].b /\ y <= bt
        BY <1>2, <1>3, <4>1
      <4>3. \A c, d \in Nat : c <= bt /\ bt < d => c < d /\ c <= d
        OBVIOUS
      <4> QED BY <3>2, <4>2, <4>3
    <3>4. CASE i <= Len(s)
      <4>1. \A k \in 1..i : k \in 1..Len(s)
        BY <1>1, <3>4
      <4>2. b < x /\ i \in 1..Len(s)
        BY <1>1, <3>2, <3>4
      <4> QED BY <3>2, <3>3, <4>1, <4>2
    <3>5. CASE i > Len(s)
      <4>1. PICK m \in 1..Len(t) : m = i - Len(s) /\ u[i] = t[m]
        BY <1>2, <3>5
      <4>2. m < l
        BY <1>1, <1>5, <3>1, <4>1
      <4>3. /\ u[i].b <= x
            /\ u[i].t = "complete" => bt + 1 < x /\ \A k \in 1..m : t[k].b < x
        BY <1>5, <3>1, <3>2, <4>1, <4>2 DEF Blocks
      <4>4. ASSUME u[i].t = "complete", NEW k \in 1..i PROVE u[k].b < x
        <5>1. CASE k <= Len(s)
          <6>1. k \in 1..Len(s)
            BY <1>1, <5>1
          <6> QED BY <3>3, <6>1
        <5>2. CASE k > Len(s)
          <6>1. k \in 1..Len(u) /\ k - Len(s) \in 1..m
            BY <1>1, <4>1, <5>2
          <6>2. u[k] = t[k - Len(s)]
            BY <1>2, <5>2, <6>1
          <6> QED BY <4>3, <4>4, <6>1, <6>2
        <5> QED BY <1>1, <5>1, <5>2
      <4>5. b < x
        BY <3>2
      <4> QED BY <3>2, <4>3, <4>4, <4>5
    <3> QED BY <1>1, <3>4, <3>5
  <2> QED BY <1>1, <2>1, <2>2
<1> QED BY <1>4, <1>5 DEF u, Blocks

LEMMA MadeSeq ==
    ASSUME NEW n \in Nat, NEW s, s = [i \in 1..n |-> s[i]]
    PROVE  IsSeq(s) /\ Len(s) = n
<1>1. PICK X : X = {s[i] : i \in 1..n}
  OBVIOUS
<1>2. \A i \in 1..n : s[i] \in X
  BY <1>1
<1>3. s \in [1..n -> X]
  BY <1>2
<1>4. s \in Seq(X)
  BY <1>3, SeqDef
<1>5. DOMAIN s = 1..n
  BY <1>3
<1> QED BY <1>4, <1>5, LenProperties DEF IsSeq

\* The records of a log from one of them on.
LEMMA EventsFacts ==
    ASSUME NEW log, IsSeq(log), NEW from \in Nat, 1 <= from, from <= Len(log) + 1,
           NEW b \in Nat, NEW bt \in Nat, b <= bt
    PROVE  /\ Frames(Events(log, from, b), bt)
           /\ \A i \in 1..Len(Events(log, from, b)) :
                 Events(log, from, b)[i].t = "event" /\ Events(log, from, b)[i].b = b
           /\ Chain(from - 1, Events(log, from, b))
           /\ End(from - 1, Events(log, from, b)) = Len(log)
<1> DEFINE e == Events(log, from, b)
           m == Len(log) - from + 1
<1>1. Len(log) \in Nat /\ m \in Nat /\ (m = 0 => Len(log) = from - 1)
      /\ (m # 0 => from + (m - 1) = Len(log))
  BY SeqFacts
<1>2. e = [i \in 1..m |-> Event(log, from + i - 1, b)]
  BY DEF Events
<1>3. IsSeq(e) /\ Len(e) = m
  <2>1. DOMAIN e = 1..m /\ e = [i \in 1..m |-> e[i]]
    BY <1>2
  <2> QED BY <1>1, <2>1, MadeSeq
<1>4. \A i \in 1..m : e[i].t = "event" /\ e[i].b = b /\ e[i].seq = from + (i - 1)
  BY <1>2 DEF Event
<1> HIDE DEF e, m
<1>5. Frames(e, bt)
  BY <1>3, <1>4 DEF Frames, Frame
<1>6. ASSUME NEW i \in 1..m PROVE Follows(Before(from - 1, e, i), e[i])
  <2>1. CASE i = 1
    <3>1. e[i].seq = (from - 1) + 1
      BY <1>4, <2>1
    <3> QED BY <1>4, <2>1, <3>1 DEF Before, Follows
  <2>2. CASE i # 1
    <3>1. i - 1 \in 1..m /\ from + (i - 1) = (from + ((i - 1) - 1)) + 1
      BY <1>1, <2>2
    <3>2. Cur(e[i - 1]) = from + ((i - 1) - 1)
      BY <1>4, <3>1 DEF Cur
    <3> QED BY <1>4, <2>2, <3>1, <3>2 DEF Before, Follows
  <2> QED BY <2>1, <2>2
<1>7. End(from - 1, e) = Len(log)
  <2>1. CASE m = 0
    BY <1>1, <1>3, <2>1 DEF End
  <2>2. CASE m # 0
    <3>1. m \in 1..m
      BY <1>1, <2>2
    <3> QED BY <1>1, <1>3, <1>4, <2>2, <3>1 DEF End, Cur
  <2> QED BY <2>1, <2>2
<1> QED BY <1>3, <1>4, <1>5, <1>6, <1>7 DEF e, Chain

\* A completion, and a Resync.
LEMMA OneFrame ==
    ASSUME NEW f
    PROVE  /\ IsSeq(<<f>>) /\ Len(<<f>>) = 1 /\ <<f>>[1] = f
           /\ \A c : Follows(c, f) => Chain(c, <<f>>)
           /\ \A c : End(c, <<f>>) = Cur(f)
<1> DEFINE X == {f}
<1>1. <<f>> \in Seq(X) /\ Len(<<f>>) = 1 /\ <<f>>[1] = f
  OBVIOUS
<1>2. IsSeq(<<f>>)
  BY <1>1 DEF IsSeq
<1>3. ASSUME NEW c, Follows(c, f) PROVE Chain(c, <<f>>)
  <2> SUFFICES ASSUME NEW i \in 1..1 PROVE Follows(Before(c, <<f>>, i), <<f>>[i])
    BY <1>1 DEF Chain
  <2>1. i = 1
    OBVIOUS
  <2> QED BY <1>1, <1>3, <2>1 DEF Before
<1>4. \A c : End(c, <<f>>) = Cur(f)
  BY <1>1 DEF End
<1> QED BY <1>1, <1>2, <1>3, <1>4

LEMMA CompleteFacts ==
    ASSUME NEW log, IsSeq(log), NEW epoch, NEW bt \in Nat
    PROVE  /\ Frames(Complete(log, epoch), bt)
           /\ Len(Complete(log, epoch)) = 1
           /\ Complete(log, epoch)[1].t = "complete" /\ Complete(log, epoch)[1].b = 0
           /\ Chain(Len(log), Complete(log, epoch))
           /\ \A c : End(c, Complete(log, epoch)) = Len(log)
           /\ Completed(Complete(log, epoch)) /\ Answered(Complete(log, epoch))
<1> DEFINE f == [t |-> "complete", head |-> Len(log), epoch |-> epoch, b |-> 0]
           s == Complete(log, epoch)
<1>1. s = <<f>> /\ Len(log) \in Nat
  BY SeqFacts DEF Complete
<1>2. f.t = "complete" /\ f.head = Len(log) /\ f.b = 0
  OBVIOUS
<1> HIDE DEF f, s
<1>3. Frame(f) /\ f.b <= bt /\ Follows(Len(log), f) /\ Cur(f) = Len(log)
  BY <1>1, <1>2 DEF Frame, Follows, Cur
<1>4. IsSeq(s) /\ Len(s) = 1 /\ s[1] = f /\ \A i \in 1..Len(s) : i = 1
  BY <1>1, OneFrame
<1>5. Chain(Len(log), s) /\ \A c : End(c, s) = Len(log)
  BY <1>1, <1>3, OneFrame
<1>6. Frames(s, bt)
  BY <1>3, <1>4 DEF Frames
<1>7. Completed(s)
  BY <1>2, <1>4 DEF Completed
<1>8. Answered(s)
  BY <1>2, <1>4 DEF Answered
<1> QED BY <1>2, <1>4, <1>5, <1>6, <1>7, <1>8 DEF s

LEMMA ResyncFacts ==
    ASSUME NEW b \in Nat, b # 0, NEW bt \in Nat, b <= bt
    PROVE  /\ Frames(Resync(b), bt) /\ Len(Resync(b)) = 1
           /\ Resync(b)[1].t = "resync" /\ Resync(b)[1].b = b
           /\ \A c : Chain(c, Resync(b)) /\ End(c, Resync(b)) = 0
<1> DEFINE f == [t |-> "resync", b |-> b]
           s == Resync(b)
<1>1. s = <<f>>
  BY DEF Resync
<1>2. f.t = "resync" /\ f.b = b
  OBVIOUS
<1> HIDE DEF f, s
<1>3. Frame(f) /\ f.b <= bt /\ Cur(f) = 0 /\ \A c : Follows(c, f)
  BY <1>2 DEF Frame, Follows, Cur
<1>4. IsSeq(s) /\ Len(s) = 1 /\ s[1] = f /\ \A i \in 1..Len(s) : i = 1
  BY <1>1, OneFrame
<1>5. \A c : Chain(c, s) /\ End(c, s) = 0
  BY <1>1, <1>3, OneFrame
<1>6. Frames(s, bt)
  BY <1>3, <1>4 DEF Frames
<1> QED BY <1>2, <1>4, <1>5, <1>6 DEF s

\* The frames of one replay, its completion behind them.
Replay(t, b) ==
    /\ IsSeq(t) /\ Len(t) >= 1 /\ t[Len(t)].t = "complete"
    /\ \A i \in 1..Len(t) : t[i].b \in {0, b} /\ (t[i].t = "complete" => i = Len(t))

LEMMA ReplayFacts ==
    ASSUME NEW b \in Nat, NEW t, Replay(t, b)
    PROVE  Blocks(b, t) /\ Completed(t) /\ Answered(t)
<1>1. Len(t) \in Nat /\ Len(t) \in 1..Len(t)
  BY SeqFacts DEF Replay
<1>2. Completed(t)
  BY <1>1 DEF Replay, Completed
<1>3. Answered(t)
  <2> SUFFICES ASSUME NEW i \in 1..Len(t), t[i].t = "resync"
               PROVE  \E j \in 1..Len(t) : i < j /\ t[j].t = "complete"
    BY DEF Answered
  <2>1. i # Len(t)
    BY DEF Replay
  <2>2. i < Len(t)
    BY <1>1, <2>1
  <2> QED BY <1>1, <2>2 DEF Replay
<1>4. \A i, j \in 1..Len(t) : i < j => t[i].t # "complete"
  <2> SUFFICES ASSUME NEW i \in 1..Len(t), NEW j \in 1..Len(t), i < j PROVE t[i].t # "complete"
    OBVIOUS
  <2>1. i # Len(t)
    BY <1>1
  <2> QED BY <2>1 DEF Replay
<1>5. \A i, j \in 1..Len(t) : t[j].b # 0 => t[i].b <= t[j].b /\ b <= t[j].b
  <2> SUFFICES ASSUME NEW i \in 1..Len(t), NEW j \in 1..Len(t), t[j].b # 0
               PROVE  t[i].b <= t[j].b /\ b <= t[j].b
    OBVIOUS
  <2>1. t[j].b = b /\ (t[i].b = 0 \/ t[i].b = b)
    BY DEF Replay
  <2>2. 0 <= b /\ b <= b
    OBVIOUS
  <2> QED BY <2>1, <2>2
<1> QED BY <1>2, <1>3, <1>4, <1>5 DEF Blocks

LEMMA ReplayMade ==
    ASSUME NEW u, NEW b \in Nat, Frames(u, b), NEW log, IsSeq(log), NEW epoch,
           \A i \in 1..Len(u) : u[i].t # "complete" /\ u[i].b \in {0, b},
           NEW c, Chain(c, u), End(c, u) = Len(log)
    PROVE  /\ Replay(u \o Complete(log, epoch), b) /\ Frames(u \o Complete(log, epoch), b)
           /\ Chain(c, u \o Complete(log, epoch))
           /\ End(c, u \o Complete(log, epoch)) = Len(log)
<1> DEFINE k == Complete(log, epoch)
           t == u \o k
<1>1. /\ Frames(k, b) /\ Len(k) = 1 /\ k[1].t = "complete" /\ k[1].b = 0
      /\ Chain(Len(log), k) /\ End(Len(log), k) = Len(log)
  BY CompleteFacts
<1>2. IsSeq(u) /\ IsSeq(k) /\ Len(u) \in Nat
  BY <1>1, SeqFacts DEF Frames
<1> HIDE DEF k
<1>3. Chain(c, t) /\ End(c, t) = Len(log) /\ Frames(t, b)
  BY <1>1, <1>2, ChainConcat, QueueConcat
<1>4. /\ IsSeq(t) /\ Len(t) = Len(u) + 1
      /\ \A i \in 1..(Len(u) + 1) : t[i] = IF i <= Len(u) THEN u[i] ELSE k[i - Len(u)]
  <2>1. /\ IsSeq(t) /\ Len(t) = Len(u) + Len(k)
        /\ \A i \in 1..(Len(u) + Len(k)) : t[i] = IF i <= Len(u) THEN u[i] ELSE k[i - Len(u)]
    BY <1>2, ConcatSeq
  <2> QED BY <1>1, <2>1
<1> HIDE DEF t
<1>5. ASSUME NEW i \in 1..Len(t) PROVE (i \in 1..Len(u) /\ t[i] = u[i]) \/ (i = Len(t) /\ t[i] = k[1])
  <2>1. i \in 1..Len(u) \/ i = Len(u) + 1
    BY <1>2, <1>4
  <2>2. i = Len(u) + 1 => ~(i <= Len(u)) /\ i - Len(u) = 1
    BY <1>2
  <2>3. CASE i \in 1..Len(u)
    <3>1. i <= Len(u)
      BY <1>2, <2>3
    <3> QED BY <1>4, <2>3, <3>1
  <2>4. CASE i = Len(u) + 1
    <3>1. t[i] = k[i - Len(u)] /\ i = Len(t)
      BY <1>4, <2>2, <2>4
    <3> QED BY <2>2, <2>4, <3>1
  <2> QED BY <2>1, <2>3, <2>4
<1>6. Len(t) >= 1 /\ Len(t) \in 1..Len(t) /\ Len(t) \notin 1..Len(u)
  BY <1>2, <1>4
<1>7. Replay(t, b)
  BY <1>1, <1>4, <1>5, <1>6 DEF Replay
<1> QED BY <1>3, <1>7 DEF t, k

\* What the server answers to a Hello, and sends after a rewrite.
LEMMA PlainReplay ==
    ASSUME NEW log, IsSeq(log), NEW epoch, NEW from \in Nat, 1 <= from, from <= Len(log) + 1,
           NEW b \in Nat, NEW c, c = from - 1
    PROVE  /\ Replay(Events(log, from, b) \o Complete(log, epoch), b)
           /\ Frames(Events(log, from, b) \o Complete(log, epoch), b)
           /\ Chain(c, Events(log, from, b) \o Complete(log, epoch))
           /\ End(c, Events(log, from, b) \o Complete(log, epoch)) = Len(log)
<1>0. PICK u, t : u = Events(log, from, b) /\ t = Events(log, from, b) \o Complete(log, epoch)
  OBVIOUS
<1>1. /\ Frames(u, b) /\ Chain(c, u) /\ End(c, u) = Len(log)
      /\ \A i \in 1..Len(u) : u[i].t = "event" /\ u[i].b = b
  <2>1. b <= b
    OBVIOUS
  <2> QED BY <1>0, <2>1, EventsFacts
<1>2. \A i \in 1..Len(u) : u[i].t # "complete" /\ u[i].b \in {0, b}
  BY <1>1
<1>3. t = u \o Complete(log, epoch)
  BY <1>0
<1>4. /\ Replay(t, b) /\ Frames(t, b) /\ Chain(c, t) /\ End(c, t) = Len(log)
  BY <1>1, <1>2, <1>3, ReplayMade
<1> QED BY <1>0, <1>4

LEMMA ResyncReplay ==
    ASSUME NEW log, IsSeq(log), NEW epoch, NEW b \in Nat, b # 0,
           NEW t, t = Resync(b) \o Events(log, 1, b) \o Complete(log, epoch), NEW c
    PROVE  /\ Replay(t, b) /\ Frames(t, b)
           /\ Chain(c, t) /\ End(c, t) = Len(log)
<1>0. PICK r, e, u : r = Resync(b) /\ e = Events(log, 1, b) /\ u = r \o e
  OBVIOUS
<1> b <= b
  OBVIOUS
<1>1. /\ Frames(r, b) /\ Chain(c, r) /\ End(c, r) = 0
      /\ Len(r) = 1 /\ r[1].t = "resync" /\ r[1].b = b
  BY <1>0, ResyncFacts
<1>2. /\ Frames(e, b) /\ Chain(0, e) /\ End(0, e) = Len(log)
      /\ \A i \in 1..Len(e) : e[i].t = "event" /\ e[i].b = b
  <2>1. 1 <= Len(log) + 1 /\ 1 - 1 = 0
    BY SeqFacts
  <2> QED BY <1>0, <2>1, EventsFacts
<1>3. IsSeq(r) /\ IsSeq(e) /\ Len(e) \in Nat
  BY <1>1, <1>2, SeqFacts DEF Frames
<1>4. Chain(c, u) /\ End(c, u) = Len(log) /\ Frames(u, b)
  BY <1>0, <1>1, <1>2, <1>3, ChainConcat, QueueConcat
<1>5. \A i \in 1..Len(u) : u[i].t # "complete" /\ u[i].b \in {0, b}
  <2> SUFFICES ASSUME NEW i \in 1..Len(u) PROVE u[i].t # "complete" /\ u[i].b \in {0, b}
    OBVIOUS
  <2>1. Len(u) = Len(r) + Len(e) /\ u[i] = IF i <= Len(r) THEN r[i] ELSE e[i - Len(r)]
    BY <1>0, <1>3, ConcatSeq
  <2>2. CASE i <= 1
    <3>1. i = 1
      BY <1>1, <1>3, <2>1, <2>2
    <3> QED BY <1>1, <2>1, <3>1
  <2>3. CASE i > 1
    <3>1. i - 1 \in 1..Len(e) /\ ~(i <= 1)
      BY <1>1, <1>3, <2>1, <2>3
    <3> QED BY <1>1, <1>2, <2>1, <3>1
  <2> QED BY <1>1, <1>3, <2>1, <2>2, <2>3
<1>6. t = u \o Complete(log, epoch)
  BY <1>0
<1>7. /\ Replay(u \o Complete(log, epoch), b) /\ Frames(u \o Complete(log, epoch), b)
      /\ Chain(c, u \o Complete(log, epoch)) /\ End(c, u \o Complete(log, epoch)) = Len(log)
  BY <1>4, <1>5, ReplayMade
<1> QED BY <1>6, <1>7

-----------------------------------------------------------------------------
(* Steps of the receiver thread.                                            *)

Calm == {"idle", "drain", "emit"}

\* The game thread does something else.
LEMMA GateSame ==
    ASSUME NEW r, NEW w, NEW g, NEW n, NEW bt, NEW late, Gate(r, w, g, n, bt, late),
           NEW g2, g.at \in Calm, g2.at \in Calm, g2.synchronized = g.synchronized,
           g2.replayGen = g.replayGen, g2.last = g.last, g2.mark = g.mark
    PROVE  Gate(r, w, g2, n, bt, late)
<1>1. Types(r, g2, bt, late) /\ Queues(r, w, bt) /\ Session(r)
  BY DEF Gate, Types
<1>2. Places(r, g2)
  BY DEF Gate, Places, Calm, Open, Busy
<1>3. Opening(r, w, g2)
  BY DEF Opening, Calm, Open
<1>4. ASSUME Connected(r)
      PROVE  Marking(r, w) /\ Passed(r, w, g2, late) /\ Stream(r, w, g2, n) /\ Due(r, w, g2)
  <2>1. Marking(r, w) /\ Passed(r, w, g, late) /\ Stream(r, w, g, n) /\ Due(r, w, g)
    BY <1>4 DEF Gate
  <2>2. Passed(r, w, g2, late)
    BY <2>1 DEF Passed
  <2>3. Stream(r, w, g2, n)
    BY <2>1 DEF Stream, Cursor, Calm
  <2>4. Due(r, w, g2)
    BY <2>1 DEF Due, Calm, Open
  <2> QED BY <2>1, <2>2, <2>3, <2>4
<1> QED BY <1>1, <1>2, <1>3, <1>4 DEF Gate

\* A receiver that is not reading, or whose connection was superseded.
LEMMA GateAway ==
    ASSUME NEW r, NEW w, NEW g, NEW n, NEW bt, NEW late,
           Types(r, g, bt, late), Queues(r, w, bt), Places(r, g), Session(r), Opening(r, w, g),
           ~Connected(r)
    PROVE  Gate(r, w, g, n, bt, late)
BY DEF Gate

\* A gate that is shut, or whose replay is another one, claims nothing.
LEMMA Shut ==
    ASSUME NEW r, NEW g, NEW bt, NEW late, Types(r, g, bt, late), NEW m \in Nat, GameRec(g),
           NEW g2, g2 = GenerationChanged(g, m)
    PROVE  /\ g2.at = g.at /\ g2.last = g.last /\ g2.mark = g.mark
           /\ g2.replayGen \in Nat /\ g2.synchronized \in BOOLEAN
           /\ g2.synchronized => g.synchronized /\ g2.replayGen # m
           /\ g2.replayGen = g.replayGen \/ g2.replayGen = m
<1>1. PICK p, q : /\ p = IF m > g.replayGen THEN m ELSE g.replayGen
                  /\ q = (g.synchronized /\ m < g.replayGen)
  OBVIOUS
<1>2. g2 = [g EXCEPT !.replayGen = p, !.synchronized = q]
  BY <1>1 DEF GenerationChanged
<1>3. /\ g2.at = g.at /\ g2.last = g.last /\ g2.mark = g.mark
      /\ g2.replayGen = p /\ g2.synchronized = q
  BY <1>2 DEF GameRec
<1>4. p \in Nat /\ (p = g.replayGen \/ p = m) /\ q \in BOOLEAN
  BY <1>1 DEF Types
<1>5. q => g.synchronized /\ p # m
  <2>1. PICK x \in Nat : x = g.replayGen
    BY DEF Types
  <2>2. q => g.synchronized /\ m < x
    BY <1>1, <2>1, Zenon
  <2>3. p = IF m > x THEN m ELSE x
    BY <1>1, <2>1
  <2>4. m < x => p # m
    BY <2>3
  <2> QED BY <2>2, <2>4
<1> QED BY <1>3, <1>4, <1>5

LEMMA LossKeeps ==
    ASSUME NEW r, NEW w, NEW g, NEW n, NEW bt, NEW late, Gate(r, w, g, n, bt, late),
           NEW k \in 0..Len(w), NEW r2, r2 = [r EXCEPT !.up = FALSE]
    PROVE  Gate(r2, SubSeq(w, 1, k), g, n, bt, late)
<1> PICK v : v = SubSeq(w, 1, k)
  OBVIOUS
<1>0. Types(r, g, bt, late) /\ Queues(r, w, bt) /\ Places(r, g) /\ Session(r) /\ Opening(r, w, g)
  BY DEF Gate
<1>1. r2 = [at |-> r.at, gen |-> r.gen, conn |-> r.conn, active |-> r.active,
            received |-> r.received, applied |-> r.applied, requested |-> r.requested,
            sync |-> r.sync, inbox |-> r.inbox, marker |-> r.marker, read |-> r.read,
            batch |-> r.batch, up |-> FALSE]
  BY <1>0 DEF Types, ReceiverRec
<1>2. /\ Frames(v, bt) /\ \A b : Lacks(w, b) => Lacks(v, b)
      /\ \A b : Blocks(b, w) => Blocks(b, v)
  BY <1>0, QueueBeginning DEF Queues
<1>3. Types(r2, g, bt, late) /\ Places(r2, g) /\ Session(r2)
  <2>1. Types(r2, g, bt, late)
    BY <1>0, <1>1 DEF Types, ReceiverRec
  <2>2. Places(r2, g)
    BY <1>0, <1>1 DEF Places
  <2>3. Session(r2)
    BY <1>0, <1>1 DEF Session, Starting
  <2> QED BY <2>1, <2>2, <2>3
<1>4. Queues(r2, v, bt)
  BY <1>0, <1>1, <1>2 DEF Queues
<1>5. Opening(r2, v, g)
  BY <1>0, <1>1, <1>2 DEF Opening
<1>6. ASSUME Connected(r2)
      PROVE  Marking(r2, v) /\ Passed(r2, v, g, late) /\ Stream(r2, v, g, n) /\ Due(r2, v, g)
  <2>1. Marking(r, w) /\ Passed(r, w, g, late) /\ Stream(r, w, g, n)
    BY <1>1, <1>6 DEF Gate, Connected
  <2>2. Marking(r2, v)
    BY <1>1, <1>2, <2>1 DEF Marking
  <2>3. Passed(r2, v, g, late)
    BY <1>1, <1>2, <2>1 DEF Passed
  <2>4. Chain(r2.received, v)
    BY <1>0, <1>1, <2>1, ChainBeginning DEF Stream, Queues, Frames
  <2>5. Stream(r2, v, g, n)
    BY <1>1, <2>1, <2>4 DEF Stream, Cursor
  <2>6. Due(r2, v, g)
    BY <1>1 DEF Due
  <2> QED BY <2>2, <2>3, <2>5, <2>6
<1> QED BY <1>3, <1>4, <1>5, <1>6 DEF Gate

\* The receiver thread gives its connection up, or goes on to the next.
LEMMA LeavingKeeps ==
    ASSUME NEW r, NEW w, NEW g, NEW n, NEW bt, NEW late, Gate(r, w, g, n, bt, late),
           r.at \in {"reading", "hello", "lost"},
           NEW a \in {"lost", "request", "begin"}, a = "begin" => r.at = "hello" \/ r.conn # r.gen,
           NEW d \in Nat,
           NEW r2,
           r2 = [at |-> a, gen |-> r.gen, conn |-> r.conn, active |-> r.active,
                  received |-> r.received, applied |-> r.applied, requested |-> r.requested,
                  sync |-> r.sync, inbox |-> r.inbox, marker |-> None, read |-> d,
                  batch |-> r.batch, up |-> FALSE],
           NEW v \in {w, <<>>}, NEW g2, NEW late2 \in BOOLEAN,
           g2.at = g.at, g2.last = g.last, g2.mark = g.mark,
           g2.replayGen \in Nat, g2.synchronized \in BOOLEAN
    PROVE  Gate(r2, v, g2, n, bt, late2)
<1>0. Types(r, g, bt, late) /\ Queues(r, w, bt) /\ Places(r, g) /\ Session(r) /\ Opening(r, w, g)
  BY DEF Gate
<1>1. r2 = [at |-> a, gen |-> r.gen, conn |-> r.conn, active |-> r.active,
            received |-> r.received, applied |-> r.applied, requested |-> r.requested,
            sync |-> r.sync, inbox |-> r.inbox, marker |-> None, read |-> d,
            batch |-> r.batch, up |-> FALSE]
  OBVIOUS
<1>2. Types(r2, g2, bt, late2)
  BY <1>0, <1>1 DEF Types, ReceiverRec, MarkerRec
<1>3. Frames(v, bt) /\ \A b : Lacks(w, b) => Lacks(v, b)
  BY <1>0, NothingFacts DEF Queues
<1>4. Queues(r2, v, bt)
  BY <1>0, <1>1, <1>3 DEF Queues
<1>5. Places(r2, g2)
  BY <1>0, <1>1 DEF Places
<1>6. Session(r2)
  BY <1>0, <1>1 DEF Session, Starting
<1>7. Opening(r2, v, g2)
  BY <1>0, <1>1, <1>3 DEF Opening
<1>8. ~Connected(r2)
  BY <1>1 DEF Connected
<1> QED BY <1>2, <1>4, <1>5, <1>6, <1>7, <1>8, GateAway

\* A replay is asked for: the next connection will be a new generation.
Asks(r, r2) ==
    /\ r.at # "none" /\ ReceiverRec(r2) /\ (r2.at = r.at \/ (r.at = "request" /\ r2.at = "begin"))
    /\ r2.received \in Nat /\ r2.applied = r2.received /\ r2.requested = r2.received + 1
    /\ r2.gen = r.gen + 1 /\ r2.conn = r.conn /\ r2.sync = r.sync /\ r2.inbox = <<>>
    /\ r2.marker = None /\ r2.read = r.read /\ r2.batch = r.batch /\ r2.up = FALSE

LEMMA RequestKeeps ==
    ASSUME NEW r, NEW w, NEW g, NEW n, NEW bt, NEW late, Gate(r, w, g, n, bt, late),
           NEW r2, Asks(r, r2),
           NEW v, v = <<>> \/ (v = w /\ r2.at # "reading"),
           NEW g2, NEW late2 \in BOOLEAN,
           g2.at \in {g.at, "drain"}, g2.last = g.last, g2.mark = g.mark,
           g2.replayGen \in Nat, g2.synchronized \in BOOLEAN
    PROVE  Gate(r2, v, g2, n, bt, late2)
<1>a. PICK a : a = r2.at
  OBVIOUS
<1>b. PICK q \in Nat : q = r2.received
  BY DEF Asks
<1>c. PICK p, k : p = q + 1 /\ k = r.gen + 1
  OBVIOUS
<1>0. Types(r, g, bt, late) /\ Queues(r, w, bt) /\ Places(r, g) /\ Session(r) /\ Opening(r, w, g)
  BY DEF Gate
<1>1. /\ r2.at = a /\ r2.gen = k /\ r2.conn = r.conn
      /\ r2.received = q /\ r2.applied = q /\ r2.requested = p
      /\ r2.sync = r.sync /\ r2.inbox = <<>> /\ r2.marker = None /\ r2.read = r.read
      /\ r2.batch = r.batch /\ r2.up = FALSE /\ ReceiverRec(r2)
      /\ (a = r.at \/ (r.at = "request" /\ a = "begin")) /\ (a = "reading" => v = <<>>)
      /\ r.at # "none"
  BY <1>a, <1>b, <1>c DEF Asks
<1>2. r.conn # k /\ k # 0 /\ k \in Nat /\ r.conn <= k
  <2>1. PICK u, c \in Nat : u = r.gen /\ c = r.conn /\ c <= u
    BY <1>0 DEF Types
  <2>2. c # u + 1 /\ u + 1 # 0 /\ u + 1 \in Nat /\ c <= u + 1
    BY <2>1
  <2> QED BY <1>c, <2>1, <2>2
<1>3. Types(r2, g2, bt, late2)
  <2>1. PICK x, y \in Nat : x = k /\ y = p
    BY <1>2, <1>c
  <2>2. /\ ReceiverRec(r2) /\ r2.marker = None /\ r2.up = FALSE /\ r2.gen = x /\ r2.conn = r.conn
        /\ r2.received = q /\ r2.applied = q /\ r2.requested = y /\ r2.sync = r.sync
        /\ r2.read = r.read /\ r2.batch = r.batch
    BY <1>1, <2>1
  <2> QED BY <1>0, <1>2, <2>1, <2>2 DEF Types, MarkerRec
<1>4. Frames(v, bt) /\ \A b : Lacks(w, b) => Lacks(v, b)
  BY <1>0, NothingFacts DEF Queues
<1>5. Queues(r2, v, bt)
  BY <1>0, <1>1, <1>4, NothingFacts, NothingIsSeq DEF Queues
<1>6. Places(r2, g2)
  BY <1>0, <1>1, <1>2 DEF Places, Open, Busy
<1>7. Session(r2)
  BY <1>0, <1>1, <1>2, <1>c DEF Session, Starting
<1>8. Opening(r2, v, g2)
  BY <1>0, <1>1, <1>4, NothingFacts DEF Opening, Open
<1>9. ~Connected(r2)
  BY <1>1, <1>2 DEF Connected
<1> QED BY <1>3, <1>5, <1>6, <1>7, <1>8, <1>9, GateAway

\* A connection begins.
LEMMA BeginKeeps ==
    ASSUME NEW r, NEW w, NEW g, NEW n, NEW bt, NEW late, Gate(r, w, g, n, bt, late),
           r.at = "begin", r.gen = 0 \/ g.at \notin Busy, NEW k, k = r.gen + 1, NEW q,
           q = IF r.requested # 0 THEN r.requested ELSE r.received + 1,
           NEW r2,
           r2 = [at |-> "hello", gen |-> k, conn |-> k, active |-> r.active,
                  received |-> r.received, applied |-> r.applied, requested |-> 0,
                  sync |-> q, inbox |-> r.inbox, marker |-> None, read |-> r.read,
                  batch |-> r.batch, up |-> r.up]
    PROVE  Gate(r2, w, g, n, bt, late)
<1>0. Types(r, g, bt, late) /\ Queues(r, w, bt) /\ Places(r, g) /\ Session(r) /\ Opening(r, w, g)
  BY DEF Gate
<1>1. r2 = [at |-> "hello", gen |-> k, conn |-> k, active |-> r.active,
            received |-> r.received, applied |-> r.applied, requested |-> 0,
            sync |-> q, inbox |-> r.inbox, marker |-> None, read |-> r.read,
            batch |-> r.batch, up |-> r.up]
  OBVIOUS
<1>2. k # 0 /\ k \in Nat /\ k <= k
  <2>1. r.gen \in Nat
    BY <1>0 DEF Types
  <2>2. k = r.gen + 1
    OBVIOUS
  <2> QED BY <2>1, <2>2
<1>3. q = r.received + 1 /\ q \in Nat /\ q >= 1
  <2>1. r.received \in Nat
    BY <1>0 DEF Types
  <2>2. q = r.received + 1
    BY <1>0 DEF Session
  <2> QED BY <2>1, <2>2
<1>4. Types(r2, g, bt, late)
  <2>1. PICK x \in Nat : x = k
    BY <1>2
  <2>2. /\ ReceiverRec(r2) /\ r2.marker = None /\ r2.up = r.up /\ r2.gen = x /\ r2.conn = x
        /\ r2.received = r.received /\ r2.applied = r.applied /\ r2.requested = 0 /\ r2.sync = q
        /\ r2.read = r.read /\ r2.batch = r.batch
    BY <1>1, <2>1 DEF ReceiverRec
  <2>3. x <= x
    OBVIOUS
  <2> QED BY <1>0, <1>3, <2>2, <2>3 DEF Types, MarkerRec
<1>5. Queues(r2, w, bt)
  BY <1>0, <1>1 DEF Queues
<1>6. Places(r2, g)
  BY <1>0, <1>1, <1>2 DEF Places
<1>7. Session(r2)
  BY <1>0, <1>1, <1>2, <1>3 DEF Session, Starting
<1>8. Opening(r2, w, g)
  BY <1>0, <1>1 DEF Opening
<1>9. ~Connected(r2)
  BY <1>1 DEF Connected
<1> QED BY <1>4, <1>5, <1>6, <1>7, <1>8, <1>9, GateAway

\* The server answers a Hello with a replay.
LEMMA HelloKeeps ==
    ASSUME NEW r, NEW w, NEW g, NEW n, NEW bt, NEW late, Gate(r, w, g, n, bt, late),
           r.at = "hello", NEW b, b = bt + 1,
           NEW r2,
           r2 = [at |-> "reading", gen |-> r.gen, conn |-> r.conn, active |-> r.conn,
                  received |-> r.received, applied |-> r.applied, requested |-> r.requested,
                  sync |-> r.sync, inbox |-> r.inbox, marker |-> r.marker, read |-> r.read,
                  batch |-> b, up |-> TRUE],
           NEW t, Replay(t, b), Frames(t, b),
           r.conn = r.gen => Chain(r.received, t) /\ End(r.received, t) = n,
           NEW g2, NEW late2 \in BOOLEAN,
           g2.at = g.at, g2.last = g.last, g2.mark = g.mark,
           g2.replayGen \in Nat, g2.synchronized \in BOOLEAN,
           g2.synchronized => g2.replayGen # r.conn
    PROVE  Gate(r2, t, g2, n, b, late2)
<1>0. Types(r, g, bt, late) /\ Queues(r, w, bt) /\ Places(r, g) /\ Session(r) /\ Opening(r, w, g)
  BY DEF Gate
<1>1. r2 = [at |-> "reading", gen |-> r.gen, conn |-> r.conn, active |-> r.conn,
            received |-> r.received, applied |-> r.applied, requested |-> r.requested,
            sync |-> r.sync, inbox |-> r.inbox, marker |-> r.marker, read |-> r.read,
            batch |-> b, up |-> TRUE]
  OBVIOUS
<1>2. b \in Nat /\ b >= 1 /\ b <= b /\ bt <= b /\ bt < b /\ bt \in Nat
  BY <1>0 DEF Types
<1>3. Types(r2, g2, b, late2)
  <2>1. /\ ReceiverRec(r2) /\ r2.marker = r.marker /\ r2.up = TRUE /\ r2.gen = r.gen
        /\ r2.conn = r.conn /\ r2.received = r.received /\ r2.applied = r.applied
        /\ r2.requested = r.requested /\ r2.sync = r.sync /\ r2.read = r.read /\ r2.batch = b
    BY <1>1 DEF ReceiverRec
  <2> QED BY <1>0, <1>2, <2>1 DEF Types
<1>4. r.inbox = <<>> /\ r.received = r.applied /\ r.marker = None
  BY <1>0 DEF Session, Starting
<1>5. Blocks(b, t) /\ Completed(t) /\ Answered(t)
  BY <1>2, ReplayFacts
<1>6. Queues(r2, t, b)
  BY <1>1, <1>2, <1>4, <1>5, NothingFacts, NothingIsSeq DEF Queues
<1>7. Places(r2, g2)
  BY <1>0, <1>1 DEF Places
<1>8. Session(r2)
  BY <1>0, <1>1 DEF Session, Starting
<1>9. Opening(r2, t, g2)
  <2>1. PICK x, m \in Nat : x = r.batch /\ m = g.mark /\ x <= bt
    BY <1>0 DEF Types
  <2>2. m <= x => m <= b /\ m # b
    BY <1>2, <2>1
  <2> QED BY <1>0, <1>1, <2>1, <2>2 DEF Opening
<1>10. ASSUME Connected(r2)
       PROVE  Marking(r2, t) /\ Passed(r2, t, g2, late2) /\ Stream(r2, t, g2, n) /\ Due(r2, t, g2)
  <2>1. r.conn = r.gen /\ g.at \notin Busy
    BY <1>0, <1>1, <1>10 DEF Connected, Places
  <2>2. Marking(r2, t)
    BY <1>1, <1>4 DEF Marking
  <2>3. Passed(r2, t, g2, late2)
    BY <1>1, <2>1 DEF Passed
  <2>4. Stream(r2, t, g2, n)
    BY <1>1, <1>4, <2>1, NothingFacts DEF Stream, Cursor, Busy
  <2>5. Due(r2, t, g2)
    BY <1>1, <1>4, <1>5, NothingIsSeq DEF Due
  <2> QED BY <2>2, <2>3, <2>4, <2>5
<1> QED BY <1>3, <1>6, <1>7, <1>8, <1>9, <1>10 DEF Gate

\* The next event is queued.
LEMMA EventKeeps ==
    ASSUME NEW r, NEW w, NEW g, NEW n, NEW bt, NEW late, Gate(r, w, g, n, bt, late),
           Connected(r), w # <<>>, NEW f, f = Head(w), f.t = "event",
           NEW r2, ReceiverRec(r2), r2.inbox = Append(r.inbox, f), r2.received = f.seq,
           r2.at = r.at, r2.gen = r.gen, r2.conn = r.conn, r2.applied = r.applied,
           r2.requested = r.requested, r2.sync = r.sync, r2.marker = r.marker,
           r2.read = r.read, r2.batch = r.batch, r2.up = r.up
    PROVE  Gate(r2, Tail(w), g, n, bt, late)
<1>0. /\ Types(r, g, bt, late) /\ Queues(r, w, bt) /\ Places(r, g) /\ Session(r)
      /\ Opening(r, w, g)
      /\ Marking(r, w) /\ Passed(r, w, g, late) /\ Stream(r, w, g, n) /\ Due(r, w, g)
  BY DEF Gate
<1>1. PICK v, x, q : v = Tail(w) /\ x = Append(r.inbox, f) /\ q = f.seq
  OBVIOUS
<1>2. r2.inbox = x /\ r2.received = q
  BY <1>1
<1>3. /\ Frame(f) /\ f.b <= bt /\ Frames(v, bt)
      /\ \A b : Lacks(w, b) => Lacks(v, b) /\ f.b # b
      /\ Completed(w) => Completed(v)
      /\ Answered(w) => Answered(v)
  BY <1>0, <1>1, QueueTail DEF Queues
<1>4. r.at = "reading" /\ r.batch \in Nat /\ r.batch >= 1 /\ Blocks(r.batch, w)
  BY <1>0 DEF Queues, Types, Connected
<1>5. Blocks(r.batch, v)
  BY <1>0, <1>1, <1>4, BlocksTail DEF Queues
<1>6. /\ Follows(r.received, f) /\ Chain(Cur(f), v) /\ End(Cur(f), v) = End(r.received, w)
  BY <1>0, <1>1, ChainTail DEF Queues, Frames, Stream
<1>7. Cur(f) = q /\ q = r.received + 1 /\ q \in Nat /\ r.received <= q /\ r.received \in Nat
  <2>1. r.received \in Nat
    BY <1>0 DEF Types
  <2>2. Cur(f) = q /\ q = r.received + 1
    BY <1>1, <1>6 DEF Cur, Follows
  <2> QED BY <2>1, <2>2
<1>8. /\ Frames(x, bt) /\ \A b : Lacks(r.inbox, b) /\ f.b # b => Lacks(x, b)
  BY <1>0, <1>1, <1>3, QueueAppend DEF Queues
<1>9. /\ Len(r.inbox) \in Nat /\ Len(x) = Len(r.inbox) + 1
      /\ \A i \in 1..Len(x) : (i \in 1..Len(r.inbox) /\ x[i] = r.inbox[i]) \/ x[i] = f
  <2>1. /\ Len(r.inbox) \in Nat /\ Len(x) = Len(r.inbox) + 1 /\ x[Len(r.inbox) + 1] = f
        /\ \A i \in 1..Len(r.inbox) : x[i] = r.inbox[i]
    BY <1>0, <1>1, AppendSeq, SeqFacts DEF Queues, Frames
  <2>2. \A i \in 1..Len(x) : i \in 1..Len(r.inbox) \/ i = Len(r.inbox) + 1
    BY <2>1
  <2> QED BY <2>1, <2>2
<1>10. Types(r2, g, bt, late)
  BY <1>0, <1>2, <1>7 DEF Types
<1>11. Queues(r2, v, bt)
  BY <1>0, <1>2, <1>3, <1>4, <1>5, <1>8, <1>9 DEF Queues
<1>12. Places(r2, g)
  BY <1>0, <1>2 DEF Places
<1>13. Session(r2)
  BY <1>0, <1>2, <1>4 DEF Session, Starting, Connected
<1>14. Opening(r2, v, g)
  BY <1>0, <1>2, <1>3, <1>8 DEF Opening
<1>15. Marking(r2, v)
  <2>1. ASSUME r.marker # None
        PROVE  /\ r.marker.left <= Len(x) /\ r.marker.head <= q /\ Lacks(v, r.batch)
               /\ \A i \in 1..Len(x) : i > r.marker.left => x[i].b # r.batch
    <3>1. PICK h, l \in Nat : h = r.marker.head /\ l = r.marker.left
      BY <1>0, <2>1 DEF Types, MarkerRec
    <3>2. l <= Len(r.inbox) /\ h <= r.received
      BY <1>0, <2>1, <3>1 DEF Marking
    <3>3. l <= Len(x) /\ h <= q
      BY <1>7, <1>9, <3>2
    <3> QED BY <1>0, <1>3, <1>9, <2>1, <3>1, <3>3 DEF Marking
  <2> QED BY <1>2, <2>1 DEF Marking
<1>16. Passed(r2, v, g, late)
  BY <1>0, <1>2, <1>3, <1>8 DEF Passed
<1>17. Stream(r2, v, g, n)
  <2>1. ASSUME g.at # "recover"
        PROVE  Chain(Cursor(r, g), x) /\ End(Cursor(r, g), x) = q
    BY <1>0, <1>1, <1>6, <1>7, <2>1, ChainAppend DEF Stream, Queues, Frames
  <2>2. Cursor(r2, g) = Cursor(r, g)
    BY <1>2 DEF Cursor
  <2> QED BY <1>0, <1>2, <1>6, <1>7, <2>1, <2>2 DEF Stream
<1>18. Due(r2, v, g)
  BY <1>0, <1>2, <1>3, <1>9 DEF Due
<1> QED BY <1>1, <1>10, <1>11, <1>12, <1>13, <1>14, <1>15, <1>16, <1>17, <1>18 DEF Gate

\* A Resync is queued: the replay behind it is the one to wait for.
Resyncs(r, f, g, r2, g2) ==
    /\ ReceiverRec(r2) /\ r2.inbox = Append(r.inbox, f) /\ r2.received = 0
    /\ r2.at = r.at /\ r2.gen = r.gen /\ r2.conn = r.conn /\ r2.applied = r.applied
    /\ r2.requested = r.requested /\ r2.sync = r.sync /\ r2.marker = None
    /\ r2.read = r.read /\ r2.batch = f.b /\ r2.up = r.up
    /\ g2.at = g.at /\ g2.last = g.last /\ g2.mark = g.mark
    /\ g2.replayGen \in Nat /\ g2.synchronized \in BOOLEAN
    /\ g2.synchronized => g2.replayGen # r.conn

LEMMA ResyncKeeps ==
    ASSUME NEW r, NEW w, NEW g, NEW n, NEW bt, NEW late, Gate(r, w, g, n, bt, late),
           Connected(r), w # <<>>, NEW f, f = Head(w), f.t = "resync",
           NEW r2, NEW g2, Resyncs(r, f, g, r2, g2), NEW late2 \in BOOLEAN
    PROVE  Gate(r2, Tail(w), g2, n, bt, late2)
<1> /\ ReceiverRec(r2) /\ r2.inbox = Append(r.inbox, f) /\ r2.received = 0
    /\ r2.at = r.at /\ r2.gen = r.gen /\ r2.conn = r.conn /\ r2.applied = r.applied
    /\ r2.requested = r.requested /\ r2.sync = r.sync /\ r2.marker = None
    /\ r2.read = r.read /\ r2.batch = f.b /\ r2.up = r.up
    /\ g2.at = g.at /\ g2.last = g.last /\ g2.mark = g.mark
    /\ g2.replayGen \in Nat /\ g2.synchronized \in BOOLEAN
    /\ g2.synchronized => g2.replayGen # r.conn
  BY DEF Resyncs
<1>0. /\ Types(r, g, bt, late) /\ Queues(r, w, bt) /\ Places(r, g) /\ Session(r)
      /\ Opening(r, w, g) /\ Stream(r, w, g, n) /\ Due(r, w, g)
  BY DEF Gate
<1>1. PICK v, x, b : v = Tail(w) /\ x = Append(r.inbox, f) /\ b = f.b
  OBVIOUS
<1>2. r2.inbox = x /\ r2.batch = b
  BY <1>1
<1>3. /\ Frame(f) /\ f.b <= bt /\ Frames(v, bt)
      /\ \A c : Lacks(w, c) => f.b # c
      /\ Answered(w) => Answered(v) /\ Completed(v)
  BY <1>0, <1>1, QueueTail DEF Queues
<1>4. r.at = "reading" /\ r.batch \in Nat /\ r.batch >= 1 /\ Blocks(r.batch, w)
  BY <1>0 DEF Queues, Types, Connected
<1>5. r.batch <= b /\ Blocks(b, v)
  BY <1>0, <1>1, <1>4, BlocksTail DEF Queues
<1>6. b \in Nat /\ b >= 1 /\ b <= bt
  <2>1. b \in Nat /\ b # 0
    BY <1>1, <1>3 DEF Frame
  <2> QED BY <1>1, <1>3, <2>1
<1>7. /\ Chain(Cur(f), v) /\ End(Cur(f), v) = End(r.received, w)
  BY <1>0, <1>1, ChainTail DEF Queues, Frames, Stream
<1>8. Cur(f) = 0 /\ \A c : Follows(c, f)
  BY DEF Cur, Follows
<1>9. Frames(x, bt)
  BY <1>0, <1>1, <1>3, QueueAppend DEF Queues
<1>10. \A i \in 1..Len(x) : (i \in 1..Len(r.inbox) /\ x[i] = r.inbox[i]) \/ x[i] = f
  <2>1. /\ Len(r.inbox) \in Nat /\ Len(x) = Len(r.inbox) + 1 /\ x[Len(r.inbox) + 1] = f
        /\ \A i \in 1..Len(r.inbox) : x[i] = r.inbox[i]
    BY <1>0, <1>1, AppendSeq, SeqFacts DEF Queues, Frames
  <2>2. \A i \in 1..Len(x) : i \in 1..Len(r.inbox) \/ i = Len(r.inbox) + 1
    BY <2>1
  <2>3. ASSUME NEW i \in 1..Len(x)
        PROVE  (i \in 1..Len(r.inbox) /\ x[i] = r.inbox[i]) \/ x[i] = f
    <3>1. CASE i \in 1..Len(r.inbox)
      BY <2>1, <3>1
    <3>2. CASE i = Len(r.inbox) + 1
      BY <2>1, <3>2
    <3> QED BY <2>2, <2>3, <3>1, <3>2
  <2> QED BY <2>3
<1>11. Types(r2, g2, bt, late2)
  <2>1. MarkerRec(r2.marker) /\ r2.received \in Nat
    BY DEF MarkerRec
  <2>2. r2.batch \in Nat /\ r2.batch <= bt
    BY <1>2, <1>6
  <2> QED BY <1>0, <2>1, <2>2 DEF Types
<1>12. Queues(r2, v, bt)
  BY <1>0, <1>2, <1>3, <1>4, <1>5, <1>6, <1>9, <1>10 DEF Queues
<1>13. Places(r2, g2)
  BY <1>0 DEF Places
<1>14. Session(r2)
  BY <1>0, <1>4 DEF Session, Starting, Connected
<1>15. Opening(r2, v, g2)
  <2>1. ASSUME g.at \in Open
        PROVE  1 <= g.mark /\ g.mark <= b /\ g.mark # b
    <3>1. PICK m, y \in Nat : m = g.mark /\ y = r.batch
      BY <1>0 DEF Types
    <3>2. 1 <= m /\ m <= y /\ (m = y => Lacks(w, y))
      BY <1>0, <2>1, <3>1 DEF Opening
    <3>3. m = y => b # y
      BY <1>1, <1>3, <3>2
    <3>4. m <= b /\ m # b
      BY <1>5, <1>6, <3>1, <3>2, <3>3
    <3> QED BY <3>1, <3>2, <3>4
  <2> QED BY <1>2, <2>1 DEF Opening
<1>16. Marking(r2, v)
  BY DEF Marking
<1>17. Passed(r2, v, g2, late2)
  BY DEF Passed, Connected
<1>18. Stream(r2, v, g2, n)
  <2>1. ASSUME g.at # "recover"
        PROVE  Chain(Cursor(r, g), x) /\ End(Cursor(r, g), x) = 0
    BY <1>0, <1>1, <1>8, <2>1, ChainAppend DEF Stream, Queues, Frames
  <2>2. Cursor(r2, g2) = Cursor(r, g)
    BY DEF Cursor
  <2> QED BY <1>0, <1>2, <1>7, <1>8, <2>1, <2>2 DEF Stream
<1>19. Due(r2, v, g2)
  BY <1>0, <1>2, <1>3 DEF Due
<1> QED BY <1>1, <1>11, <1>12, <1>13, <1>14, <1>15, <1>16, <1>17, <1>18, <1>19 DEF Gate

\* A completion is marked behind what is in the inbox.
LEMMA CompleteKeeps ==
    ASSUME NEW r, NEW w, NEW g, NEW n, NEW bt, NEW late, Gate(r, w, g, n, bt, late),
           Connected(r), w # <<>>, NEW f, f = Head(w), f.t = "complete",
           NEW r2, ReceiverRec(r2), r2.inbox = r.inbox, r2.received = r.received,
           r2.at = r.at, r2.gen = r.gen, r2.conn = r.conn, r2.applied = r.applied,
           r2.requested = r.requested, r2.sync = r.sync,
           r2.marker = [head |-> f.head, left |-> Len(r.inbox)],
           r2.read = r.read, r2.batch = r.batch, r2.up = r.up
    PROVE  Gate(r2, Tail(w), g, n, bt, late)
<1>0. /\ Types(r, g, bt, late) /\ Queues(r, w, bt) /\ Places(r, g) /\ Session(r)
      /\ Opening(r, w, g) /\ Passed(r, w, g, late) /\ Stream(r, w, g, n) /\ Due(r, w, g)
  BY DEF Gate
<1>1. PICK v, h, l : v = Tail(w) /\ h = f.head /\ l = Len(r.inbox)
  OBVIOUS
<1>2. /\ Frame(f) /\ Frames(v, bt) /\ \A b : Lacks(w, b) => Lacks(v, b)
      /\ Answered(w) => Answered(v)
  BY <1>0, <1>1, QueueTail DEF Queues
<1>3. r.at = "reading" /\ r.batch \in Nat /\ r.batch >= 1 /\ Blocks(r.batch, w)
  BY <1>0 DEF Queues, Types, Connected
<1>4. Blocks(r.batch, v) /\ Lacks(v, r.batch)
  BY <1>0, <1>1, <1>3, BlocksTail DEF Queues
<1>5. /\ Follows(r.received, f) /\ Chain(Cur(f), v) /\ End(Cur(f), v) = End(r.received, w)
  BY <1>0, <1>1, ChainTail DEF Queues, Frames, Stream
<1>6. h = r.received /\ Cur(f) = r.received /\ h \in Nat /\ h <= h
  BY <1>0, <1>1, <1>5 DEF Cur, Follows, Types
<1>7. l \in Nat /\ l <= l /\ \A i \in 1..l : i <= l /\ ~(i > l)
  BY <1>0, <1>1, SeqFacts DEF Queues, Frames
<1>8. r2.marker # None /\ r2.marker = [head |-> h, left |-> l]
      /\ r2.marker.head = h /\ r2.marker.left = l
  <2>1. r2.marker = [head |-> h, left |-> l]
    BY <1>1
  <2>2. DOMAIN r2.marker = {"head", "left"} /\ DOMAIN None = {}
    BY <2>1 DEF None
  <2>3. r2.marker # None
    BY <2>2
  <2> QED BY <2>1, <2>3
<1>9. Types(r2, g, bt, late)
  BY <1>0, <1>6, <1>7, <1>8 DEF Types, MarkerRec
<1>10. Queues(r2, v, bt)
  BY <1>0, <1>2, <1>3, <1>4 DEF Queues
<1>11. Places(r2, g)
  BY <1>0, <1>3 DEF Places
<1>12. Session(r2)
  BY <1>0, <1>3 DEF Session, Starting, Connected
<1>13. Opening(r2, v, g)
  BY <1>0, <1>2 DEF Opening
<1>14. Marking(r2, v)
  BY <1>1, <1>4, <1>6, <1>7, <1>8 DEF Marking
<1>15. Passed(r2, v, g, late)
  BY <1>0, <1>2 DEF Passed
<1>16. Stream(r2, v, g, n)
  <2>1. Cursor(r2, g) = Cursor(r, g)
    BY DEF Cursor
  <2> QED BY <1>0, <1>5, <1>6, <2>1 DEF Stream
<1>17. Due(r2, v, g)
  BY <1>0, <1>1, <1>2, <1>7, <1>8 DEF Due
<1> QED BY <1>1, <1>9, <1>10, <1>11, <1>12, <1>13, <1>14, <1>15, <1>16, <1>17 DEF Gate

-----------------------------------------------------------------------------
(* Steps of the server.                                                     *)

ThreeParts(s, t, u) == IsSeq(s) /\ IsSeq(t) /\ IsSeq(u)

LEMMA ConcatThree ==
    ASSUME NEW s, NEW t, NEW u, ThreeParts(s, t, u)
    PROVE  s \o t \o u = s \o (t \o u)
<1>0. IsSeq(s) /\ IsSeq(t) /\ IsSeq(u)
  BY DEF ThreeParts
<1>1. PICK X, Y, Z : s \in Seq(X) /\ t \in Seq(Y) /\ u \in Seq(Z)
  BY <1>0 DEF IsSeq
<1>2. PICK S : S = X \cup Y \cup Z
  OBVIOUS
<1>3. s \in Seq(S) /\ t \in Seq(S) /\ u \in Seq(S)
  BY <1>1, <1>2, SeqMonotonic
<1> QED BY <1>3, ConcatAssociative

FourParts(s, t, u, v) == IsSeq(s) /\ IsSeq(t) /\ IsSeq(u) /\ IsSeq(v)

LEMMA ConcatFour ==
    ASSUME NEW s, NEW t, NEW u, NEW v, FourParts(s, t, u, v)
    PROVE  s \o t \o u \o v = s \o (t \o u \o v)
<1>0. IsSeq(s) /\ IsSeq(t) /\ IsSeq(u) /\ IsSeq(v)
  BY DEF FourParts
<1>1. IsSeq(t \o u)
  BY <1>0, ConcatSeq
<1>2. s \o t \o u = s \o (t \o u)
  <2>1. ThreeParts(s, t, u)
    BY <1>0 DEF ThreeParts
  <2> QED BY <2>1, ConcatThree
<1>3. PICK x : x = t \o u
  OBVIOUS
<1>4. s \o x \o v = s \o (x \o v)
  <2>1. ThreeParts(s, x, v)
    BY <1>0, <1>1, <1>3 DEF ThreeParts
  <2> QED BY <2>1, ConcatThree
<1> QED BY <1>2, <1>3, <1>4

\* Whatever the server broadcasts goes behind what is on the wire.
LEMMA BroadcastKeeps ==
    ASSUME NEW r, NEW w, NEW g, NEW n, NEW bt, NEW late, Gate(r, w, g, n, bt, late),
           NEW bt2 \in Nat, bt <= bt2, NEW t, Frames(t, bt2), Blocks(bt + 1, t), Answered(t),
           \A j \in 1..Len(t) : t[j].b # 0 => bt < t[j].b,
           NEW n2, Chain(n, t), End(n, t) = n2,
           NEW v, v = IF r.up THEN w \o t ELSE w
    PROVE  Gate(r, v, g, n2, bt2, late)
<1>0. Types(r, g, bt, late) /\ Queues(r, w, bt) /\ Places(r, g) /\ Session(r) /\ Opening(r, w, g)
  BY DEF Gate
<1>1. bt \in Nat /\ r.batch \in Nat /\ r.batch <= bt /\ r.batch <= bt2
  <2>1. bt \in Nat /\ r.batch \in Nat /\ r.batch <= bt
    BY <1>0 DEF Types
  <2> QED BY <2>1
<1>2. \A s : Frames(s, bt) => Frames(s, bt2)
  <2> SUFFICES ASSUME NEW s, Frames(s, bt), NEW i \in 1..Len(s) PROVE s[i].b <= bt2
    BY DEF Frames
  <2>1. PICK x \in Nat : x = s[i].b /\ x <= bt
    BY DEF Frames, Frame
  <2> QED BY <1>1, <2>1
<1>3. Types(r, g, bt2, late)
  BY <1>0, <1>1 DEF Types
<1>4. CASE ~r.up
  <2>1. v = w
    BY <1>4
  <2>2. Queues(r, w, bt2)
    BY <1>0, <1>2 DEF Queues
  <2>3. Connected(r) => /\ Marking(r, w) /\ Passed(r, w, g, late) /\ Stream(r, w, g, n2)
                        /\ Due(r, w, g)
    BY <1>4 DEF Gate, Stream
  <2> QED BY <1>0, <1>3, <2>1, <2>2, <2>3 DEF Gate
<1>5. CASE r.up
  <2>1. v = w \o t
    BY <1>5
  <2>2. r.at = "reading" /\ r.batch >= 1 /\ Blocks(r.batch, w) /\ Frames(w, bt)
    BY <1>0, <1>5 DEF Places, Queues
  <2>3. /\ Frames(v, bt2)
        /\ \A b : Lacks(w, b) /\ Lacks(t, b) => Lacks(v, b)
        /\ Completed(w) => Completed(v)
        /\ Answered(w) => Answered(v)
    BY <1>2, <2>1, <2>2, QueueConcat
  <2>4. \A j \in 1..Len(t) : t[j].b \in Nat
    BY DEF Frames, Frame
  <2>5. Blocks(r.batch, v)
    <3>1. IsSeq(t)
      BY DEF Frames
    <3> QED BY <1>1, <2>1, <2>2, <2>4, <3>1, BlocksConcat
  <2>6. Lacks(t, r.batch)
    <3> SUFFICES ASSUME NEW j \in 1..Len(t) PROVE t[j].b # r.batch
      BY DEF Lacks
    <3>1. PICK x \in Nat : x = t[j].b
      BY <2>4
    <3>2. x # 0 => bt < x
      BY <3>1
    <3> QED BY <1>1, <2>2, <3>1, <3>2
  <2>7. Queues(r, v, bt2)
    BY <1>0, <1>2, <2>2, <2>3, <2>5 DEF Queues
  <2>8. Opening(r, v, g)
    BY <1>0, <2>3, <2>6 DEF Opening
  <2>9. ASSUME Connected(r)
        PROVE  Marking(r, v) /\ Passed(r, v, g, late) /\ Stream(r, v, g, n2) /\ Due(r, v, g)
    <3>1. Marking(r, w) /\ Passed(r, w, g, late) /\ Stream(r, w, g, n) /\ Due(r, w, g)
      BY <2>9 DEF Gate
    <3>2. Marking(r, v)
      BY <2>3, <2>6, <3>1 DEF Marking
    <3>3. Passed(r, v, g, late)
      BY <2>3, <2>6, <3>1 DEF Passed
    <3>4. Chain(r.received, v) /\ End(r.received, v) = n2
      <4>1. IsSeq(w) /\ IsSeq(t) /\ Chain(r.received, w) /\ End(r.received, w) = n
        BY <1>5, <2>2, <3>1 DEF Frames, Stream
      <4>2. PICK c : c = r.received
        OBVIOUS
      <4>3. Chain(c, w \o t) /\ End(c, w \o t) = End(End(c, w), t)
        BY <4>1, <4>2, ChainConcat
      <4> QED BY <2>1, <4>1, <4>2, <4>3
    <3>5. Stream(r, v, g, n2)
      BY <3>1, <3>4 DEF Stream
    <3>6. Due(r, v, g)
      BY <2>3, <3>1 DEF Due
    <3> QED BY <3>2, <3>3, <3>5, <3>6
  <2> QED BY <1>0, <1>3, <2>7, <2>8, <2>9 DEF Gate
<1> QED BY <1>4, <1>5

LEMMA LiveEvents ==
    ASSUME NEW log, IsSeq(log), NEW n \in Nat, n <= Len(log), NEW bt \in Nat
    PROVE  /\ Frames(Events(log, n + 1, 0), bt)
           /\ \A i \in 1..Len(Events(log, n + 1, 0)) :
                 Events(log, n + 1, 0)[i].t = "event" /\ Events(log, n + 1, 0)[i].b = 0
           /\ Chain(n, Events(log, n + 1, 0)) /\ End(n, Events(log, n + 1, 0)) = Len(log)
<1>1. PICK from, z \in Nat : from = n + 1 /\ z = 0
  OBVIOUS
<1>2. 1 <= from /\ from <= Len(log) + 1 /\ z <= bt /\ from - 1 = n
  BY <1>1, SeqFacts
<1>3. PICK t : t = Events(log, from, z)
  OBVIOUS
<1>4. /\ Frames(t, bt) /\ \A i \in 1..Len(t) : t[i].t = "event" /\ t[i].b = z
      /\ Chain(from - 1, t) /\ End(from - 1, t) = Len(log)
  BY <1>2, <1>3, EventsFacts
<1> QED BY <1>1, <1>2, <1>3, <1>4

\* New records are broadcast as live events.
LEMMA LiveKeeps ==
    ASSUME NEW r, NEW w, NEW g, NEW log, IsSeq(log), NEW bt, NEW late,
           Gate(r, w, g, Len(log), bt, late),
           NEW txns, IsSeq(txns), NEW log2, log2 = log \o txns,
           NEW v, v = IF r.up THEN w \o Events(log2, Len(log) + 1, 0) ELSE w
    PROVE  IsSeq(log2) /\ Gate(r, v, g, Len(log2), bt, late)
<1>1. IsSeq(log2) /\ Len(log2) = Len(log) + Len(txns) /\ Len(log) \in Nat /\ Len(txns) \in Nat
  BY ConcatSeq, SeqFacts
<1>2. bt \in Nat /\ bt <= bt /\ 0 <= bt
  BY DEF Gate, Types
<1>3. PICK n \in Nat : n = Len(log) /\ n <= Len(log2)
  BY <1>1
<1>4. PICK t : t = Events(log2, n + 1, 0)
  OBVIOUS
<1>6. /\ Frames(t, bt) /\ Chain(n, t) /\ End(n, t) = Len(log2)
      /\ \A i \in 1..Len(t) : t[i].t = "event" /\ t[i].b = 0
  <2>1. IsSeq(log2) /\ n <= Len(log2) /\ bt \in Nat
    BY <1>1, <1>2, <1>3
  <2>2. /\ Frames(Events(log2, n + 1, 0), bt)
        /\ \A i \in 1..Len(Events(log2, n + 1, 0)) :
              Events(log2, n + 1, 0)[i].t = "event" /\ Events(log2, n + 1, 0)[i].b = 0
        /\ Chain(n, Events(log2, n + 1, 0)) /\ End(n, Events(log2, n + 1, 0)) = Len(log2)
    BY <2>1, LiveEvents
  <2> QED BY <1>4, <2>2
<1>7. Blocks(bt + 1, t) /\ Answered(t)
  BY <1>6 DEF Blocks, Answered
<1>8. v = IF r.up THEN w \o t ELSE w
  BY <1>3, <1>4
<1>9. Gate(r, v, g, Len(log2), bt, late)
  BY <1>2, <1>3, <1>6, <1>7, <1>8, BroadcastKeeps
<1> QED BY <1>1, <1>9

\* A rewritten history is sent to the connected as a replay.
Rewritten(r, w, log, epoch, b) ==
    IF r.up THEN w \o Resync(b) \o Events(log, 1, b) \o Complete(log, epoch) ELSE w

LEMMA RewriteKeeps ==
    ASSUME NEW r, NEW w, NEW g, NEW n, NEW bt, NEW late, Gate(r, w, g, n, bt, late),
           NEW log, IsSeq(log), NEW epoch, NEW b, b = bt + 1
    PROVE  Gate(r, Rewritten(r, w, log, epoch, b), g, Len(log), b, late)
<1>0. PICK v : v = Rewritten(r, w, log, epoch, b)
  OBVIOUS
<1>1. bt \in Nat /\ b \in Nat /\ b # 0 /\ bt <= b /\ bt < b
  BY DEF Gate, Types
<1>2. PICK t : t = Resync(b) \o Events(log, 1, b) \o Complete(log, epoch)
  OBVIOUS
<1>3. Replay(t, b) /\ Frames(t, b) /\ Chain(n, t) /\ End(n, t) = Len(log)
  BY <1>1, <1>2, ResyncReplay
<1>4. Blocks(b, t) /\ Answered(t)
  BY <1>1, <1>3, ReplayFacts
<1>5. \A j \in 1..Len(t) : t[j].b # 0 => bt < t[j].b
  BY <1>1, <1>3 DEF Replay
<1>6. w \o Resync(b) \o Events(log, 1, b) \o Complete(log, epoch) = w \o t
  <2>1. IsSeq(w) /\ IsSeq(Resync(b)) /\ IsSeq(Events(log, 1, b)) /\ IsSeq(Complete(log, epoch))
    <3>1. 1 <= Len(log) + 1 /\ b <= b
      BY <1>1, SeqFacts
    <3> QED BY <1>1, <3>1, ResyncFacts, EventsFacts, CompleteFacts DEF Gate, Queues, Frames
  <2>2. PICK x, y, z : x = Resync(b) /\ y = Events(log, 1, b) /\ z = Complete(log, epoch)
    OBVIOUS
  <2>3. FourParts(w, x, y, z)
    BY <2>1, <2>2 DEF FourParts
  <2>4. w \o x \o y \o z = w \o (x \o y \o z)
    BY <2>3, ConcatFour
  <2> QED BY <1>2, <2>2, <2>4
<1>7. v = IF r.up THEN w \o t ELSE w
  BY <1>0, <1>6 DEF Rewritten
<1>8. Gate(r, v, g, Len(log), b, late)
  BY <1>1, <1>3, <1>4, <1>5, <1>7, BroadcastKeeps
<1> QED BY <1>0, <1>8

-----------------------------------------------------------------------------
(* Steps of the game thread.                                                *)

\* A replay is applied: the marker is taken.
LEMMA MarkedKeeps ==
    ASSUME NEW r, NEW w, NEW g, NEW n, NEW bt, NEW late, Gate(r, w, g, n, bt, late),
           TryMarkReplayApplied(r), r.at # "none", g.at \in {"idle", "first", "apply"},
           NEW r2, ReceiverRec(r2), r2.inbox = r.inbox, r2.received = r.received,
           r2.at = r.at, r2.gen = r.gen, r2.conn = r.conn, r2.applied = r.applied,
           r2.requested = r.requested, r2.sync = r.sync, r2.marker = None,
           r2.read = r.read, r2.batch = r.batch, r2.up = r.up,
           NEW g2, g2.at \in Open, g2.mark = r.batch, g2.last = g.last,
           g2.replayGen = g.replayGen, g2.synchronized = g.synchronized
    PROVE  Gate(r2, w, g2, n, bt, late)
<1>0. Types(r, g, bt, late) /\ Queues(r, w, bt) /\ Places(r, g) /\ Session(r) /\ Opening(r, w, g)
  BY DEF Gate
<1>1. r.marker # None /\ r.marker.left = 0
  BY DEF TryMarkReplayApplied
<1>2. r.at = "reading" /\ r.conn = r.gen
  <2>1. r.at = "reading"
    BY <1>0, <1>1 DEF Places
  <2> QED BY <1>0, <1>1, <2>1 DEF Session, Starting
<1>3. Connected(r)
  BY <1>2 DEF Connected
<1>4. Marking(r, w) /\ Passed(r, w, g, late) /\ Stream(r, w, g, n) /\ Due(r, w, g)
  BY <1>3 DEF Gate
<1>5. r.batch \in Nat /\ r.batch >= 1 /\ 1 <= r.batch /\ r.batch <= r.batch
  <2>1. r.batch \in Nat /\ r.batch >= 1
    BY <1>0, <1>2 DEF Queues, Types
  <2> QED BY <2>1
<1>6. Len(r.inbox) \in Nat /\ \A i \in 1..Len(r.inbox) : i > 0 /\ ~(i <= 0)
  BY <1>0, SeqFacts DEF Queues, Frames
<1>7. Lacks(w, r.batch) /\ Lacks(r.inbox, r.batch)
  BY <1>1, <1>4, <1>6 DEF Marking, Lacks
<1>8. Types(r2, g2, bt, late)
  BY <1>0, <1>5 DEF Types, MarkerRec
<1>9. Queues(r2, w, bt)
  BY <1>0 DEF Queues
<1>10. Places(r2, g2)
  BY <1>0, <1>2 DEF Places, Open, Busy
<1>11. Session(r2)
  BY <1>0, <1>2 DEF Session, Starting
<1>12. Opening(r2, w, g2)
  BY <1>5, <1>7 DEF Opening
<1>13. Marking(r2, w) /\ Passed(r2, w, g2, late)
  BY <1>7 DEF Marking, Passed
<1>14. Stream(r2, w, g2, n)
  <2>1. Cursor(r2, g2) = Cursor(r, g)
    BY DEF Cursor, Open
  <2>2. g2.at \notin {"first", "apply", "recover"} /\ g.at # "recover"
    BY DEF Open
  <2> QED BY <1>4, <2>1, <2>2 DEF Stream
<1>15. Due(r2, w, g2)
  BY <1>1, <1>4, <1>6 DEF Due
<1> QED BY <1>8, <1>9, <1>10, <1>11, <1>12, <1>13, <1>14, <1>15 DEF Gate

\* Nothing to publish: the drain goes on, or the tick does.
LEMMA UnmarkedKeeps ==
    ASSUME NEW r, NEW w, NEW g, NEW n, NEW bt, NEW late, Gate(r, w, g, n, bt, late),
           r.at # "none", g.at \in {"idle", "first", "apply"},
           NEW g2, g2.at \in {"first", "drain"}, g2.at = "first" => r.inbox # <<>>,
           g2.mark = g.mark, g2.last = r.applied,
           g2.replayGen = g.replayGen, g2.synchronized = g.synchronized
    PROVE  Gate(r, w, g2, n, bt, late)
<1>0. Types(r, g, bt, late) /\ Queues(r, w, bt) /\ Places(r, g) /\ Session(r) /\ Opening(r, w, g)
  BY DEF Gate
<1>1. Types(r, g2, bt, late)
  BY <1>0 DEF Types
<1>2. r.at \in {"begin", "hello"} => g2.at # "first"
  BY <1>0 DEF Session, Starting
<1>3. Places(r, g2)
  BY <1>0, <1>2 DEF Places, Open, Busy
<1>4. Opening(r, w, g2)
  BY DEF Opening, Open
<1>5. ASSUME Connected(r) PROVE Passed(r, w, g2, late) /\ Stream(r, w, g2, n) /\ Due(r, w, g2)
  <2>1. Passed(r, w, g, late) /\ Stream(r, w, g, n) /\ Due(r, w, g)
    BY <1>5 DEF Gate
  <2>2. Cursor(r, g2) = Cursor(r, g)
    BY DEF Cursor
  <2>3. Stream(r, w, g2, n)
    BY <2>1, <2>2 DEF Stream
  <2>4. g.at \notin Open
    BY DEF Open
  <2>5. Due(r, w, g2)
    BY <2>1, <2>4 DEF Due
  <2> QED BY <2>1, <2>3, <2>5 DEF Passed
<1> QED BY <1>0, <1>1, <1>3, <1>4, <1>5 DEF Gate

\* The gate opens, late if the replay it was marked with is not the last one.
Publishes(r, g, g2, late2) ==
    /\ g.at \in Open /\ g2.at \in {"first", "drain"} /\ (g2.at = "first" => r.inbox # <<>>)
    /\ g2.mark = g.mark /\ g2.last = r.applied /\ g2.replayGen = g.replayGen
    /\ g2.synchronized = TRUE /\ late2 \in BOOLEAN /\ (~late2 => g.mark = r.batch)

LEMMA PublishKeeps ==
    ASSUME NEW r, NEW w, NEW g, NEW n, NEW bt, NEW late, Gate(r, w, g, n, bt, late),
           NEW g2, NEW late2, Publishes(r, g, g2, late2)
    PROVE  Gate(r, w, g2, n, bt, late2)
<1>a. /\ g.at \in Open /\ g2.at \in {"first", "drain"} /\ (g2.at = "first" => r.inbox # <<>>)
      /\ g2.mark = g.mark /\ g2.last = r.applied /\ g2.replayGen = g.replayGen
      /\ g2.synchronized = TRUE /\ late2 \in BOOLEAN /\ (~late2 => g.mark = r.batch)
  BY DEF Publishes
<1>0. Types(r, g, bt, late) /\ Queues(r, w, bt) /\ Places(r, g) /\ Session(r) /\ Opening(r, w, g)
  BY DEF Gate
<1>1. Types(r, g2, bt, late2)
  BY <1>0, <1>a DEF Types
<1>2. r.at \in {"begin", "hello"} => g2.at # "first"
  BY <1>0, <1>a DEF Session, Starting
<1>3. Places(r, g2)
  BY <1>0, <1>a, <1>2 DEF Places, Open, Busy
<1>4. Opening(r, w, g2)
  BY <1>a DEF Opening, Open
<1>5. ASSUME Connected(r) PROVE Passed(r, w, g2, late2) /\ Stream(r, w, g2, n) /\ Due(r, w, g2)
  <2>1. Stream(r, w, g, n) /\ Due(r, w, g)
    BY <1>5 DEF Gate
  <2>2. Cursor(r, g2) = Cursor(r, g)
    BY <1>a DEF Cursor, Open
  <2>3. Stream(r, w, g2, n)
    BY <1>a, <2>1, <2>2 DEF Stream, Open
  <2>4. Due(r, w, g2)
    BY <1>a, <2>1 DEF Due
  <2>5. Passed(r, w, g2, late2)
    BY <1>a, <1>0 DEF Passed, Opening
  <2> QED BY <2>3, <2>4, <2>5
<1> QED BY <1>0, <1>1, <1>3, <1>4, <1>5 DEF Gate

\* TryPop keeps the marker behind the same frames.
LEMMA PopFields ==
    ASSUME NEW r, ReceiverRec(r), MarkerRec(r.marker), NEW r2, r2 = TryPop(r)
    PROVE  /\ ReceiverRec(r2) /\ r2.inbox = Tail(r.inbox) /\ r2.received = r.received
           /\ r2.at = r.at /\ r2.gen = r.gen /\ r2.conn = r.conn /\ r2.applied = r.applied
           /\ r2.requested = r.requested /\ r2.sync = r.sync /\ r2.read = r.read
           /\ r2.batch = r.batch /\ r2.up = r.up /\ r2.active = r.active
           /\ MarkerRec(r2.marker) /\ (r2.marker = None <=> r.marker = None)
           /\ r.marker # None =>
                 /\ r2.marker.head = r.marker.head
                 /\ r2.marker.left = IF r.marker.left = 0 THEN 0 ELSE r.marker.left - 1
<1>1. PICK x, m : /\ x = Tail(r.inbox)
                  /\ m = IF r.marker = None \/ r.marker.left = 0 THEN r.marker
                         ELSE [head |-> r.marker.head, left |-> r.marker.left - 1]
  OBVIOUS
<1>2. r2 = [r EXCEPT !.inbox = x, !.marker = m]
  BY <1>1 DEF TryPop
<1>3. /\ ReceiverRec(r2) /\ r2.inbox = x /\ r2.received = r.received
      /\ r2.at = r.at /\ r2.gen = r.gen /\ r2.conn = r.conn /\ r2.applied = r.applied
      /\ r2.requested = r.requested /\ r2.sync = r.sync /\ r2.read = r.read
      /\ r2.batch = r.batch /\ r2.up = r.up /\ r2.active = r.active /\ r2.marker = m
  BY <1>2 DEF ReceiverRec
<1>4. CASE r.marker = None \/ r.marker.left = 0
  BY <1>1, <1>3, <1>4
<1>5. CASE r.marker # None /\ r.marker.left # 0
  <2>1. PICK h, l \in Nat : h = r.marker.head /\ l = r.marker.left
    BY <1>5 DEF MarkerRec
  <2>2. PICK k \in Nat : k = l - 1
    BY <1>5, <2>1
  <2>5. m = [head |-> h, left |-> k]
    BY <1>1, <1>5, <2>1, <2>2
  <2>6. m # None
    <3>1. DOMAIN m = {"head", "left"} /\ DOMAIN None = {}
      BY <2>5 DEF None
    <3> QED BY <3>1
  <2> QED BY <1>1, <1>3, <1>5, <2>1, <2>2, <2>5, <2>6 DEF MarkerRec
<1> QED BY <1>4, <1>5

\* A connected session's inbox continues what was applied.
LEMMA HeadIsNext ==
    ASSUME NEW r, NEW w, NEW g, NEW n, NEW bt, NEW late, Gate(r, w, g, n, bt, late),
           Connected(r), g.at \in {"first", "apply"}, r.inbox # <<>>, NEW f, f = Head(r.inbox)
    PROVE  f.t = "resync" \/ (f.t = "event" /\ f.seq = g.last + 1)
<1>1. Frames(r.inbox, bt) /\ Stream(r, w, g, n)
  BY DEF Gate, Queues
<1>2. Chain(r.applied, r.inbox) /\ g.last = r.applied /\ IsSeq(r.inbox)
  BY <1>1 DEF Stream, Cursor, Frames
<1>3. Follows(r.applied, f) /\ Frame(f)
  BY <1>1, <1>2, ChainTail, QueueTail
<1>4. f.t # "complete"
  <2>1. Len(r.inbox) > 0 /\ Len(r.inbox) \in Nat /\ f = r.inbox[1]
    BY <1>2, TailSeq, SeqFacts
  <2>2. 1 \in 1..Len(r.inbox)
    BY <2>1
  <2> QED BY <2>1, <2>2 DEF Gate, Queues
<1> QED BY <1>2, <1>3, <1>4 DEF Follows, Frame

\* A frame is taken from the inbox and applied, skipped or lost.
Pops(r, g, late, r2, g2, late2) ==
    /\ g.at \in {"first", "apply"} /\ r.inbox # <<>>
    /\ ReceiverRec(r2) /\ r2.inbox = TryPop(r).inbox /\ r2.marker = TryPop(r).marker
    /\ r2.received = r.received /\ r2.applied \in Nat
    /\ r2.at = r.at /\ r2.gen = r.gen /\ r2.conn = r.conn
    /\ r2.requested = r.requested /\ r2.sync = r.sync
    /\ r2.read = r.read /\ r2.batch = r.batch /\ r2.up = r.up
    /\ g2.at \in {"apply", "applied", "recover"} /\ g2.last \in Nat /\ g2.mark = g.mark
    /\ g2.replayGen = g.replayGen /\ g2.synchronized \in BOOLEAN
    /\ (g2.synchronized => g.synchronized)
    /\ (g.synchronized /\ ~g2.synchronized => Head(r.inbox).t = "resync")
    /\ late2 \in BOOLEAN /\ (g2.synchronized /\ ~late2 => ~late)
    /\ (Connected(r) /\ g2.at # "recover" => Cursor(r2, g2) = Cur(Head(r.inbox)))
    /\ (Connected(r) /\ g2.at = "apply" => g2.last = r2.applied)

LEMMA PopKeeps ==
    ASSUME NEW r, NEW w, NEW g, NEW n, NEW bt, NEW late, Gate(r, w, g, n, bt, late),
           NEW r2, NEW g2, NEW late2, Pops(r, g, late, r2, g2, late2)
    PROVE  Gate(r2, w, g2, n, bt, late2)
<1>a. PICK f, p : f = Head(r.inbox) /\ p = TryPop(r)
  OBVIOUS
<1> f = Head(r.inbox) /\ p = TryPop(r)
  BY <1>a
<1> /\ g.at \in {"first", "apply"} /\ r.inbox # <<>>
    /\ ReceiverRec(r2) /\ r2.inbox = p.inbox /\ r2.marker = p.marker
    /\ r2.received = r.received /\ r2.applied \in Nat
    /\ r2.at = r.at /\ r2.gen = r.gen /\ r2.conn = r.conn
    /\ r2.requested = r.requested /\ r2.sync = r.sync
    /\ r2.read = r.read /\ r2.batch = r.batch /\ r2.up = r.up
    /\ g2.at \in {"apply", "applied", "recover"} /\ g2.last \in Nat /\ g2.mark = g.mark
    /\ g2.replayGen = g.replayGen /\ g2.synchronized \in BOOLEAN
    /\ (g2.synchronized => g.synchronized)
    /\ (g.synchronized /\ ~g2.synchronized => f.t = "resync")
    /\ late2 \in BOOLEAN /\ (g2.synchronized /\ ~late2 => ~late)
    /\ (Connected(r) /\ g2.at # "recover" => Cursor(r2, g2) = Cur(f))
    /\ (Connected(r) /\ g2.at = "apply" => g2.last = r2.applied)
  BY <1>a DEF Pops
<1>0. Types(r, g, bt, late) /\ Queues(r, w, bt) /\ Places(r, g) /\ Session(r) /\ Opening(r, w, g)
  BY DEF Gate
<1>1. PICK x, m : x = Tail(r.inbox) /\ m = p.marker
  OBVIOUS
<1>2. /\ r2.inbox = x /\ r2.marker = m /\ MarkerRec(m) /\ (m = None <=> r.marker = None)
      /\ r.marker # None =>
            /\ m.head = r.marker.head
            /\ m.left = IF r.marker.left = 0 THEN 0 ELSE r.marker.left - 1
  BY <1>0, <1>1, PopFields DEF Types
<1>3. /\ Len(x) = Len(r.inbox) - 1 /\ Len(r.inbox) > 0 /\ Len(r.inbox) \in Nat
      /\ \A i \in 1..(Len(r.inbox) - 1) : x[i] = r.inbox[i + 1]
      /\ f = r.inbox[1]
  BY <1>0, <1>1, TailSeq, SeqFacts DEF Queues, Frames
<1>4. 1 \in 1..Len(r.inbox)
      /\ \A i \in 1..Len(x) : i + 1 \in 1..Len(r.inbox) /\ x[i] = r.inbox[i + 1]
  BY <1>3
<1>5. Frames(x, bt) /\ \A b : Lacks(r.inbox, b) => Lacks(x, b)
  BY <1>0, <1>1, QueueTail DEF Queues
<1>6. ~Starting(r)
  BY <1>0 DEF Session
<1>7. Types(r2, g2, bt, late2)
  BY <1>0, <1>2 DEF Types
<1>8. Queues(r2, w, bt)
  BY <1>0, <1>2, <1>4, <1>5 DEF Queues
<1>9. Places(r2, g2)
  BY <1>0, <1>2 DEF Places, Open, Busy
<1>10. Session(r2)
  BY <1>0, <1>6 DEF Session, Starting
<1>11. Opening(r2, w, g2)
  BY DEF Opening, Open
<1>12. ASSUME Connected(r2)
       PROVE  /\ Marking(r2, w) /\ Passed(r2, w, g2, late2) /\ Stream(r2, w, g2, n)
              /\ Due(r2, w, g2)
  <2>1. Connected(r)
    BY <1>12 DEF Connected
  <2>2. Marking(r, w) /\ Passed(r, w, g, late) /\ Stream(r, w, g, n) /\ Due(r, w, g)
    BY <2>1 DEF Gate
  <2>3. ASSUME r.marker # None
        PROVE  /\ m # None /\ m.left \in Nat /\ r.marker.left \in Nat
               /\ m.left <= Len(x) /\ m.head <= r.received /\ Lacks(w, r.batch)
               /\ \A i \in 1..Len(x) : i > m.left => i + 1 > r.marker.left
               /\ \A i \in 1..Len(x) : i + 1 <= r.marker.left => i <= m.left
    <3>1. PICK l, k \in Nat : l = r.marker.left /\ k = m.left
      BY <1>0, <1>2, <2>3 DEF Types, MarkerRec
    <3>2. k = IF l = 0 THEN 0 ELSE l - 1
      BY <1>2, <2>3, <3>1
    <3>3. l <= Len(r.inbox) /\ m.head <= r.received /\ Lacks(w, r.batch)
      BY <1>2, <2>2, <2>3, <3>1 DEF Marking
    <3>4. k <= Len(x)
      BY <1>3, <3>2, <3>3
    <3>5. \A i \in 1..Len(x) : (i > k => i + 1 > l) /\ (i + 1 <= l => i <= k)
      BY <1>3, <3>2
    <3> QED BY <1>2, <2>3, <3>1, <3>3, <3>4, <3>5
  <2>4. Marking(r2, w)
    BY <1>2, <1>4, <2>2, <2>3 DEF Marking
  <2>5. Passed(r2, w, g2, late2)
    BY <1>2, <1>5, <2>2 DEF Passed
  <2>6. Stream(r2, w, g2, n)
    <3>1. Chain(r.applied, r.inbox) /\ End(r.applied, r.inbox) = r.received /\ IsSeq(r.inbox)
      BY <1>0, <2>2 DEF Stream, Cursor, Queues, Frames
    <3>2. Chain(Cur(f), x) /\ End(Cur(f), x) = r.received
      BY <1>1, <3>1, ChainTail
    <3>3. g2.at # "recover" =>
              Chain(Cursor(r2, g2), r2.inbox) /\ End(Cursor(r2, g2), r2.inbox) = r2.received
      BY <1>2, <2>1, <3>2
    <3>4. g2.at \in {"first", "apply"} => g2.last = r2.applied
      BY <2>1
    <3> QED BY <2>2, <3>3, <3>4 DEF Stream
  <2>7. Due(r2, w, g2)
    <3> SUFFICES ASSUME r.up
                 PROVE  /\ g2.synchronized \/ m # None \/ Completed(w)
                        /\ Answered(w)
                        /\ \A i \in 1..Len(x) :
                              x[i].t = "resync" => (m # None /\ i <= m.left) \/ Completed(w)
      BY <1>2 DEF Due
    <3>1. /\ g.synchronized \/ r.marker # None \/ Completed(w)
          /\ Answered(w)
          /\ \A i \in 1..Len(r.inbox) :
                r.inbox[i].t = "resync" =>
                    (r.marker # None /\ i <= r.marker.left) \/ Completed(w)
      BY <2>2 DEF Due, Open
    <3>2. g2.synchronized \/ m # None \/ Completed(w)
      BY <1>2, <1>3, <1>4, <3>1
    <3>3. ASSUME NEW i \in 1..Len(x), x[i].t = "resync"
          PROVE  (m # None /\ i <= m.left) \/ Completed(w)
      <4>1. (r.marker # None /\ i + 1 <= r.marker.left) \/ Completed(w)
        BY <1>4, <3>1, <3>3
      <4> QED BY <2>3, <4>1
    <3> QED BY <3>1, <3>2, <3>3
  <2> QED BY <2>4, <2>5, <2>6, <2>7
<1> QED BY <1>7, <1>8, <1>9, <1>10, <1>11, <1>12 DEF Gate

\* The frame in hand is marked as applied.
LEMMA AppliedKeeps ==
    ASSUME NEW r, NEW w, NEW g, NEW n, NEW bt, NEW late, Gate(r, w, g, n, bt, late),
           g.at = "applied", g.last >= r.applied, g.last <= r.received,
           NEW r2, ReceiverRec(r2), r2.inbox = r.inbox, r2.marker = r.marker,
           r2.received = r.received, r2.applied = g.last,
           r2.at = r.at, r2.gen = r.gen, r2.conn = r.conn,
           r2.requested = r.requested, r2.sync = r.sync,
           r2.read = r.read, r2.batch = r.batch, r2.up = r.up,
           NEW g2, g2.at = "apply", g2.last = g.last, g2.mark = g.mark,
           g2.replayGen = g.replayGen, g2.synchronized = g.synchronized
    PROVE  Gate(r2, w, g2, n, bt, late)
<1>0. Types(r, g, bt, late) /\ Queues(r, w, bt) /\ Places(r, g) /\ Session(r) /\ Opening(r, w, g)
  BY DEF Gate
<1>1. Types(r2, g2, bt, late)
  BY <1>0 DEF Types
<1>2. Queues(r2, w, bt)
  BY <1>0 DEF Queues
<1>3. Places(r2, g2)
  BY <1>0 DEF Places, Open, Busy
<1>4. r.received = r.applied => g.last = r.received
  BY <1>0 DEF Types
<1>5. Session(r2)
  BY <1>0, <1>4 DEF Session, Starting
<1>6. Opening(r2, w, g2)
  BY DEF Opening, Open
<1>7. ASSUME Connected(r2)
      PROVE  Marking(r2, w) /\ Passed(r2, w, g2, late) /\ Stream(r2, w, g2, n) /\ Due(r2, w, g2)
  <2>1. Marking(r, w) /\ Passed(r, w, g, late) /\ Stream(r, w, g, n) /\ Due(r, w, g)
    BY <1>7 DEF Gate, Connected
  <2>2. Cursor(r2, g2) = Cursor(r, g)
    BY DEF Cursor
  <2>3. Stream(r2, w, g2, n)
    BY <2>1, <2>2 DEF Stream
  <2>4. Marking(r2, w) /\ Passed(r2, w, g2, late)
    BY <2>1 DEF Marking, Passed
  <2>5. Due(r2, w, g2)
    BY <2>1 DEF Due, Open
  <2> QED BY <2>3, <2>4, <2>5
<1> QED BY <1>1, <1>2, <1>3, <1>5, <1>6, <1>7 DEF Gate

\* The frame in hand is not: a replay is due.
LEMMA RecoverKeeps ==
    ASSUME NEW r, NEW w, NEW g, NEW n, NEW bt, NEW late, Gate(r, w, g, n, bt, late),
           g.at = "applied",
           NEW g2, g2.at = "recover", g2.last = g.last, g2.mark = g.mark,
           g2.replayGen = g.replayGen, g2.synchronized = g.synchronized
    PROVE  Gate(r, w, g2, n, bt, late)
<1>0. Types(r, g, bt, late) /\ Queues(r, w, bt) /\ Places(r, g) /\ Session(r) /\ Opening(r, w, g)
  BY DEF Gate
<1>1. Types(r, g2, bt, late) /\ Places(r, g2) /\ Opening(r, w, g2)
  BY <1>0 DEF Types, Places, Open, Busy, Opening
<1>2. Connected(r) => Marking(r, w) /\ Passed(r, w, g2, late) /\ Stream(r, w, g2, n) /\ Due(r, w, g2)
  BY DEF Gate, Passed, Stream, Due, Open
<1> QED BY <1>0, <1>1, <1>2 DEF Gate

\* No receiver: the user disconnects, the clients stop.
Leaves(r, r2, g, g2) ==
    /\ ReceiverRec(r2) /\ r2.inbox = r.inbox /\ r2.marker = r.marker
    /\ r2.received = r.received /\ r2.applied = r.applied
    /\ r2.at = "none" /\ r2.gen = r.gen /\ r2.conn = r.conn
    /\ r2.requested = r.requested /\ r2.sync = r.sync
    /\ r2.read = r.read /\ r2.batch = r.batch /\ r2.up = FALSE
    /\ g2.at \in {"flush", "idle"} /\ g2.last = g.last /\ g2.mark = g.mark
    /\ g2.replayGen = g.replayGen /\ g2.synchronized \in BOOLEAN

LEMMA NobodyKeeps ==
    ASSUME NEW r, NEW w, NEW g, NEW n, NEW bt, NEW late, Gate(r, w, g, n, bt, late),
           NEW r2, NEW g2, Leaves(r, r2, g, g2),
           NEW late2 \in BOOLEAN, NEW v \in {w, <<>>}, NEW n2
    PROVE  Gate(r2, v, g2, n2, bt, late2)
<1> /\ ReceiverRec(r2) /\ r2.inbox = r.inbox /\ r2.marker = r.marker
    /\ r2.received = r.received /\ r2.applied = r.applied
    /\ r2.at = "none" /\ r2.gen = r.gen /\ r2.conn = r.conn
    /\ r2.requested = r.requested /\ r2.sync = r.sync
    /\ r2.read = r.read /\ r2.batch = r.batch /\ r2.up = FALSE
    /\ g2.at \in {"flush", "idle"} /\ g2.last = g.last /\ g2.mark = g.mark
    /\ g2.replayGen = g.replayGen /\ g2.synchronized \in BOOLEAN
  BY DEF Leaves
<1>0. Types(r, g, bt, late) /\ Queues(r, w, bt) /\ Places(r, g) /\ Session(r) /\ Opening(r, w, g)
  BY DEF Gate
<1>1. Types(r2, g2, bt, late2)
  BY <1>0 DEF Types
<1>2. Queues(r2, v, bt)
  BY <1>0, NothingFacts DEF Queues
<1>3. Places(r2, g2) /\ Session(r2) /\ Opening(r2, v, g2) /\ ~Connected(r2)
  BY DEF Places, Session, Starting, Opening, Connected, Open, Busy
<1> QED BY <1>1, <1>2, <1>3, GateAway

\* A new session takes the stage's snapshot as applied.
LEMMA NewSessionKeeps ==
    ASSUME NEW r, NEW w, NEW g, NEW n, NEW bt, NEW late, Gate(r, w, g, n, bt, late),
           g.at = "idle", NEW snapshot \in Nat, NEW r2, r2 = NewSession(snapshot)
    PROVE  Gate(r2, w, g, n, bt, late)
<1>0. Types(r, g, bt, late) /\ Queues(r, w, bt)
  BY DEF Gate
<1>1. /\ ReceiverRec(r2) /\ r2.at = "begin" /\ r2.gen = 0 /\ r2.conn = 0 /\ r2.received = snapshot
      /\ r2.applied = snapshot /\ r2.requested = 0 /\ r2.sync = 0 /\ r2.inbox = <<>>
      /\ r2.marker = None /\ r2.read = 0 /\ r2.batch = 0 /\ r2.up = FALSE
  BY DEF NewSession, ReceiverRec
<1>2. Types(r2, g, bt, late)
  <2>1. bt \in Nat /\ 0 <= bt
    BY <1>0 DEF Types
  <2>2. PICK z \in Nat : z = 0 /\ z <= z /\ z <= bt
    BY <2>1
  <2>3. /\ ReceiverRec(r2) /\ MarkerRec(r2.marker) /\ r2.up \in BOOLEAN
        /\ r2.gen = z /\ r2.conn = z /\ r2.requested = z /\ r2.sync = z /\ r2.read = z
        /\ r2.batch = z /\ r2.received \in Nat /\ r2.applied \in Nat
    BY <1>1, <2>2 DEF MarkerRec
  <2> QED BY <1>0, <2>2, <2>3 DEF Types
<1>3. Queues(r2, w, bt)
  BY <1>0, <1>1, NothingFacts, NothingIsSeq DEF Queues
<1>4. Places(r2, g) /\ Session(r2) /\ Opening(r2, w, g) /\ ~Connected(r2)
  BY <1>1 DEF Places, Session, Starting, Opening, Connected, Open, Busy
<1> QED BY <1>2, <1>3, <1>4, GateAway

-----------------------------------------------------------------------------
(* The actions.                                                             *)

LEMMA GateFacts ==
    ASSUME GateInvariant
    PROVE  /\ IsSeq(server.log) /\ history.snapshot \in Nat
           /\ Gate(receiver, rwire, game, Len(server.log), history.batches, history.late)
           /\ Types(receiver, game, history.batches, history.late)
           /\ ReceiverRec(receiver) /\ MarkerRec(receiver.marker)
BY DEF GateInvariant, Gate, Types

\* Steps that leave the log, the wire and the receiver alone.
LEMMA CalmSteps ==
    ASSUME GateInvariant, UNCHANGED <<server, rwire, receiver>>,
           history'.batches = history.batches, history'.late = history.late,
           history'.snapshot = history.snapshot, game.at \in Calm, game'.at \in Calm,
           game'.synchronized = game.synchronized, game'.replayGen = game.replayGen,
           game'.last = game.last, game'.mark = game.mark
    PROVE  GateInvariant'
<1>1. PICK g2 : g2 = game'
  OBVIOUS
<1>2. Gate(receiver, rwire, g2, Len(server.log), history.batches, history.late)
  BY <1>1, GateFacts, GateSame
<1> QED BY <1>1, <1>2, GateFacts DEF GateInvariant

LEMMA EmitterGate ==
    ASSUME GateInvariant, EmitterThread \/ ServerReject
    PROVE  GateInvariant'
<1>1. UNCHANGED <<server, rwire, receiver, game, history>>
  BY DEF EmitterThread, EmitterConnect, EmitterSend, EmitterResult, EmitterClose, ServerReject
<1> QED BY <1>1 DEF GateInvariant

LEMMA EditGate ==
    ASSUME GateInvariant, EditInvariant, UserEdit \/ DrainAndEmit \/ EmitFrame
    PROVE  GateInvariant'
<1>0. GameRec(game) /\ HistoryRec(history)
  BY EditFacts
<1>1. UNCHANGED <<server, rwire, receiver>>
  BY DEF UserEdit, DrainAndEmit, EmitFrame
<1>2. CASE UserEdit
  <2>1. PICK p, q, m, y : /\ game' = [game EXCEPT !.pending = p]
                          /\ history' = [history EXCEPT !.made = m, !.owed = q, !.stray = y]
    <3>1. PICK s \in history.edited :
            /\ game' = IF game.attached THEN [game EXCEPT !.pending = @ \cup {PathOf[s]}] ELSE game
            /\ history' = [history EXCEPT !.made = Fresh,
                              !.owed[s] = IF game.attached THEN Fresh ELSE 0,
                              !.stray = IF game.attached THEN @ ELSE @ \cup {s}]
      BY <1>2 DEF UserEdit
    <3>2. PICK p : p = IF game.attached THEN game.pending \cup {PathOf[s]} ELSE game.pending
      OBVIOUS
    <3>3. game' = [game EXCEPT !.pending = p]
      BY <1>0, <3>1, <3>2 DEF GameRec
    <3>4. PICK q, m, y : /\ m = Fresh
                         /\ q = [history.owed EXCEPT ![s] = IF game.attached THEN Fresh ELSE 0]
                         /\ y = IF game.attached THEN history.stray ELSE history.stray \cup {s}
      OBVIOUS
    <3>5. history' = [history EXCEPT !.made = m, !.owed = q, !.stray = y]
      BY <3>1, <3>4
    <3> QED BY <3>3, <3>5
  <2>2. /\ game'.at = game.at /\ game'.synchronized = game.synchronized
        /\ game'.replayGen = game.replayGen /\ game'.last = game.last /\ game'.mark = game.mark
    BY <1>0, <2>1 DEF GameRec
  <2>3. /\ history'.batches = history.batches /\ history'.late = history.late
        /\ history'.snapshot = history.snapshot
    BY <1>0, <2>1 DEF HistoryRec
  <2>4. game.at \in Calm
    BY <1>2 DEF UserEdit, Calm
  <2> QED BY <1>1, <2>2, <2>3, <2>4, CalmSteps
<1>3. CASE DrainAndEmit
  <2>1. PICK a \in {"idle", "emit"} : \E t, p, l, e :
          game' = [game EXCEPT !.at = a, !.todo = t, !.pending = p, !.lastGen = l, !.emitted = e]
    <3>0. PICK new, changed :
            /\ new = (emitter.gen # game.lastGen)
            /\ changed = game.pending \cup (IF new /\ game.emitted THEN {"prim"} ELSE {})
      OBVIOUS
    <3>1. game' = IF EmitAllowed
                  THEN [game EXCEPT !.at = IF changed = {} THEN "idle" ELSE "emit",
                                    !.todo = {s \in Slots : PathOf[s] \in changed},
                                    !.pending = {}, !.lastGen = emitter.gen,
                                    !.emitted = @ /\ ~new]
                  ELSE [game EXCEPT !.at = "idle"]
      BY <1>3, <3>0 DEF DrainAndEmit
    <3>2. CASE EmitAllowed
      <4>1. PICK t, e : t = {s \in Slots : PathOf[s] \in changed} /\ e = (game.emitted /\ ~new)
        OBVIOUS
      <4>2. PICK a \in {"idle", "emit"} : a = IF changed = {} THEN "idle" ELSE "emit"
        OBVIOUS
      <4>3. PICK l, p : l = emitter.gen /\ p = {}
        OBVIOUS
      <4>4. game' = [game EXCEPT !.at = a, !.todo = t, !.pending = p, !.lastGen = l, !.emitted = e]
        BY <3>1, <3>2, <4>1, <4>2, <4>3
      <4> QED BY <4>4
    <3>3. CASE ~EmitAllowed
      <4>1. PICK t, p, l, e : t = game.todo /\ p = game.pending /\ l = game.lastGen
                              /\ e = game.emitted
        OBVIOUS
      <4>2. PICK a \in {"idle", "emit"} : a = "idle"
        OBVIOUS
      <4>3. game' = [game EXCEPT !.at = a, !.todo = t, !.pending = p, !.lastGen = l, !.emitted = e]
        BY <1>0, <3>1, <3>3, <4>1, <4>2 DEF GameRec
      <4> QED BY <4>3
    <3> QED BY <3>2, <3>3
  <2>2. /\ game'.at = a /\ game'.synchronized = game.synchronized
        /\ game'.replayGen = game.replayGen /\ game'.last = game.last /\ game'.mark = game.mark
    BY <1>0, <2>1 DEF GameRec
  <2>3. game.at \in Calm /\ game'.at \in Calm /\ UNCHANGED history
    BY <1>3, <2>2 DEF DrainAndEmit, Calm
  <2> QED BY <1>1, <2>2, <2>3, CalmSteps
<1>4. CASE EmitFrame
  <2>1. PICK s, sent : /\ game' = [game EXCEPT !.todo = @ \ {s},
                                     !.emitted = @ \/ (sent /\ s = "xform"),
                                     !.at = IF game.todo = {s} THEN "idle" ELSE "emit"]
                       /\ \E txn : history' = [history EXCEPT
                            !.submitted = IF sent THEN Append(@, txn) ELSE @,
                            !.owed[s] = 0,
                            !.stray = IF s \in Owed /\ ~sent THEN @ \cup {s} ELSE @]
    BY <1>4 DEF EmitFrame
  <2>2. /\ game'.at \in {"idle", "emit"} /\ game'.synchronized = game.synchronized
        /\ game'.replayGen = game.replayGen /\ game'.last = game.last /\ game'.mark = game.mark
    BY <1>0, <2>1 DEF GameRec
  <2>3. /\ history'.batches = history.batches /\ history'.late = history.late
        /\ history'.snapshot = history.snapshot
    BY <1>0, <2>1 DEF HistoryRec
  <2>4. game.at \in Calm /\ game'.at \in Calm
    BY <1>4, <2>2 DEF EmitFrame, Calm
  <2> QED BY <1>1, <2>2, <2>3, <2>4, CalmSteps
<1> QED BY <1>2, <1>3, <1>4

\* The invariant of the next state, from the values the variables then have.
LEMMA GateNext ==
    ASSUME NEW log, NEW snapshot, NEW r, NEW w, NEW g, NEW bt, NEW late,
           IsSeq(log), snapshot \in Nat, Gate(r, w, g, Len(log), bt, late),
           server'.log = log, history'.snapshot = snapshot, receiver' = r, rwire' = w,
           game' = g, history'.batches = bt, history'.late = late
    PROVE  GateInvariant'
BY DEF GateInvariant

\* Closes changes nothing but whether the gate was opened late.
LEMMA ClosesGate ==
    ASSUME HistoryRec(history), history.late \in BOOLEAN, NEW g, g.synchronized \in BOOLEAN,
           NEW h, h = Closes(g)
    PROVE  /\ h.late \in BOOLEAN /\ (~h.late => ~history.late \/ ~g.synchronized)
           /\ h.batches = history.batches /\ h.snapshot = history.snapshot
<1>1. PICK l \in BOOLEAN : l = (history.late /\ g.synchronized)
  OBVIOUS
<1>2. h = [history EXCEPT !.late = l]
  BY <1>1 DEF Closes
<1>3. h.late = l /\ h.batches = history.batches /\ h.snapshot = history.snapshot
  BY <1>2 DEF HistoryRec
<1> QED BY <1>1, <1>3

LEMMA BeginGate == GateInvariant /\ ReceiverBegin => GateInvariant'
<1> SUFFICES ASSUME GateInvariant, ReceiverBegin PROVE GateInvariant'
  OBVIOUS
<1>1. PICK r, w, g, n, bt, late :
        /\ r = receiver /\ w = rwire /\ g = game /\ n = Len(server.log)
        /\ bt = history.batches /\ late = history.late
  OBVIOUS
<1>2. Gate(r, w, g, n, bt, late) /\ ReceiverRec(r) /\ Types(r, g, bt, late)
  BY <1>1, GateFacts
<1>3. PICK q : q = IF r.requested # 0 THEN r.requested ELSE r.received + 1
  OBVIOUS
<1>4. PICK k : k = r.gen + 1
  OBVIOUS
<1>5. PICK r2 : r2 = [at |-> "hello", gen |-> k, conn |-> k, active |-> r.active,
                      received |-> r.received, applied |-> r.applied, requested |-> 0,
                      sync |-> q, inbox |-> r.inbox, marker |-> None, read |-> r.read,
                      batch |-> r.batch, up |-> r.up]
  OBVIOUS
<1>6. receiver' = r2
  <2>1. receiver' = [BeginConnection(r) EXCEPT !.at = "hello"]
    BY <1>1 DEF ReceiverBegin
  <2>2. BeginConnection(r) = [r EXCEPT !.marker = None, !.gen = k, !.conn = k,
                                       !.requested = 0, !.sync = q]
    BY <1>2, <1>3, <1>4 DEF BeginConnection, ResetSynchronization, ReceiverRec
  <2>3. PICK r3 : r3 = [r EXCEPT !.at = "hello", !.marker = None, !.gen = k,
                                 !.conn = k, !.requested = 0, !.sync = q]
    OBVIOUS
  <2>4. receiver' = r3
    BY <1>2, <2>1, <2>2, <2>3 DEF ReceiverRec
  <2>5. r3 = r2
    <3>1. ReceiverRec(r)
      BY <1>2
    <3>2. r3 = [at |-> "hello", gen |-> k, conn |-> k, active |-> r.active,
                received |-> r.received, applied |-> r.applied, requested |-> 0,
                sync |-> q, inbox |-> r.inbox, marker |-> None, read |-> r.read,
                batch |-> r.batch, up |-> r.up]
      BY <3>1, <2>3 DEF ReceiverRec
    <3> QED BY <1>5, <3>2
  <2> QED BY <2>4, <2>5
<1>7. r.at = "begin" /\ (r.gen = 0 \/ g.at \notin Busy)
  BY <1>1 DEF ReceiverBegin, DelayOver, Busy
<1>8. Gate(r2, w, g, n, bt, late)
  BY <1>2, <1>3, <1>4, <1>5, <1>7, BeginKeeps
<1>9. UNCHANGED <<server, rwire, game, history>>
  BY DEF ReceiverBegin
<1> QED BY <1>1, <1>6, <1>8, <1>9, GateFacts DEF GateInvariant

\* Disconnect takes the marker away; a superseded connection has none.
LEMMA DisconnectGate ==
    ASSUME NEW r, NEW w, NEW g, NEW n, NEW bt, NEW late, Gate(r, w, g, n, bt, late), r.at # "none",
           NEW a
    PROVE  /\ [Disconnect(r) EXCEPT !.at = a, !.up = FALSE] =
                 [r EXCEPT !.at = a, !.marker = None, !.read = r.read, !.up = FALSE]
           /\ r.at # "reading" => [Disconnect(r) EXCEPT !.at = a] =
                 [r EXCEPT !.at = a, !.marker = None, !.read = r.read, !.up = FALSE]
<1>1. ReceiverRec(r) /\ r.up \in BOOLEAN /\ (r.conn # r.gen => r.marker = None)
      /\ (r.up => r.at = "reading")
  BY DEF Gate, Types, Session, Starting, Places
<1>2. Disconnect(r) = [r EXCEPT !.marker = None]
  BY <1>1 DEF Disconnect, ResetSynchronization, ReceiverRec
<1>3. [Disconnect(r) EXCEPT !.at = a, !.up = FALSE] =
                 [r EXCEPT !.at = a, !.marker = None, !.read = r.read, !.up = FALSE]
  BY <1>1, <1>2 DEF ReceiverRec
<1>4. ASSUME r.at # "reading"
      PROVE  [Disconnect(r) EXCEPT !.at = a] =
                 [r EXCEPT !.at = a, !.marker = None, !.read = r.read, !.up = FALSE]
  <2>1. r.up = FALSE
    BY <1>1, <1>4
  <2> QED BY <1>1, <1>2, <2>1 DEF ReceiverRec
<1> QED BY <1>3, <1>4

\* The receiver thread leaves a connection.
LEMMA LeavingGate ==
    ASSUME GateInvariant, receiver.at \in {"reading", "hello", "lost"},
           NEW a \in {"lost", "request", "begin"},
           a = "begin" => receiver.at = "hello" \/ receiver.conn # receiver.gen,
           NEW d \in Nat,
           receiver' = [receiver EXCEPT !.at = a, !.marker = None, !.read = d, !.up = FALSE],
           rwire' \in {rwire, <<>>}, server'.log = server.log,
           history'.snapshot = history.snapshot, history'.batches = history.batches,
           history'.late \in BOOLEAN,
           game'.at = game.at, game'.last = game.last, game'.mark = game.mark,
           game'.replayGen \in Nat, game'.synchronized \in BOOLEAN
    PROVE  GateInvariant'
<1>1. PICK r, w, g, n, bt, late :
        /\ r = receiver /\ w = rwire /\ g = game /\ n = Len(server.log)
        /\ bt = history.batches /\ late = history.late
  OBVIOUS
<1>2. PICK r2, g2 : r2 = receiver' /\ g2 = game'
  OBVIOUS
<1>2a. PICK late2 \in BOOLEAN : late2 = history'.late
  OBVIOUS
<1>2b. PICK v \in {w, <<>>} : v = rwire'
  BY <1>1
<1>3. Gate(r, w, g, n, bt, late)
  BY <1>1, GateFacts
<1>4. /\ r.at \in {"reading", "hello", "lost"} /\ (a = "begin" => r.at = "hello" \/ r.conn # r.gen)
      /\ r2 = [r EXCEPT !.at = a, !.marker = None, !.read = d, !.up = FALSE]
      /\ g2.at = g.at /\ g2.last = g.last /\ g2.mark = g.mark
      /\ g2.replayGen \in Nat /\ g2.synchronized \in BOOLEAN
  BY <1>1, <1>2
<1>5. r2 = [at |-> a, gen |-> r.gen, conn |-> r.conn, active |-> r.active,
            received |-> r.received, applied |-> r.applied, requested |-> r.requested,
            sync |-> r.sync, inbox |-> r.inbox, marker |-> None, read |-> d,
            batch |-> r.batch, up |-> FALSE]
  BY <1>1, <1>4, GateFacts DEF ReceiverRec
<1>6. /\ r.at \in {"reading", "hello", "lost"} /\ (a = "begin" => r.at = "hello" \/ r.conn # r.gen)
      /\ g2.at = g.at /\ g2.last = g.last /\ g2.mark = g.mark
      /\ g2.replayGen \in Nat /\ g2.synchronized \in BOOLEAN
  BY <1>4
<1>7. Gate(r2, v, g2, n, bt, late2)
  BY <1>3, <1>5, <1>6, LeavingKeeps
<1> QED BY <1>1, <1>2, <1>2a, <1>2b, <1>7, GateFacts DEF GateInvariant

LEMMA RefusalGate ==
    ASSUME GateInvariant, receiver.at = "reading", receiver' = Leave(receiver),
           rwire' \in {rwire, <<>>}, server'.log = server.log,
           history'.snapshot = history.snapshot, history'.batches = history.batches,
           history'.late \in BOOLEAN,
           game'.at = game.at, game'.last = game.last, game'.mark = game.mark,
           game'.replayGen \in Nat, game'.synchronized \in BOOLEAN
    PROVE  GateInvariant'
<1>1. PICK r, w, g, n, bt, late :
        /\ r = receiver /\ w = rwire /\ g = game /\ n = Len(server.log)
        /\ bt = history.batches /\ late = history.late
  OBVIOUS
<1>2. Gate(r, w, g, n, bt, late) /\ Types(r, g, bt, late) /\ r.at # "none"
  BY <1>1, GateFacts
<1>3. PICK d \in Nat : d = r.read
  BY <1>2 DEF Types
<1>4. PICK a \in {"lost", "request", "begin"} : a = "lost"
  OBVIOUS
<1>5. Leave(r) = [r EXCEPT !.at = a, !.marker = None, !.read = d, !.up = FALSE]
  BY <1>2, <1>3, <1>4, DisconnectGate DEF Leave
<1> QED BY <1>1, <1>4, <1>5, LeavingGate

LEMMA HelloFailsGate == GateInvariant /\ ReceiverHelloFails => GateInvariant'
<1> SUFFICES ASSUME GateInvariant, ReceiverHelloFails PROVE GateInvariant'
  OBVIOUS
<1>1. PICK r, w, g, n, bt, late :
        /\ r = receiver /\ w = rwire /\ g = game /\ n = Len(server.log)
        /\ bt = history.batches /\ late = history.late
  OBVIOUS
<1>2. Gate(r, w, g, n, bt, late) /\ Types(r, g, bt, late)
  BY <1>1, GateFacts
<1>3. PICK d \in Nat : d = r.read
  BY <1>2 DEF Types
<1>4. PICK a \in {"lost", "request", "begin"} : a = "begin"
  OBVIOUS
<1>5. /\ receiver.at = "hello" /\ receiver' = [Disconnect(receiver) EXCEPT !.at = "begin"]
      /\ UNCHANGED <<server, rwire, game, history>>
  BY DEF ReceiverHelloFails
<1>6. receiver' = [receiver EXCEPT !.at = a, !.marker = None, !.read = d, !.up = FALSE]
  BY <1>1, <1>2, <1>3, <1>4, <1>5, DisconnectGate
<1>7. history.late \in BOOLEAN /\ game.replayGen \in Nat /\ game.synchronized \in BOOLEAN
  BY <1>1, <1>2 DEF Types
<1> QED BY <1>5, <1>6, <1>7, LeavingGate

LEMMA NothingGate == GateInvariant /\ ReceiveNothing => GateInvariant'
<1> SUFFICES ASSUME GateInvariant, ReceiveNothing PROVE GateInvariant'
  OBVIOUS
<1>1. /\ receiver.at = "reading" /\ receiver' = Leave(receiver)
      /\ UNCHANGED <<server, rwire, game, history>>
  BY DEF ReceiveNothing
<1>2. history.late \in BOOLEAN /\ game.replayGen \in Nat /\ game.synchronized \in BOOLEAN
  BY GateFacts DEF Types
<1> QED BY <1>1, <1>2, RefusalGate

LEMMA ReadGate == GateInvariant /\ ReadApplied => GateInvariant'
<1> SUFFICES ASSUME GateInvariant, ReadApplied PROVE GateInvariant'
  OBVIOUS
<1>1. /\ receiver.at = "lost"
      /\ receiver' = [receiver EXCEPT !.at = "request", !.read = receiver.applied]
      /\ UNCHANGED <<server, rwire, game, history>>
  BY DEF ReadApplied
<1>2. /\ history.late \in BOOLEAN /\ game.replayGen \in Nat /\ game.synchronized \in BOOLEAN
      /\ receiver.applied \in Nat /\ ReceiverRec(receiver)
  BY GateFacts DEF Types
<1>3. PICK d \in Nat : d = receiver.applied
  BY <1>2
<1>4. PICK a \in {"lost", "request", "begin"} : a = "request"
  OBVIOUS
<1>5. receiver.up = FALSE /\ receiver.marker = None
  BY <1>1, GateFacts DEF Gate, Types, Places
<1>6. receiver' = [receiver EXCEPT !.at = a, !.marker = None, !.read = d, !.up = FALSE]
  BY <1>1, <1>2, <1>3, <1>4, <1>5 DEF ReceiverRec
<1> QED BY <1>1, <1>2, <1>4, <1>6, LeavingGate

LEMMA LossGate == GateInvariant /\ ReceiverLoss => GateInvariant'
<1> SUFFICES ASSUME GateInvariant, ReceiverLoss PROVE GateInvariant'
  OBVIOUS
<1>1. PICK r, w, g, n, bt, late :
        /\ r = receiver /\ w = rwire /\ g = game /\ n = Len(server.log)
        /\ bt = history.batches /\ late = history.late
  OBVIOUS
<1>2. /\ receiver' = [receiver EXCEPT !.up = FALSE]
      /\ \E k \in 0..Len(rwire) : rwire' = SubSeq(rwire, 1, k)
      /\ UNCHANGED <<server, game, history>>
  BY DEF ReceiverLoss
<1>3. PICK k \in 0..Len(w) : rwire' = SubSeq(w, 1, k)
  BY <1>1, <1>2
<1>4. PICK r2 : r2 = [r EXCEPT !.up = FALSE]
  OBVIOUS
<1>5. Gate(r2, SubSeq(w, 1, k), g, n, bt, late)
  BY <1>1, <1>4, GateFacts, LossKeeps
<1> QED BY <1>1, <1>2, <1>3, <1>4, <1>5, GateFacts DEF GateInvariant

\* A replay is asked for from the applied cursor.
LEMMA RequestFields ==
    ASSUME NEW r, ReceiverRec(r), NEW q \in Nat, NEW p, p = q + 1, NEW k, k = r.gen + 1
    PROVE  RequestReplayFrom(r, p) =
               [at |-> r.at, gen |-> k, conn |-> r.conn, active |-> r.active,
                received |-> q, applied |-> q, requested |-> p,
                sync |-> r.sync, inbox |-> <<>>, marker |-> None, read |-> r.read,
                batch |-> r.batch, up |-> r.up]
<1>1. p - 1 = q
  OBVIOUS
<1>2. PICK r3 : r3 = [r EXCEPT !.marker = None, !.gen = k, !.requested = p, !.received = q,
                               !.applied = q, !.inbox = <<>>]
  OBVIOUS
<1>3. RequestReplayFrom(r, p) = r3
  BY <1>1, <1>2 DEF RequestReplayFrom, ResetSynchronization, ReceiverRec
<1>4. r3 = [at |-> r.at, gen |-> k, conn |-> r.conn, active |-> r.active,
            received |-> q, applied |-> q, requested |-> p,
            sync |-> r.sync, inbox |-> <<>>, marker |-> None, read |-> r.read,
            batch |-> r.batch, up |-> r.up]
  BY <1>2 DEF ReceiverRec
<1> QED BY <1>3, <1>4

LEMMA RequestGate ==
    ASSUME GateInvariant, Asks(receiver, receiver'),
           rwire' = <<>> \/ (rwire' = rwire /\ receiver'.at # "reading"), server'.log = server.log,
           history'.snapshot = history.snapshot, history'.batches = history.batches,
           history'.late \in BOOLEAN,
           game'.at \in {game.at, "drain"}, game'.last = game.last, game'.mark = game.mark,
           game'.replayGen \in Nat, game'.synchronized \in BOOLEAN
    PROVE  GateInvariant'
<1>1. PICK r, w, g, n, bt, late :
        /\ r = receiver /\ w = rwire /\ g = game /\ n = Len(server.log)
        /\ bt = history.batches /\ late = history.late
  OBVIOUS
<1>2. PICK r2, v, g2 : r2 = receiver' /\ v = rwire' /\ g2 = game'
  OBVIOUS
<1>3. PICK late2 \in BOOLEAN : late2 = history'.late
  OBVIOUS
<1>4. Gate(r, w, g, n, bt, late)
  BY <1>1, GateFacts
<1>5. Asks(r, r2) /\ (v = <<>> \/ (v = w /\ r2.at # "reading"))
      /\ g2.at \in {g.at, "drain"} /\ g2.last = g.last /\ g2.mark = g.mark
      /\ g2.replayGen \in Nat /\ g2.synchronized \in BOOLEAN
  BY <1>1, <1>2
<1>6. Gate(r2, v, g2, n, bt, late2)
  BY <1>4, <1>5, RequestKeeps
<1> QED BY <1>1, <1>2, <1>3, <1>6, GateFacts DEF GateInvariant

\* What becomes of the game thread's fields and the history when a generation is announced.
LEMMA ShutGate ==
    ASSUME GateInvariant, EditInvariant, NEW m \in Nat, NEW g2, g2 = GenerationChanged(game, m),
           NEW h, h = Closes(g2)
    PROVE  /\ g2.at = game.at /\ g2.last = game.last /\ g2.mark = game.mark
           /\ g2.replayGen \in Nat /\ g2.synchronized \in BOOLEAN
           /\ g2.synchronized => game.synchronized /\ g2.replayGen # m
           /\ h.late \in BOOLEAN /\ h.batches = history.batches /\ h.snapshot = history.snapshot
<1>1. GameRec(game) /\ HistoryRec(history)
  BY EditFacts
<1>2. Types(receiver, game, history.batches, history.late) /\ history.late \in BOOLEAN
  BY GateFacts DEF Types
<1>3. /\ g2.at = game.at /\ g2.last = game.last /\ g2.mark = game.mark
      /\ g2.replayGen \in Nat /\ g2.synchronized \in BOOLEAN
      /\ g2.synchronized => game.synchronized /\ g2.replayGen # m
  BY <1>1, <1>2, Shut
<1>4. h.late \in BOOLEAN /\ h.batches = history.batches /\ h.snapshot = history.snapshot
  BY <1>1, <1>2, <1>3, ClosesGate
<1> QED BY <1>3, <1>4

LEMMA RequestReplayGate == GateInvariant /\ EditInvariant /\ RequestReplay => GateInvariant'
<1> SUFFICES ASSUME GateInvariant, EditInvariant, RequestReplay PROVE GateInvariant'
  OBVIOUS
<1>0. UNCHANGED <<server, rwire>> /\ rwire' \in {rwire, <<>>} /\ server'.log = server.log
  BY DEF RequestReplay
<1>1. Types(receiver, game, history.batches, history.late) /\ ReceiverRec(receiver)
  BY GateFacts
<1>a. Places(receiver, game)
  BY GateFacts DEF Gate
<1>2. receiver.gen \in Nat /\ receiver.read \in Nat /\ receiver.up \in BOOLEAN
  BY <1>1 DEF Types
<1>3. ASSUME receiver'.gen \in Nat
      PROVE  /\ history'.snapshot = history.snapshot /\ history'.batches = history.batches
             /\ history'.late \in BOOLEAN
             /\ game'.at = game.at /\ game'.last = game.last /\ game'.mark = game.mark
             /\ game'.replayGen \in Nat /\ game'.synchronized \in BOOLEAN
  <2>1. PICK m \in Nat : m = receiver'.gen
    BY <1>3
  <2>2. PICK g2, h : g2 = GenerationChanged(game, m) /\ h = Closes(g2)
    OBVIOUS
  <2>3. game' = g2 /\ history' = h
    BY <2>1, <2>2 DEF RequestReplay, Closes
  <2> QED BY <2>2, <2>3, ShutGate
<1>4. CASE receiver.at = "request"
  <2>1. receiver' = [RequestReplayFrom(receiver, receiver.read + 1) EXCEPT !.at = "begin"]
    BY <1>4 DEF RequestReplay
  <2>2. PICK q \in Nat : q = receiver.read
    BY <1>2
  <2>3. PICK p, k : p = q + 1 /\ k = receiver.gen + 1
    OBVIOUS
  <2>4. receiver.up = FALSE
    BY <1>2, <1>4, <1>a DEF Places
  <2>5. PICK r : r = receiver
    OBVIOUS
  <2>6. RequestReplayFrom(r, p) =
            [at |-> r.at, gen |-> k, conn |-> r.conn, active |-> r.active,
             received |-> q, applied |-> q, requested |-> p,
             sync |-> r.sync, inbox |-> <<>>, marker |-> None, read |-> r.read,
             batch |-> r.batch, up |-> r.up]
    BY <1>1, <2>3, <2>5, RequestFields
  <2>7. PICK a : a = "begin"
    OBVIOUS
  <2>8. receiver' = [RequestReplayFrom(r, p) EXCEPT !.at = a]
    BY <2>1, <2>2, <2>3, <2>5, <2>7
  <2>9. receiver' = [at |-> a, gen |-> k, conn |-> r.conn, active |-> r.active,
                     received |-> q, applied |-> q, requested |-> p,
                     sync |-> r.sync, inbox |-> <<>>, marker |-> None, read |-> r.read,
                     batch |-> r.batch, up |-> FALSE]
    <3>1. PICK r3 : r3 = RequestReplayFrom(r, p)
      OBVIOUS
    <3>2. r3 = [at |-> r.at, gen |-> k, conn |-> r.conn, active |-> r.active,
                received |-> q, applied |-> q, requested |-> p,
                sync |-> r.sync, inbox |-> <<>>, marker |-> None, read |-> r.read,
                batch |-> r.batch, up |-> FALSE]
      BY <2>4, <2>5, <2>6, <3>1
    <3>3. receiver' = [r3 EXCEPT !.at = a]
      BY <2>8, <3>1
    <3> QED BY <3>2, <3>3
  <2>10. receiver'.gen \in Nat
    <3>1. k \in Nat
      BY <1>2, <2>3
    <3> QED BY <2>9, <3>1
  <2>11. Asks(receiver, receiver')
    <3>1. PICK r3 : r3 = receiver'
      OBVIOUS
    <3>2. r3 = [at |-> a, gen |-> k, conn |-> r.conn, active |-> r.active,
                received |-> q, applied |-> q, requested |-> p,
                sync |-> r.sync, inbox |-> <<>>, marker |-> None, read |-> r.read,
                batch |-> r.batch, up |-> FALSE]
      BY <2>9, <3>1
    <3>3. ReceiverRec(r3) /\ r3.at = a /\ r3.received = q /\ r3.applied = q /\ r3.requested = p
          /\ r3.gen = k /\ r3.conn = r.conn /\ r3.sync = r.sync /\ r3.inbox = <<>>
          /\ r3.marker = None /\ r3.read = r.read /\ r3.batch = r.batch /\ r3.up = FALSE
      BY <3>2 DEF ReceiverRec
    <3>4. r.at = "request" /\ a = "begin" /\ k = r.gen + 1 /\ p = q + 1
      BY <1>4, <2>3, <2>5, <2>7
    <3>5. Asks(r, r3)
      BY <3>3, <3>4 DEF Asks
    <3> QED BY <2>5, <3>1, <3>5
  <2>12. rwire' = rwire /\ receiver'.at # "reading" /\ game'.at \in {game.at, "drain"}
    BY <1>0, <1>3, <2>7, <2>9, <2>10
  <2> QED BY <1>0, <1>3, <2>10, <2>11, <2>12, RequestGate
<1>5. CASE receiver.at # "request"
  <2>1. /\ receiver.at = "lost" /\ receiver.gen # receiver.conn
        /\ receiver' = [receiver EXCEPT !.at = "begin"]
    BY <1>5 DEF RequestReplay
  <2>2. receiver.up = FALSE /\ receiver.marker = None
    BY <1>2, <2>1, <1>a DEF Places
  <2>3. PICK d \in Nat : d = receiver.read
    BY <1>2
  <2>4. PICK a \in {"lost", "request", "begin"} : a = "begin"
    OBVIOUS
  <2>5. receiver' = [receiver EXCEPT !.at = a, !.marker = None, !.read = d, !.up = FALSE]
    BY <1>1, <2>1, <2>2, <2>3, <2>4 DEF ReceiverRec
  <2>6. receiver'.gen \in Nat
    BY <1>1, <1>2, <2>1 DEF ReceiverRec
  <2>7. receiver.at \in {"reading", "hello", "lost"}
        /\ (a = "begin" => receiver.at = "hello" \/ receiver.conn # receiver.gen)
    BY <2>1
  <2> QED BY <1>0, <1>3, <2>5, <2>6, <2>7, LeavingGate
<1> QED BY <1>4, <1>5

\* A connected receiver takes no event twice.
LEMMA NoDuplicate ==
    ASSUME NEW r, NEW w, NEW g, NEW n, NEW bt, NEW late, Gate(r, w, g, n, bt, late),
           r.at = "reading", w # <<>>, NEW f, f = Head(w), f.t = "event"
    PROVE  AcceptResult(r, f) # "duplicate" /\ (AcceptResult(r, f) = "accepted" => Connected(r))
<1>1. CASE r.conn # r.gen
  BY <1>1 DEF AcceptResult
<1>2. CASE r.conn = r.gen
  <2>1. Connected(r)
    BY <1>2 DEF Connected
  <2>2. IsSeq(w) /\ r.received \in Nat
    BY DEF Gate, Types, Queues, Frames
  <2>3. PICK c \in Nat : c = r.received
    BY <2>2
  <2>4. Chain(c, w)
    BY <2>1, <2>3 DEF Gate, Stream
  <2>5. Follows(c, f)
    BY <2>2, <2>4, ChainTail
  <2>6. f.seq = c + 1 /\ ~(c + 1 <= c) /\ ~(c + 1 > c + 1)
    BY <2>3, <2>5 DEF Follows
  <2>7. ~(f.seq <= r.received) /\ ~(f.seq > r.received + 1)
    BY <2>3, <2>6
  <2> QED BY <1>2, <2>1, <2>7 DEF AcceptResult
<1> QED BY <1>1, <1>2

LEMMA ReceiveEventGate == GateInvariant /\ ReceiveEvent => GateInvariant'
<1> SUFFICES ASSUME GateInvariant, ReceiveEvent PROVE GateInvariant'
  OBVIOUS
<1>1. PICK r, w, g, n, bt, late :
        /\ r = receiver /\ w = rwire /\ g = game /\ n = Len(server.log)
        /\ bt = history.batches /\ late = history.late
  OBVIOUS
<1>2. Gate(r, w, g, n, bt, late) /\ ReceiverRec(r)
  BY <1>1, GateFacts
<1>3. PICK f : f = Head(w)
  OBVIOUS
<1>4. /\ r.at = "reading" /\ w # <<>> /\ f.t = "event"
      /\ IF AcceptResult(r, f) \in {"accepted", "duplicate"}
         THEN /\ receiver' = IF AcceptResult(r, f) = "accepted" THEN Accept(r, f) ELSE r
              /\ rwire' = Tail(w)
         ELSE receiver' = Leave(r) /\ rwire' = <<>>
      /\ UNCHANGED <<server, game, history>>
  BY <1>1, <1>3 DEF ReceiveEvent
<1>5. AcceptResult(r, f) # "duplicate" /\ (AcceptResult(r, f) = "accepted" => Connected(r))
  BY <1>2, <1>3, <1>4, NoDuplicate
<1>6. CASE AcceptResult(r, f) = "accepted"
  <2>1. PICK r2, q, s : r2 = receiver' /\ q = Append(r.inbox, f) /\ s = f.seq
    OBVIOUS
  <2>2. Accept(r, f) = [r EXCEPT !.inbox = q, !.received = s]
    BY <1>4, <2>1 DEF Accept
  <2>3. r2 = [r EXCEPT !.inbox = q, !.received = s] /\ rwire' = Tail(w)
    BY <1>4, <1>6, <2>1, <2>2
  <2>4. /\ ReceiverRec(r2) /\ r2.inbox = q /\ r2.received = s
        /\ r2.at = r.at /\ r2.gen = r.gen /\ r2.conn = r.conn /\ r2.applied = r.applied
        /\ r2.requested = r.requested /\ r2.sync = r.sync /\ r2.marker = r.marker
        /\ r2.read = r.read /\ r2.batch = r.batch /\ r2.up = r.up
    BY <1>2, <2>3 DEF ReceiverRec
  <2>5. Gate(r2, Tail(w), g, n, bt, late)
    BY <1>2, <1>3, <1>4, <1>5, <1>6, <2>1, <2>4, EventKeeps
  <2> QED BY <1>1, <1>4, <2>1, <2>3, <2>5, GateFacts DEF GateInvariant
<1>7. CASE AcceptResult(r, f) # "accepted"
  <2>1. receiver.at = "reading" /\ receiver' = Leave(receiver) /\ rwire' \in {rwire, <<>>}
    BY <1>1, <1>4, <1>5, <1>7
  <2>2. history.late \in BOOLEAN /\ game.replayGen \in Nat /\ game.synchronized \in BOOLEAN
    BY GateFacts DEF Types
  <2> QED BY <1>4, <2>1, <2>2, RefusalGate
<1> QED BY <1>6, <1>7

LEMMA ReceiveCompleteGate == GateInvariant /\ ReceiveComplete => GateInvariant'
<1> SUFFICES ASSUME GateInvariant, ReceiveComplete PROVE GateInvariant'
  OBVIOUS
<1>1. PICK r, w, g, n, bt, late :
        /\ r = receiver /\ w = rwire /\ g = game /\ n = Len(server.log)
        /\ bt = history.batches /\ late = history.late
  OBVIOUS
<1>2. Gate(r, w, g, n, bt, late) /\ ReceiverRec(r)
  BY <1>1, GateFacts
<1>3. PICK f : f = Head(w)
  OBVIOUS
<1>4. /\ r.at = "reading" /\ w # <<>> /\ f.t = "complete"
      /\ IF r.conn = r.gen
         THEN receiver' = AcceptReplayComplete(r, f) /\ rwire' = Tail(w)
         ELSE receiver' = Leave(r) /\ rwire' = <<>>
      /\ UNCHANGED <<server, game, history>>
  BY <1>1, <1>3 DEF ReceiveComplete
<1>6. CASE r.conn = r.gen
  <2>1. PICK r2, m : r2 = receiver' /\ m = [head |-> f.head, left |-> Len(r.inbox)]
    OBVIOUS
  <2>3. r2 = [r EXCEPT !.marker = m] /\ rwire' = Tail(w)
    BY <1>4, <1>6, <2>1 DEF AcceptReplayComplete
  <2>4. /\ ReceiverRec(r2) /\ r2.inbox = r.inbox /\ r2.received = r.received
        /\ r2.at = r.at /\ r2.gen = r.gen /\ r2.conn = r.conn /\ r2.applied = r.applied
        /\ r2.requested = r.requested /\ r2.sync = r.sync /\ r2.marker = m
        /\ r2.read = r.read /\ r2.batch = r.batch /\ r2.up = r.up
    BY <1>2, <2>3 DEF ReceiverRec
  <2>5. Connected(r)
    BY <1>4, <1>6 DEF Connected
  <2>6. Gate(r2, Tail(w), g, n, bt, late)
    BY <1>2, <1>3, <1>4, <2>1, <2>4, <2>5, CompleteKeeps
  <2> QED BY <1>1, <1>4, <2>1, <2>3, <2>6, GateFacts DEF GateInvariant
<1>7. CASE r.conn # r.gen
  <2>1. receiver.at = "reading" /\ receiver' = Leave(receiver) /\ rwire' \in {rwire, <<>>}
    BY <1>1, <1>4, <1>7
  <2>2. history.late \in BOOLEAN /\ game.replayGen \in Nat /\ game.synchronized \in BOOLEAN
    BY GateFacts DEF Types
  <2> QED BY <1>4, <2>1, <2>2, RefusalGate
<1> QED BY <1>6, <1>7

LEMMA ReceiveResyncGate == GateInvariant /\ EditInvariant /\ ReceiveResync => GateInvariant'
<1> SUFFICES ASSUME GateInvariant, EditInvariant, ReceiveResync PROVE GateInvariant'
  OBVIOUS
<1>1. PICK r, w, g, n, bt, late :
        /\ r = receiver /\ w = rwire /\ g = game /\ n = Len(server.log)
        /\ bt = history.batches /\ late = history.late
  OBVIOUS
<1>2. Gate(r, w, g, n, bt, late) /\ ReceiverRec(r) /\ r.conn \in Nat
  BY <1>1, GateFacts DEF Types
<1>3. PICK f : f = Head(w)
  OBVIOUS
<1>4. /\ r.at = "reading" /\ w # <<>> /\ f.t = "resync"
      /\ IF AcceptResult(r, f) = "accepted"
         THEN receiver' = [Accept(r, f) EXCEPT !.batch = f.b] /\ rwire' = Tail(w)
         ELSE receiver' = Leave(r) /\ rwire' = <<>>
      /\ game' = GenerationChanged(g, r.conn) /\ history' = Closes(game')
      /\ UNCHANGED server
  BY <1>1, <1>3 DEF ReceiveResync
<1>5. PICK g2, h : g2 = GenerationChanged(game, r.conn) /\ h = Closes(g2)
  OBVIOUS
<1>5a. game' = g2 /\ history' = h
  BY <1>1, <1>4, <1>5 DEF Closes
<1>5b. /\ g2.at = g.at /\ g2.last = g.last /\ g2.mark = g.mark
       /\ g2.replayGen \in Nat /\ g2.synchronized \in BOOLEAN
       /\ g2.synchronized => g2.replayGen # r.conn
       /\ h.late \in BOOLEAN /\ h.batches = history.batches /\ h.snapshot = history.snapshot
  BY <1>1, <1>2, <1>5, ShutGate
<1>6. CASE AcceptResult(r, f) = "accepted"
  <2>1. PICK r2, q, b : r2 = receiver' /\ q = Append(r.inbox, f) /\ b = f.b
    OBVIOUS
  <2>2. Accept(r, f) = [r EXCEPT !.inbox = q, !.received = 0, !.marker = None]
    BY <1>2, <1>4, <2>1 DEF Accept, ResetSynchronization, ReceiverRec
  <2>3. r2 = [r EXCEPT !.inbox = q, !.received = 0, !.marker = None, !.batch = b]
        /\ rwire' = Tail(w)
    BY <1>4, <1>6, <2>1, <2>2
  <2>4. /\ ReceiverRec(r2) /\ r2.inbox = q /\ r2.received = 0
        /\ r2.at = r.at /\ r2.gen = r.gen /\ r2.conn = r.conn /\ r2.applied = r.applied
        /\ r2.requested = r.requested /\ r2.sync = r.sync /\ r2.marker = None
        /\ r2.read = r.read /\ r2.batch = f.b /\ r2.up = r.up
    BY <1>2, <2>1, <2>3 DEF ReceiverRec
  <2>5. Connected(r)
    BY <1>4, <1>6 DEF Connected, AcceptResult
  <2>6. PICK late2 \in BOOLEAN : late2 = h.late
    BY <1>5b
  <2>7. Gate(r2, Tail(w), g2, n, bt, late2)
    <3>1. Resyncs(r, f, g, r2, g2)
      BY <1>5b, <2>1, <2>4 DEF Resyncs
    <3> QED BY <1>2, <1>3, <1>4, <2>5, <3>1, ResyncKeeps
  <2> QED BY <1>1, <1>4, <1>5a, <1>5b, <2>1, <2>3, <2>6, <2>7, GateFacts DEF GateInvariant
<1>7. CASE AcceptResult(r, f) # "accepted"
  <2>1. receiver.at = "reading" /\ receiver' = Leave(receiver) /\ rwire' \in {rwire, <<>>}
        /\ server'.log = server.log
    BY <1>1, <1>4, <1>7
  <2> QED BY <1>1, <1>5a, <1>5b, <2>1, RefusalGate
<1> QED BY <1>6, <1>7

\* The server's answer to a Hello continues the cursor it was sent, or starts over.
LEMMA AnswerFacts ==
    ASSUME IsSeq(server.log), NEW sync \in Nat, sync >= 1, NEW d, NEW b \in Nat, b # 0,
           NEW t, t = Answer(sync, d, b)
    PROVE  /\ Replay(t, b) /\ Frames(t, b)
           /\ Chain(sync - 1, t) /\ End(sync - 1, t) = Len(server.log)
<1>1. PICK log, epoch : log = server.log /\ epoch = server.epoch
  OBVIOUS
<1>2. IsSeq(log) /\ Len(log) \in Nat
  BY <1>1, SeqFacts
<1>3. PICK reset : reset = (sync > Len(log) + 1 \/ (sync > 1 /\ d.known /\ d.claimed # <<epoch>>))
  OBVIOUS
<1>4. t = (IF reset THEN Resync(b) ELSE <<>>)
          \o Events(log, IF reset THEN 1 ELSE sync, b)
          \o Complete(log, epoch)
  BY <1>1, <1>3 DEF Answer
<1>5. CASE reset
  <2>1. t = Resync(b) \o Events(log, 1, b) \o Complete(log, epoch)
    BY <1>4, <1>5
  <2>2. PICK c : c = sync - 1
    OBVIOUS
  <2>3. Replay(t, b) /\ Frames(t, b) /\ Chain(c, t) /\ End(c, t) = Len(log)
    BY <1>2, <2>1, ResyncReplay
  <2> QED BY <1>1, <2>2, <2>3
<1>6. CASE ~reset
  <2>1. 1 <= sync /\ sync <= Len(log) + 1
    <3>1. PICK m \in Nat : m = Len(log)
      BY <1>2
    <3>2. ~(sync > m + 1)
      BY <1>3, <1>6, <3>1
    <3> QED BY <3>1, <3>2
  <2>2. PICK e : e = Events(log, sync, b)
    OBVIOUS
  <2>3. Frames(e, b)
    BY <1>2, <2>1, <2>2, EventsFacts
  <2>4. <<>> \o e = e
    <3>1. IsSeq(e) /\ IsSeq(<<>>) /\ Len(<<>>) = 0 /\ Len(e) \in Nat
      BY <2>3, NothingIsSeq, SeqFacts DEF Frames
    <3>2. IsSeq(<<>> \o e) /\ Len(<<>> \o e) = Len(e)
      BY <3>1, ConcatSeq
    <3>3. \A i \in 1..Len(e) : (<<>> \o e)[i] = e[i]
      BY <3>1, ConcatSeq
    <3> QED BY <3>1, <3>2, <3>3, ExtensionalSeq
  <2>5. t = <<>> \o e \o Complete(log, epoch)
    BY <1>4, <1>6, <2>2
  <2>6. t = Events(log, sync, b) \o Complete(log, epoch)
    BY <2>2, <2>4, <2>5
  <2>a. PICK c : c = sync - 1
    OBVIOUS
  <2>7. Replay(t, b) /\ Frames(t, b) /\ Chain(c, t) /\ End(c, t) = Len(log)
    <3>1. IsSeq(log)
      BY <1>2
    <3>2. 1 <= sync
      BY <2>1
    <3>3. sync <= Len(log) + 1
      BY <2>1
    <3> QED BY <3>1, <3>2, <3>3, <2>6, <2>a, PlainReplay
  <2> QED BY <1>1, <2>7, <2>a
<1>7. reset \in BOOLEAN
  BY <1>3
<1> QED BY <1>5, <1>6, <1>7

LEMMA HelloGate == GateInvariant /\ EditInvariant /\ ReceiverHello => GateInvariant'
<1> SUFFICES ASSUME GateInvariant, EditInvariant, ReceiverHello PROVE GateInvariant'
  OBVIOUS
<1>1. PICK r, w, g, n, bt, late :
        /\ r = receiver /\ w = rwire /\ g = game /\ n = Len(server.log)
        /\ bt = history.batches /\ late = history.late
  OBVIOUS
<1>2. Gate(r, w, g, n, bt, late) /\ ReceiverRec(r) /\ r.conn \in Nat /\ bt \in Nat
      /\ r.sync \in Nat /\ r.received \in Nat
  BY <1>1, GateFacts DEF Types
<1>3. PICK b, d, blind, g1, h1 :
        /\ b = history.batches + 1 /\ d = IdentityBegin(identity)
        /\ blind = (~d.known /\ receiver.sync \in 2..(Len(server.log) + 1)
                    /\ history.epoch # server.epoch)
        /\ g1 = GenerationChanged(game, r.conn) /\ h1 = Closes(g1)
  OBVIOUS
<1>4. /\ r.at = "hello" /\ rwire' = Answer(r.sync, d, b)
      /\ receiver' = [r EXCEPT !.at = "reading", !.active = r.conn, !.batch = b, !.up = TRUE]
      /\ game' = [g1 EXCEPT !.token = TRUE]
      /\ history' = [h1 EXCEPT !.batches = b, !.stray = IF blind THEN Slots ELSE @]
      /\ UNCHANGED server
  BY <1>1, <1>3 DEF ReceiverHello
<1>5. b = bt + 1 /\ b \in Nat /\ b # 0
  BY <1>1, <1>2, <1>3
<1>6. PICK r2, t, g2 : r2 = receiver' /\ t = rwire' /\ g2 = game'
  OBVIOUS
<1>7. r2 = [at |-> "reading", gen |-> r.gen, conn |-> r.conn, active |-> r.conn,
            received |-> r.received, applied |-> r.applied, requested |-> r.requested,
            sync |-> r.sync, inbox |-> r.inbox, marker |-> r.marker, read |-> r.read,
            batch |-> b, up |-> TRUE]
  <2>1. ReceiverRec(r)
    BY <1>2
  <2>2. r2 = [r EXCEPT !.at = "reading", !.active = r.conn, !.batch = b, !.up = TRUE]
    BY <1>4, <1>6
  <2> QED BY <2>1, <2>2 DEF ReceiverRec
<1>8. r.sync >= 1 /\ (r.conn = r.gen => r.sync = r.received + 1)
  BY <1>2, <1>4 DEF Gate, Session
<1>9. PICK sync \in Nat : sync = r.sync
  BY <1>2
<1>10. /\ Replay(t, b) /\ Frames(t, b)
       /\ Chain(sync - 1, t) /\ End(sync - 1, t) = n
  <2>1. sync >= 1 /\ t = Answer(sync, d, b)
    BY <1>4, <1>6, <1>8, <1>9
  <2>2. IsSeq(server.log)
    BY GateFacts
  <2> QED BY <1>1, <1>5, <2>1, <2>2, AnswerFacts
<1>11. r.conn = r.gen => Chain(r.received, t) /\ End(r.received, t) = n
  <2>1. r.conn = r.gen => sync - 1 = r.received
    <3>1. PICK x \in Nat : x = r.received
      BY <1>2
    <3>2. r.conn = r.gen => sync = x + 1
      BY <1>8, <1>9, <3>1
    <3> QED BY <3>1, <3>2
  <2> QED BY <1>10, <2>1
<1>12. /\ g1.at = g.at /\ g1.last = g.last /\ g1.mark = g.mark
       /\ g1.replayGen \in Nat /\ g1.synchronized \in BOOLEAN
       /\ g1.synchronized => g1.replayGen # r.conn
       /\ h1.late \in BOOLEAN /\ h1.batches = history.batches /\ h1.snapshot = history.snapshot
  BY <1>1, <1>2, <1>3, ShutGate
<1>13. GameRec(g1) /\ HistoryRec(h1)
  BY <1>3, EditFacts, GenerationChangedFields, ClosesFields
<1>14. /\ g2.at = g.at /\ g2.last = g.last /\ g2.mark = g.mark
       /\ g2.replayGen \in Nat /\ g2.synchronized \in BOOLEAN
       /\ g2.synchronized => g2.replayGen # r.conn
  <2>1. g2 = [g1 EXCEPT !.token = TRUE]
    BY <1>4, <1>6
  <2>2. /\ g2.at = g1.at /\ g2.last = g1.last /\ g2.mark = g1.mark
        /\ g2.replayGen = g1.replayGen /\ g2.synchronized = g1.synchronized
    BY <1>13, <2>1 DEF GameRec
  <2> QED BY <1>12, <2>2
<1>15. history'.late = h1.late /\ history'.batches = b /\ history'.snapshot = history.snapshot
  <2>1. PICK y : y = IF blind THEN Slots ELSE h1.stray
    OBVIOUS
  <2>2. history' = [h1 EXCEPT !.batches = b, !.stray = y]
    BY <1>4, <1>13, <2>1 DEF HistoryRec
  <2>3. history'.late = h1.late /\ history'.batches = b /\ history'.snapshot = h1.snapshot
    BY <1>13, <2>2 DEF HistoryRec
  <2> QED BY <1>12, <2>3
<1>16. PICK late2 \in BOOLEAN : late2 = h1.late
  BY <1>12
<1>17. Gate(r2, t, g2, n, b, late2)
  BY <1>2, <1>4, <1>5, <1>7, <1>10, <1>11, <1>14, HelloKeeps
<1> QED BY <1>1, <1>4, <1>6, <1>15, <1>16, <1>17, GateFacts DEF GateInvariant

\* Records are added to the log and broadcast.
LEMMA LiveGate ==
    ASSUME GateInvariant, NEW txns, IsSeq(txns), server'.log = server.log \o txns,
           rwire' = Live(server'.log), UNCHANGED <<receiver, game>>,
           history'.snapshot = history.snapshot, history'.batches = history.batches,
           history'.late = history.late
    PROVE  GateInvariant'
<1>1. PICK r, w, g, log, bt, late :
        /\ r = receiver /\ w = rwire /\ g = game /\ log = server.log
        /\ bt = history.batches /\ late = history.late
  OBVIOUS
<1>2. PICK log2, v : log2 = log \o txns /\ v = rwire'
  OBVIOUS
<1>3. server'.log = log2 /\ v = IF r.up THEN w \o Events(log2, Len(log) + 1, 0) ELSE w
  BY <1>1, <1>2 DEF Live
<1>4. IsSeq(log) /\ Gate(r, w, g, Len(log), bt, late)
  BY <1>1, GateFacts
<1>5. IsSeq(log2) /\ Gate(r, v, g, Len(log2), bt, late)
  BY <1>2, <1>3, <1>4, LiveKeeps
<1> QED BY <1>1, <1>2, <1>3, <1>5, GateFacts DEF GateInvariant

\* Committed's fields.
LEMMA CommittedFields ==
    ASSUME ServerRec(server), NEW then, HistoryRec(then), NEW txns, Committed(txns, then)
    PROVE  /\ server'.log = server.log \o txns /\ rwire' = Live(server'.log)
           /\ history'.snapshot = then.snapshot /\ history'.batches = then.batches
           /\ history'.late = then.late
<1>1. PICK l, th, c : l = server.log \o txns /\ th = server.through + Len(txns)
                      /\ c = then.committed \o txns
  OBVIOUS
<1>2. server' = [server EXCEPT !.log = l, !.through = th] /\ history' = [then EXCEPT !.committed = c]
      /\ rwire' = Live(server'.log)
  BY <1>1 DEF Committed
<1>3. server'.log = l
  BY <1>2 DEF ServerRec
<1>4. /\ history'.snapshot = then.snapshot /\ history'.batches = then.batches
      /\ history'.late = then.late
  BY <1>2 DEF HistoryRec
<1> QED BY <1>1, <1>2, <1>3, <1>4

LEMMA ServerCommitGate == GateInvariant /\ EditInvariant /\ ServerCommit => GateInvariant'
<1> SUFFICES ASSUME GateInvariant, EditInvariant, ServerCommit PROVE GateInvariant'
  OBVIOUS
<1>1. ServerRec(server) /\ HistoryRec(history)
  BY EditFacts
<1>2. PICK f : f = Head(ewire)
  OBVIOUS
<1>3. PICK txns : txns = <<f>>
  OBVIOUS
<1>4. Committed(txns, history) /\ UNCHANGED <<receiver, game>>
  BY <1>2, <1>3 DEF ServerCommit
<1>5. IsSeq(txns)
  BY <1>3, OneFrame
<1>6. /\ server'.log = server.log \o txns /\ rwire' = Live(server'.log)
      /\ history'.snapshot = history.snapshot /\ history'.batches = history.batches
      /\ history'.late = history.late
  BY <1>1, <1>4, CommittedFields
<1> QED BY <1>4, <1>5, <1>6, LiveGate

LEMMA EmitterLossGate == GateInvariant /\ EditInvariant /\ EmitterLoss => GateInvariant'
<1> SUFFICES ASSUME GateInvariant, EditInvariant, EmitterLoss PROVE GateInvariant'
  OBVIOUS
<1>1. ServerRec(server) /\ HistoryRec(history) /\ IsSeq(ewire)
  BY EditFacts
<1>2. PICK k \in 0..Len(ewire) : Committed(SubSeq(ewire, 1, k), history)
  BY DEF EmitterLoss
<1>3. PICK txns : txns = SubSeq(ewire, 1, k)
  OBVIOUS
<1>4. Committed(txns, history) /\ UNCHANGED <<receiver, game>>
  BY <1>2, <1>3 DEF EmitterLoss
<1>5. IsSeq(txns)
  BY <1>1, <1>3, BeginningSeq
<1>6. /\ server'.log = server.log \o txns /\ rwire' = Live(server'.log)
      /\ history'.snapshot = history.snapshot /\ history'.batches = history.batches
      /\ history'.late = history.late
  BY <1>1, <1>4, CommittedFields
<1> QED BY <1>4, <1>5, <1>6, LiveGate

LEMMA RemoteCommitGate == GateInvariant /\ EditInvariant /\ RemoteCommit => GateInvariant'
<1> SUFFICES ASSUME GateInvariant, EditInvariant, RemoteCommit PROVE GateInvariant'
  OBVIOUS
<1>1. ServerRec(server) /\ HistoryRec(history) /\ IsSeq(server.log)
  BY EditFacts, GateFacts
<1>2. PICK s \in history.edited :
        server' = [server EXCEPT !.log = Append(@, [slot |-> s, val |-> Fresh])]
  BY DEF RemoteCommit
<1>3. PICK x : x = [slot |-> s, val |-> Fresh]
  OBVIOUS
<1>4. PICK l, m : l = Append(server.log, x) /\ m = Fresh
  OBVIOUS
<1>5. server' = [server EXCEPT !.log = l] /\ history' = [history EXCEPT !.made = m]
      /\ rwire' = Live(server'.log) /\ UNCHANGED <<receiver, game>>
  BY <1>2, <1>3, <1>4 DEF RemoteCommit
<1>6. server'.log = l
  BY <1>1, <1>5 DEF ServerRec
<1>7. /\ history'.snapshot = history.snapshot /\ history'.batches = history.batches
      /\ history'.late = history.late
  BY <1>1, <1>5 DEF HistoryRec
<1>8. PICK txns : txns = <<x>>
  OBVIOUS
<1>9. IsSeq(txns) /\ Len(txns) = 1 /\ txns[1] = x
  BY <1>8, OneFrame
<1>10. l = server.log \o txns
  <2>1. PICK log : log = server.log
    OBVIOUS
  <2>2. IsSeq(log) /\ Len(log) \in Nat
    BY <1>1, <2>1, SeqFacts
  <2>3. /\ IsSeq(l) /\ Len(l) = Len(log) + 1 /\ l[Len(log) + 1] = x
        /\ \A i \in 1..Len(log) : l[i] = log[i]
    BY <1>4, <2>1, <2>2, AppendSeq
  <2>4. PICK u : u = log \o txns
    OBVIOUS
  <2>5. /\ IsSeq(u) /\ Len(u) = Len(log) + 1
        /\ \A i \in 1..(Len(log) + 1) : u[i] = IF i <= Len(log) THEN log[i] ELSE txns[i - Len(log)]
    BY <1>9, <2>2, <2>4, ConcatSeq
  <2>6. \A i \in 1..Len(l) : l[i] = u[i]
    BY <1>9, <2>2, <2>3, <2>5
  <2>7. l = u
    BY <2>3, <2>5, <2>6, ExtensionalSeq
  <2> QED BY <2>1, <2>4, <2>7
<1> QED BY <1>5, <1>6, <1>7, <1>9, <1>10, LiveGate

\* A rewrite keeps some of the records and numbers them anew.
LEMMA RewriteGate == GateInvariant /\ EditInvariant /\ RewriteHistory => GateInvariant'
<1> SUFFICES ASSUME GateInvariant, EditInvariant, RewriteHistory PROVE GateInvariant'
  OBVIOUS
<1>1. ServerRec(server) /\ HistoryRec(history) /\ IsSeq(server.log)
  BY EditFacts, GateFacts
<1>2. PICK gone \in {{}} \cup {{s} : s \in Slots} :
          LET last(i) == \A j \in (i + 1)..Len(server.log) : server.log[j].slot # server.log[i].slot
              kept == {i \in 1..Len(server.log) : last(i) /\ server.log[i].slot \notin gone}
              log == [k \in 1..Cardinality(kept) |->
                         server.log[CHOOSE i \in kept :
                             Cardinality({j \in kept : j <= i}) = k]]
              b == history.batches + 1
          IN  /\ server' = [server EXCEPT !.log = log, !.epoch = @ + 1]
              /\ rwire' = IF receiver.up
                          THEN rwire \o Resync(b) \o Events(log, 1, b)
                               \o Complete(log, server.epoch + 1)
                          ELSE rwire
              /\ history' = [history EXCEPT !.batches = b]
  BY DEF RewriteHistory
<1> DEFINE last(i) == \A j \in (i + 1)..Len(server.log) : server.log[j].slot # server.log[i].slot
           kept == {i \in 1..Len(server.log) : last(i) /\ server.log[i].slot \notin gone}
           new == [k \in 1..Cardinality(kept) |->
                      server.log[CHOOSE i \in kept : Cardinality({j \in kept : j <= i}) = k]]
<1>3. /\ server' = [server EXCEPT !.log = new, !.epoch = @ + 1]
      /\ rwire' = IF receiver.up
                  THEN rwire \o Resync(history.batches + 1) \o Events(new, 1, history.batches + 1)
                       \o Complete(new, server.epoch + 1)
                  ELSE rwire
      /\ history' = [history EXCEPT !.batches = history.batches + 1]
  BY <1>2
<1>a. kept \subseteq 1..Len(server.log)
  OBVIOUS
<1> HIDE DEF kept
<1>b. \E f : new = [k \in 1..Cardinality(kept) |-> f[k]]
  <2>1. PICK f : f = new
    OBVIOUS
  <2>2. new = [k \in 1..Cardinality(kept) |-> f[k]]
    BY <2>1
  <2> QED BY <2>2
<1> HIDE DEF new
<1>4. PICK log, b, epoch : log = new /\ b = history.batches + 1 /\ epoch = server.epoch + 1
  OBVIOUS
<1>5. /\ server' = [server EXCEPT !.log = log, !.epoch = epoch]
      /\ rwire' = Rewritten(receiver, rwire, log, epoch, b)
      /\ history' = [history EXCEPT !.batches = b]
  BY <1>3, <1>4 DEF Rewritten
<1>6. Cardinality(kept) \in Nat
  <2>1. Len(server.log) \in Nat
    BY <1>1, SeqFacts
  <2>2. IsFiniteSet(1..Len(server.log))
    BY <2>1, FS_Interval
  <2>3. kept \subseteq 1..Len(server.log)
    BY <1>a
  <2>4. IsFiniteSet(kept)
    BY <2>2, <2>3, FS_Subset
  <2> QED BY <2>4, FS_CardinalityType
<1>7. IsSeq(log)
  <2>1. PICK m \in Nat : m = Cardinality(kept)
    BY <1>6
  <2>2. log = [k \in 1..m |-> log[k]]
    <3>1. PICK f : log = [k \in 1..m |-> f[k]]
      BY <1>4, <1>b, <2>1
    <3> QED BY <3>1
  <2> QED BY <2>2, MadeSeq
<1>8. PICK r, w, g, n, bt, late :
        /\ r = receiver /\ w = rwire /\ g = game /\ n = Len(server.log)
        /\ bt = history.batches /\ late = history.late
  OBVIOUS
<1>10. Gate(r, w, g, n, bt, late) /\ b = bt + 1 /\ rwire' = Rewritten(r, w, log, epoch, b)
  BY <1>4, <1>5, <1>8, GateFacts
<1>11. Gate(r, Rewritten(r, w, log, epoch, b), g, Len(log), b, late)
  BY <1>7, <1>10, RewriteKeeps
<1>12. server'.log = log
  BY <1>1, <1>5 DEF ServerRec
<1>13. /\ history'.snapshot = history.snapshot /\ history'.batches = b
       /\ history'.late = history.late
  BY <1>1, <1>5 DEF HistoryRec
<1>14. UNCHANGED <<receiver, game>>
  BY DEF RewriteHistory
<1> QED BY <1>7, <1>8, <1>10, <1>11, <1>12, <1>13, <1>14, GateFacts DEF GateInvariant

\* PublishReplayIfApplied, first half.
LEMMA PublishGate ==
    ASSUME GateInvariant, EditInvariant, NEW nth \in {1, 2}, PublishReplayIfApplied(nth),
           receiver.at # "none", game.at \in {"idle", "first", "apply"},
           UNCHANGED <<server, rwire, history>>
    PROVE  GateInvariant'
<1>1. PICK r, w, g, n, bt, late :
        /\ r = receiver /\ w = rwire /\ g = game /\ n = Len(server.log)
        /\ bt = history.batches /\ late = history.late
  OBVIOUS
<1>2. Gate(r, w, g, n, bt, late) /\ ReceiverRec(r) /\ GameRec(g)
  BY <1>1, GateFacts, EditFacts
<1>3. r.at # "none" /\ g.at \in {"idle", "first", "apply"}
  BY <1>1
<1>4. PICK r2, g2 : r2 = receiver' /\ g2 = game'
  OBVIOUS
<1>5. CASE TryMarkReplayApplied(r)
  <2>1. PICK a \in {"open1", "open2"} : a = IF nth = 1 THEN "open1" ELSE "open2"
    OBVIOUS
  <2>2. PICK m : m = r.batch
    OBVIOUS
  <2>3. r2 = [r EXCEPT !.marker = None] /\ g2 = [g EXCEPT !.at = a, !.attached = TRUE, !.mark = m]
    BY <1>1, <1>4, <1>5, <2>1, <2>2 DEF PublishReplayIfApplied
  <2>4. /\ ReceiverRec(r2) /\ r2.inbox = r.inbox /\ r2.received = r.received
        /\ r2.at = r.at /\ r2.gen = r.gen /\ r2.conn = r.conn /\ r2.applied = r.applied
        /\ r2.requested = r.requested /\ r2.sync = r.sync /\ r2.marker = None
        /\ r2.read = r.read /\ r2.batch = r.batch /\ r2.up = r.up
    BY <1>2, <2>3 DEF ReceiverRec
  <2>5. /\ g2.at = a /\ g2.mark = m /\ g2.last = g.last /\ g2.replayGen = g.replayGen
        /\ g2.synchronized = g.synchronized
    BY <1>2, <2>3 DEF GameRec
  <2>6. g2.at \in Open /\ g2.mark = r.batch
    BY <2>1, <2>2, <2>5 DEF Open
  <2>7. Gate(r2, w, g2, n, bt, late)
    BY <1>2, <1>3, <1>5, <2>4, <2>5, <2>6, MarkedKeeps
  <2> QED BY <1>1, <1>4, <2>7, GateFacts DEF GateInvariant
<1>6. CASE ~TryMarkReplayApplied(r)
  <2>1. PICK a \in {"first", "drain"} : a = IF nth = 1 /\ r.inbox # <<>> THEN "first" ELSE "drain"
    OBVIOUS
  <2>2. PICK l : l = r.applied
    OBVIOUS
  <2>3. r2 = r /\ g2 = [g EXCEPT !.at = a, !.attached = TRUE, !.last = l]
    BY <1>1, <1>4, <1>6, <2>1, <2>2 DEF PublishReplayIfApplied
  <2>4. /\ g2.at = a /\ g2.last = l /\ g2.mark = g.mark /\ g2.replayGen = g.replayGen
        /\ g2.synchronized = g.synchronized
    BY <1>2, <2>3 DEF GameRec
  <2>5. g2.at \in {"first", "drain"} /\ (g2.at = "first" => r.inbox # <<>>) /\ g2.last = r.applied
    BY <2>1, <2>2, <2>4
  <2>6. Gate(r, w, g2, n, bt, late)
    BY <1>2, <1>3, <2>4, <2>5, UnmarkedKeeps
  <2> QED BY <1>1, <1>4, <2>3, <2>6, GateFacts DEF GateInvariant
<1> QED BY <1>5, <1>6

LEMMA TickGate == GateInvariant /\ EditInvariant /\ (Tick \/ ApplyStops) => GateInvariant'
<1> SUFFICES ASSUME GateInvariant, EditInvariant, Tick \/ ApplyStops PROVE GateInvariant'
  OBVIOUS
<1>0. UNCHANGED <<server, rwire, history>>
  BY DEF Tick, ApplyStops
<1>1. CASE Tick
  <2>1. CASE receiver.at # "none"
    <3>1. PublishReplayIfApplied(1) /\ game.at \in {"idle", "first", "apply"}
      BY <1>1, <2>1 DEF Tick
    <3> QED BY <1>0, <2>1, <3>1, PublishGate
  <2>2. CASE receiver.at = "none"
    <3>1. /\ game' = [game EXCEPT !.attached = TRUE, !.at = "drain"] /\ UNCHANGED receiver
          /\ game.at \in Calm
      BY <1>1, <2>2 DEF Tick, Calm
    <3>2. /\ game'.at = "drain" /\ game'.synchronized = game.synchronized
          /\ game'.replayGen = game.replayGen /\ game'.last = game.last /\ game'.mark = game.mark
      BY <3>1, EditFacts DEF GameRec
    <3>3. game'.at \in Calm
      BY <3>2 DEF Calm
    <3> QED BY <1>0, <3>1, <3>2, <3>3, CalmSteps
  <2> QED BY <2>1, <2>2
<1>2. CASE ApplyStops
  <2>1. PublishReplayIfApplied(2) /\ game.at \in {"idle", "first", "apply"}
    BY <1>2 DEF ApplyStops
  <2>2. receiver.at # "none"
    <3>1. Places(receiver, game)
      BY GateFacts DEF Gate
    <3>2. game.at \in {"first", "apply"}
      BY <1>2 DEF ApplyStops
    <3> QED BY <3>1, <3>2 DEF Places, Busy
  <2> QED BY <1>0, <2>1, <2>2, PublishGate
<1> QED BY <1>1, <1>2

LEMMA PublishReplayGate == GateInvariant /\ EditInvariant /\ PublishReplay => GateInvariant'
<1> SUFFICES ASSUME GateInvariant, EditInvariant, PublishReplay PROVE GateInvariant'
  OBVIOUS
<1>1. PICK r, w, g, n, bt, late :
        /\ r = receiver /\ w = rwire /\ g = game /\ n = Len(server.log)
        /\ bt = history.batches /\ late = history.late
  OBVIOUS
<1>2. Gate(r, w, g, n, bt, late) /\ GameRec(g) /\ HistoryRec(history)
  BY <1>1, GateFacts, EditFacts
<1>3. PICK a \in {"first", "drain"} :
        a = IF g.at = "open1" /\ r.inbox # <<>> THEN "first" ELSE "drain"
  OBVIOUS
<1>4. PICK late2 \in BOOLEAN : late2 = (late \/ g.mark # r.batch)
  OBVIOUS
<1>4a. PICK g2, l : g2 = game' /\ l = r.applied
  OBVIOUS
<1>5. /\ g.at \in Open /\ g2 = [g EXCEPT !.synchronized = TRUE, !.last = l, !.at = a]
      /\ history' = [history EXCEPT !.late = late2]
      /\ UNCHANGED <<server, rwire, receiver>>
  BY <1>1, <1>3, <1>4, <1>4a DEF PublishReplay, Open
<1>6. /\ g2.at = a /\ g2.last = l /\ g2.mark = g.mark /\ g2.replayGen = g.replayGen
      /\ g2.synchronized = TRUE
  BY <1>2, <1>5 DEF GameRec
<1>7. /\ history'.snapshot = history.snapshot /\ history'.batches = history.batches
      /\ history'.late = late2
  BY <1>2, <1>5 DEF HistoryRec
<1>8. g2.at \in {"first", "drain"} /\ (g2.at = "first" => r.inbox # <<>>) /\ g2.last = r.applied
  BY <1>3, <1>4a, <1>6
<1>9. Gate(r, w, g2, n, bt, late2)
  <2>1. ~late2 => g.mark = r.batch
    BY <1>4
  <2>2. Publishes(r, g, g2, late2)
    BY <1>5, <1>6, <1>8, <2>1 DEF Publishes
  <2> QED BY <1>2, <2>2, PublishKeeps
<1> QED BY <1>1, <1>4a, <1>5, <1>7, <1>9, GateFacts DEF GateInvariant

LEMMA MarkAppliedGate == GateInvariant /\ EditInvariant /\ MarkAppliedThrough => GateInvariant'
<1> SUFFICES ASSUME GateInvariant, EditInvariant, MarkAppliedThrough PROVE GateInvariant'
  OBVIOUS
<1>1. PICK r, w, g, n, bt, late :
        /\ r = receiver /\ w = rwire /\ g = game /\ n = Len(server.log)
        /\ bt = history.batches /\ late = history.late
  OBVIOUS
<1>2. Gate(r, w, g, n, bt, late) /\ GameRec(g) /\ ReceiverRec(r)
  BY <1>1, GateFacts, EditFacts
<1>3. PICK r2, g2, l : r2 = receiver' /\ g2 = game' /\ l = g.last
  OBVIOUS
<1>4. /\ g.at = "applied"
      /\ IF MarkAppliedAllowed(r, g.last)
         THEN r2 = [r EXCEPT !.applied = l] /\ g2 = [g EXCEPT !.at = "apply"]
         ELSE r2 = r /\ g2 = [g EXCEPT !.at = "recover"]
      /\ UNCHANGED <<server, rwire, history>>
  BY <1>1, <1>3 DEF MarkAppliedThrough
<1>5. CASE MarkAppliedAllowed(r, g.last)
  <2>1. r2 = [r EXCEPT !.applied = l] /\ g2 = [g EXCEPT !.at = "apply"]
    BY <1>4, <1>5
  <2>2. /\ ReceiverRec(r2) /\ r2.inbox = r.inbox /\ r2.received = r.received
        /\ r2.at = r.at /\ r2.gen = r.gen /\ r2.conn = r.conn /\ r2.applied = l
        /\ r2.requested = r.requested /\ r2.sync = r.sync /\ r2.marker = r.marker
        /\ r2.read = r.read /\ r2.batch = r.batch /\ r2.up = r.up
    BY <1>2, <2>1 DEF ReceiverRec
  <2>3. /\ g2.at = "apply" /\ g2.mark = g.mark /\ g2.last = g.last /\ g2.replayGen = g.replayGen
        /\ g2.synchronized = g.synchronized
    BY <1>2, <2>1 DEF GameRec
  <2>4. g.last >= r.applied /\ g.last <= r.received
    BY <1>5 DEF MarkAppliedAllowed
  <2>5. Gate(r2, w, g2, n, bt, late)
    BY <1>2, <1>3, <1>4, <2>2, <2>3, <2>4, AppliedKeeps
  <2> QED BY <1>1, <1>3, <1>4, <2>5, GateFacts DEF GateInvariant
<1>6. CASE ~MarkAppliedAllowed(r, g.last)
  <2>1. r2 = r /\ g2 = [g EXCEPT !.at = "recover"]
    BY <1>4, <1>6
  <2>2. /\ g2.at = "recover" /\ g2.mark = g.mark /\ g2.last = g.last /\ g2.replayGen = g.replayGen
        /\ g2.synchronized = g.synchronized
    BY <1>2, <2>1 DEF GameRec
  <2>3. Gate(r, w, g2, n, bt, late)
    BY <1>2, <1>4, <2>2, RecoverKeeps
  <2> QED BY <1>1, <1>3, <1>4, <2>1, <2>3, GateFacts DEF GateInvariant
<1> QED BY <1>5, <1>6

\* A frame is taken from the inbox.
LEMMA PopGate ==
    ASSUME GateInvariant, NEW late2, Pops(receiver, game, history.late, receiver', game', late2),
           UNCHANGED <<server, rwire>>, history'.late = late2,
           history'.snapshot = history.snapshot, history'.batches = history.batches
    PROVE  GateInvariant'
<1>1. PICK r, w, g, n, bt, late :
        /\ r = receiver /\ w = rwire /\ g = game /\ n = Len(server.log)
        /\ bt = history.batches /\ late = history.late
  OBVIOUS
<1>2. PICK r2, g2 : r2 = receiver' /\ g2 = game'
  OBVIOUS
<1>3. Gate(r, w, g, n, bt, late) /\ Pops(r, g, late, r2, g2, late2)
  BY <1>1, <1>2, GateFacts
<1>4. Gate(r2, w, g2, n, bt, late2)
  BY <1>3, PopKeeps
<1> QED BY <1>1, <1>2, <1>4, GateFacts DEF GateInvariant

\* A frame is popped and nothing else of the receiver changes.
LEMMA PopsPlain ==
    ASSUME NEW r, NEW w, NEW g, NEW n, NEW bt, NEW late, Gate(r, w, g, n, bt, late), GameRec(g),
           g.at \in {"first", "apply"}, r.inbox # <<>>, NEW r2, r2 = TryPop(r),
           NEW a \in {"apply", "applied", "recover"}, NEW l \in Nat,
           NEW g2, g2 = [g EXCEPT !.at = a, !.last = l],
           Connected(r) => /\ a # "apply"
                           /\ a = "applied" => Head(r.inbox).t = "event" /\ l = Head(r.inbox).seq
    PROVE  Pops(r, g, late, r2, g2, late)
<1>1. Types(r, g, bt, late) /\ ReceiverRec(r) /\ MarkerRec(r.marker)
  BY DEF Gate, Types
<1>2. /\ ReceiverRec(r2) /\ r2.received = r.received
      /\ r2.at = r.at /\ r2.gen = r.gen /\ r2.conn = r.conn /\ r2.applied = r.applied
      /\ r2.requested = r.requested /\ r2.sync = r.sync /\ r2.read = r.read
      /\ r2.batch = r.batch /\ r2.up = r.up
  BY <1>1, PopFields
<1>3. /\ g2.at = a /\ g2.last = l /\ g2.mark = g.mark /\ g2.replayGen = g.replayGen
      /\ g2.synchronized = g.synchronized
  BY DEF GameRec
<1>4. r2.applied \in Nat /\ g2.synchronized \in BOOLEAN /\ late \in BOOLEAN
  BY <1>1, <1>2, <1>3 DEF Types
<1>5. Connected(r) /\ g2.at # "recover" => Cursor(r2, g2) = Cur(Head(r.inbox))
  BY <1>3 DEF Cursor, Cur
<1>6. /\ g2.at \in {"apply", "applied", "recover"} /\ g2.last \in Nat
      /\ (Connected(r) /\ g2.at = "apply" => g2.last = r2.applied)
      /\ (g2.synchronized => g.synchronized)
      /\ (g.synchronized /\ ~g2.synchronized => Head(r.inbox).t = "resync")
      /\ r2.inbox = TryPop(r).inbox /\ r2.marker = TryPop(r).marker
  BY <1>3
<1> QED BY <1>2, <1>3, <1>4, <1>5, <1>6 DEF Pops

LEMMA ApplyFailsGate == GateInvariant /\ EditInvariant /\ ApplyFails => GateInvariant'
<1> SUFFICES ASSUME GateInvariant, EditInvariant, ApplyFails PROVE GateInvariant'
  OBVIOUS
<1>1. PICK r, w, g, n, bt, late :
        /\ r = receiver /\ w = rwire /\ g = game /\ n = Len(server.log)
        /\ bt = history.batches /\ late = history.late
  OBVIOUS
<1>2. Gate(r, w, g, n, bt, late) /\ GameRec(g) /\ g.last \in Nat
  BY <1>1, GateFacts, EditFacts DEF Types
<1>3. PICK r2, g2 : r2 = receiver' /\ g2 = game'
  OBVIOUS
<1>4. /\ g.at \in {"first", "apply"} /\ r.inbox # <<>> /\ r2 = TryPop(r)
      /\ g2 = [g EXCEPT !.at = "recover"]
      /\ UNCHANGED <<server, rwire, history>>
  BY <1>1, <1>3 DEF ApplyFails
<1>5. PICK a \in {"apply", "applied", "recover"} : a = "recover"
  OBVIOUS
<1>6. PICK l \in Nat : l = g.last
  BY <1>2
<1>7. g2 = [g EXCEPT !.at = a, !.last = l]
  BY <1>2, <1>4, <1>5, <1>6 DEF GameRec
<1>8. Connected(r) => /\ a # "apply"
                      /\ a = "applied" => Head(r.inbox).t = "event" /\ l = Head(r.inbox).seq
  BY <1>5
<1>9. Pops(r, g, late, r2, g2, late)
  BY <1>2, <1>4, <1>7, <1>8, PopsPlain
<1> QED BY <1>1, <1>3, <1>4, <1>9, PopGate

LEMMA ApplyFrameGate == GateInvariant /\ EditInvariant /\ ApplyFrame => GateInvariant'
<1> SUFFICES ASSUME GateInvariant, EditInvariant, ApplyFrame PROVE GateInvariant'
  OBVIOUS
<1>1. PICK r, w, g, n, bt, late :
        /\ r = receiver /\ w = rwire /\ g = game /\ n = Len(server.log)
        /\ bt = history.batches /\ late = history.late
  OBVIOUS
<1>2. /\ Gate(r, w, g, n, bt, late) /\ GameRec(g) /\ ReceiverRec(r) /\ MarkerRec(r.marker)
      /\ g.last \in Nat /\ HistoryRec(history) /\ g.synchronized \in BOOLEAN /\ late \in BOOLEAN
  BY <1>1, GateFacts, EditFacts DEF Types
<1>3. PICK r2, g2, f : r2 = receiver' /\ g2 = game' /\ f = Head(r.inbox)
  OBVIOUS
<1>4. g.at \in {"first", "apply"} /\ r.inbox # <<>> /\ UNCHANGED <<server, rwire>>
  BY <1>1 DEF ApplyFrame
<1>5. Frame(f) /\ f.t # "complete"
  <2>1. Queues(r, w, bt)
    BY <1>2 DEF Gate
  <2>2. IsSeq(r.inbox)
    BY <2>1 DEF Queues, Frames
  <2>3. f = r.inbox[1] /\ 1 \in 1..Len(r.inbox)
    BY <1>3, <1>4, <2>2, TailSeq, SeqFacts
  <2> QED BY <2>1, <2>3 DEF Queues, Frames
<1>6. CASE f.t = "resync"
  <2>1. PICK p : p = TryPop(r)
    OBVIOUS
  <2>2. PICK h : h = Closes(g2)
    OBVIOUS
  <2>3. /\ r2 = [p EXCEPT !.applied = 0]
        /\ g2 = [g EXCEPT !.at = "apply", !.last = 0, !.synchronized = FALSE]
        /\ history' = h
    BY <1>1, <1>3, <1>6, <2>1, <2>2 DEF ApplyFrame, Closes
  <2>4. /\ ReceiverRec(p) /\ p.received = r.received
        /\ p.at = r.at /\ p.gen = r.gen /\ p.conn = r.conn /\ p.applied = r.applied
        /\ p.requested = r.requested /\ p.sync = r.sync /\ p.read = r.read
        /\ p.batch = r.batch /\ p.up = r.up
    BY <1>2, <2>1, PopFields
  <2>5. /\ ReceiverRec(r2) /\ r2.inbox = p.inbox /\ r2.marker = p.marker
        /\ r2.received = p.received /\ r2.applied = 0
        /\ r2.at = p.at /\ r2.gen = p.gen /\ r2.conn = p.conn
        /\ r2.requested = p.requested /\ r2.sync = p.sync /\ r2.read = p.read
        /\ r2.batch = p.batch /\ r2.up = p.up
    BY <2>3, <2>4 DEF ReceiverRec
  <2>6. /\ g2.at = "apply" /\ g2.last = 0 /\ g2.mark = g.mark /\ g2.replayGen = g.replayGen
        /\ g2.synchronized = FALSE
    BY <1>2, <2>3 DEF GameRec
  <2>7. h.late \in BOOLEAN /\ h.batches = history.batches /\ h.snapshot = history.snapshot
    <3>1. HistoryRec(history) /\ history.late \in BOOLEAN /\ g2.synchronized \in BOOLEAN
      BY <1>1, <1>2, <2>6
    <3> QED BY <2>2, <3>1, ClosesGate
  <2>8. PICK late2 \in BOOLEAN : late2 = h.late
    BY <2>7
  <2>9. Pops(r, g, late, r2, g2, late2)
    <3>1. PICK z \in Nat : z = 0
      OBVIOUS
    <3>2. r2.applied = z /\ g2.last = z
      BY <2>5, <2>6, <3>1
    <3>3. /\ ReceiverRec(r2) /\ r2.inbox = TryPop(r).inbox /\ r2.marker = TryPop(r).marker
          /\ r2.received = r.received /\ r2.at = r.at /\ r2.gen = r.gen /\ r2.conn = r.conn
          /\ r2.requested = r.requested /\ r2.sync = r.sync /\ r2.read = r.read
          /\ r2.batch = r.batch /\ r2.up = r.up
      BY <2>1, <2>4, <2>5
    <3>4. Cursor(r2, g2) = Cur(Head(r.inbox))
      <4>1. Cur(f) = 0
        BY <1>6 DEF Cur
      <4>2. Cursor(r2, g2) = 0
        BY <2>5, <2>6 DEF Cursor
      <4> QED BY <1>3, <4>1, <4>2
    <3>5. /\ g2.at \in {"apply", "applied", "recover"} /\ g2.synchronized \in BOOLEAN
          /\ ~g2.synchronized /\ g2.mark = g.mark /\ g2.replayGen = g.replayGen
          /\ Head(r.inbox).t = "resync"
      BY <1>3, <1>6, <2>6
    <3> QED BY <1>4, <3>1, <3>2, <3>3, <3>4, <3>5 DEF Pops
  <2> QED BY <1>1, <1>3, <1>4, <2>3, <2>7, <2>8, <2>9, PopGate
<1>7. CASE f.t = "event" /\ f.seq = g.last + 1
  <2>1. PICK a \in {"apply", "applied", "recover"} : a = "applied"
    OBVIOUS
  <2>2. PICK l \in Nat : l = f.seq
    BY <1>5, <1>7 DEF Frame
  <2>3. PICK s, o, y : /\ s = f.slot /\ o = [history.owed EXCEPT ![s] = 0]
                       /\ y = history.stray \ {s}
    OBVIOUS
  <2>4. /\ r2 = TryPop(r) /\ g2 = [g EXCEPT !.at = a, !.last = l]
        /\ history' = [history EXCEPT !.owed = o, !.stray = y]
    BY <1>1, <1>3, <1>7, <2>1, <2>2, <2>3 DEF ApplyFrame
  <2>5. /\ history'.batches = history.batches /\ history'.late = history.late
        /\ history'.snapshot = history.snapshot
    BY <1>2, <2>4 DEF HistoryRec
  <2>6. Connected(r) => /\ a # "apply"
                        /\ a = "applied" => Head(r.inbox).t = "event" /\ l = Head(r.inbox).seq
    BY <1>3, <1>7, <2>1, <2>2
  <2>7. Pops(r, g, late, r2, g2, late)
    BY <1>2, <1>4, <2>4, <2>6, PopsPlain
  <2> QED BY <1>1, <1>3, <1>4, <2>5, <2>7, PopGate
<1>8. CASE f.t = "event" /\ f.seq # g.last + 1
  <2>1. PICK a \in {"apply", "applied", "recover"} :
          a = IF f.seq <= g.last THEN "apply" ELSE "recover"
    OBVIOUS
  <2>2. PICK l \in Nat : l = g.last
    BY <1>2
  <2>3. r2 = TryPop(r) /\ g2 = [g EXCEPT !.at = a] /\ UNCHANGED history
    BY <1>1, <1>3, <1>8, <2>1 DEF ApplyFrame
  <2>4. g2 = [g EXCEPT !.at = a, !.last = l]
    BY <1>2, <2>2, <2>3 DEF GameRec
  <2>5. ~Connected(r)
    BY <1>2, <1>3, <1>4, <1>8, HeadIsNext
  <2>6. Pops(r, g, late, r2, g2, late)
    BY <1>2, <1>4, <2>3, <2>4, <2>5, PopsPlain
  <2> QED BY <1>1, <1>3, <1>4, <2>3, <2>6, PopGate
<1> QED BY <1>5, <1>6, <1>7, <1>8 DEF Frame

LEMMA RecoverGate == GateInvariant /\ EditInvariant /\ RequestReceiverReplay => GateInvariant'
<1> SUFFICES ASSUME GateInvariant, EditInvariant, RequestReceiverReplay PROVE GateInvariant'
  OBVIOUS
<1>1. PICK r, g : r = receiver /\ g = game
  OBVIOUS
<1>2. ReceiverRec(r) /\ GameRec(g) /\ HistoryRec(history) /\ r.gen \in Nat /\ r.applied \in Nat
  BY <1>1, GateFacts, EditFacts DEF Types
<1>3. PICK k : k = r.gen + 1
  OBVIOUS
<1>4. PICK q \in Nat : q = r.applied
  BY <1>2
<1>5. PICK p, u, r2 : p = q + 1 /\ u = RequestReplayFrom(r, p) /\ r2 = receiver'
  OBVIOUS
<1>6. u = [at |-> r.at, gen |-> k, conn |-> r.conn, active |-> r.active,
           received |-> q, applied |-> q, requested |-> p,
           sync |-> r.sync, inbox |-> <<>>, marker |-> None, read |-> r.read,
           batch |-> r.batch, up |-> r.up]
  <2>1. ReceiverRec(r) /\ p = q + 1 /\ k = r.gen + 1
    BY <1>2, <1>3, <1>5
  <2>2. RequestReplayFrom(r, p) =
            [at |-> r.at, gen |-> k, conn |-> r.conn, active |-> r.active,
             received |-> q, applied |-> q, requested |-> p,
             sync |-> r.sync, inbox |-> <<>>, marker |-> None, read |-> r.read,
             batch |-> r.batch, up |-> r.up]
    BY <2>1, RequestFields
  <2> QED BY <1>5, <2>2
<1>7. /\ r2 = [u EXCEPT !.up = FALSE] /\ g.at = "recover" /\ rwire' = <<>> /\ UNCHANGED server
      /\ game' = [GenerationChanged(game, receiver'.gen) EXCEPT !.at = "drain"]
      /\ history' = Closes(game')
  BY <1>1, <1>4, <1>5 DEF RequestReceiverReplay
<1>8. r2 = [at |-> r.at, gen |-> k, conn |-> r.conn, active |-> r.active,
            received |-> q, applied |-> q, requested |-> p,
            sync |-> r.sync, inbox |-> <<>>, marker |-> None, read |-> r.read,
            batch |-> r.batch, up |-> FALSE]
  BY <1>6, <1>7
<1>9. ReceiverRec(r2) /\ r2.at = r.at /\ r2.received = q /\ r2.applied = q /\ r2.requested = p
      /\ r2.gen = k /\ r2.conn = r.conn /\ r2.sync = r.sync /\ r2.inbox = <<>>
      /\ r2.marker = None /\ r2.read = r.read /\ r2.batch = r.batch /\ r2.up = FALSE
  BY <1>8 DEF ReceiverRec
<1>10. r.at # "none"
  BY <1>1, <1>7, GateFacts DEF Gate, Places
<1>11. Asks(receiver, receiver')
  <2>1. k = r.gen + 1 /\ p = q + 1
    BY <1>3, <1>5
  <2>2. Asks(r, r2)
    BY <1>9, <1>10, <2>1 DEF Asks
  <2> QED BY <1>1, <1>5, <2>2
<1>a. k \in Nat
  BY <1>2, <1>3
<1>12. PICK g1, g2, h1, h2 : /\ g1 = GenerationChanged(game, k) /\ g2 = game'
                             /\ h1 = Closes(g1) /\ h2 = history'
  OBVIOUS
<1>13. g2 = [g1 EXCEPT !.at = "drain"] /\ h2 = Closes(g2)
  BY <1>5, <1>7, <1>9, <1>12 DEF Closes
<1>14. GameRec(g1)
  BY <1>1, <1>2, <1>12, GenerationChangedFields
<1>15. /\ g1.at = game.at /\ g1.last = game.last /\ g1.mark = game.mark
       /\ g1.replayGen \in Nat /\ g1.synchronized \in BOOLEAN
  BY <1>12, <1>a, ShutGate
<1>16. /\ g2.at = "drain" /\ g2.last = g1.last /\ g2.mark = g1.mark
       /\ g2.replayGen = g1.replayGen /\ g2.synchronized = g1.synchronized
  BY <1>13, <1>14 DEF GameRec
<1>17. /\ g2.at \in {game.at, "drain"} /\ g2.last = game.last /\ g2.mark = game.mark
       /\ g2.replayGen \in Nat /\ g2.synchronized \in BOOLEAN
  BY <1>15, <1>16
<1>18. h2.late \in BOOLEAN /\ h2.batches = history.batches /\ h2.snapshot = history.snapshot
  <2>1. HistoryRec(history) /\ history.late \in BOOLEAN /\ g2.synchronized \in BOOLEAN
    BY <1>2, <1>17, GateFacts DEF Types
  <2>2. h2 = Closes(g2)
    BY <1>13
  <2> QED BY <2>1, <2>2, ClosesGate
<1>19. /\ rwire' = <<>> /\ server'.log = server.log
       /\ history'.snapshot = history.snapshot /\ history'.batches = history.batches
       /\ history'.late \in BOOLEAN
       /\ game'.at \in {game.at, "drain"} /\ game'.last = game.last /\ game'.mark = game.mark
       /\ game'.replayGen \in Nat /\ game'.synchronized \in BOOLEAN
  BY <1>7, <1>12, <1>17, <1>18
<1> QED BY <1>11, <1>19, RequestGate

\* Nobody receives: the user disconnects, and the clients stop.
LEMMA NobodyGate ==
    ASSUME GateInvariant, Leaves(receiver, receiver', game, game'),
           history'.late \in BOOLEAN, history'.batches = history.batches,
           history'.snapshot = history.snapshot,
           rwire' \in {rwire, <<>>}, IsSeq(server'.log)
    PROVE  GateInvariant'
<1>1. PICK r, w, g, n, bt, late :
        /\ r = receiver /\ w = rwire /\ g = game /\ n = Len(server.log)
        /\ bt = history.batches /\ late = history.late
  OBVIOUS
<1>2. PICK r2, g2, log : r2 = receiver' /\ g2 = game' /\ log = server'.log
  OBVIOUS
<1>3. PICK late2 \in BOOLEAN : late2 = history'.late
  OBVIOUS
<1>4. PICK v \in {w, <<>>} : v = rwire'
  BY <1>1
<1>5. Gate(r, w, g, n, bt, late) /\ Leaves(r, r2, g, g2)
  BY <1>1, <1>2, GateFacts
<1>6. Gate(r2, v, g2, Len(log), bt, late2)
  BY <1>5, NobodyKeeps
<1> QED BY <1>1, <1>2, <1>3, <1>4, <1>6, GateFacts DEF GateInvariant

LEMMA UserDisconnectGate == GateInvariant /\ EditInvariant /\ UserDisconnect => GateInvariant'
<1> SUFFICES ASSUME GateInvariant, EditInvariant, UserDisconnect PROVE GateInvariant'
  OBVIOUS
<1>1. PICK r, g, h, r2, g2 : /\ r = receiver /\ g = game /\ h = history
                             /\ r2 = receiver' /\ g2 = game'
  OBVIOUS
<1>2. ReceiverRec(r) /\ GameRec(g) /\ HistoryRec(h)
      /\ h.late \in BOOLEAN /\ g.synchronized \in BOOLEAN
  BY <1>1, GateFacts, EditFacts DEF Types
<1>3. /\ g2 = [g EXCEPT !.at = "flush", !.attached = FALSE, !.pending = {}, !.emitted = FALSE]
      /\ r2 = [r EXCEPT !.at = "none", !.up = FALSE]
      /\ rwire' \in {rwire, <<>>} /\ server' = server /\ history' = Forgiven(h)
  BY <1>1 DEF UserDisconnect
<1>4. Leaves(r, r2, g, g2)
  <2>1. /\ ReceiverRec(r2) /\ r2.inbox = r.inbox /\ r2.marker = r.marker
        /\ r2.received = r.received /\ r2.applied = r.applied
        /\ r2.at = "none" /\ r2.gen = r.gen /\ r2.conn = r.conn
        /\ r2.requested = r.requested /\ r2.sync = r.sync
        /\ r2.read = r.read /\ r2.batch = r.batch /\ r2.up = FALSE
    BY <1>2, <1>3 DEF ReceiverRec
  <2>2. /\ g2.at \in {"flush", "idle"} /\ g2.last = g.last /\ g2.mark = g.mark
        /\ g2.replayGen = g.replayGen /\ g2.synchronized \in BOOLEAN
    BY <1>2, <1>3 DEF GameRec
  <2> QED BY <2>1, <2>2 DEF Leaves
<1>5. /\ history'.late = h.late /\ history'.batches = h.batches /\ history'.snapshot = h.snapshot
  <2>1. PICK o, y : o = [s \in Slots |-> 0] /\ y = h.stray \cup Owed
    OBVIOUS
  <2>2. history' = [h EXCEPT !.owed = o, !.stray = y]
    BY <1>3, <2>1 DEF Forgiven
  <2> QED BY <1>2, <2>2 DEF HistoryRec
<1> QED BY <1>1, <1>2, <1>3, <1>4, <1>5, GateFacts, NobodyGate

\* Nobody receives while the clients stop: the wire stays as it is.
LEMMA StopClientsGate == GateInvariant /\ EditInvariant /\ StopClients => GateInvariant'
<1> SUFFICES ASSUME GateInvariant, EditInvariant, StopClients PROVE GateInvariant'
  OBVIOUS
<1>1. PICK r, g, h, g2 : r = receiver /\ g = game /\ h = history /\ g2 = game'
  OBVIOUS
<1>2. ReceiverRec(r) /\ GameRec(g) /\ HistoryRec(h) /\ ServerRec(server) /\ IsSeq(ewire)
      /\ r.up \in BOOLEAN /\ Places(r, g)
  BY <1>1, GateFacts, EditFacts DEF Types, Gate
<1>3. PICK then : then = [h EXCEPT !.late = FALSE]
  OBVIOUS
<1>4. PICK k \in 0..Len(ewire) : Committed(SubSeq(ewire, 1, k), then)
  BY <1>1, <1>3 DEF StopClients
<1>5. PICK txns : txns = SubSeq(ewire, 1, k)
  OBVIOUS
<1>6. /\ Committed(txns, then) /\ receiver' = r /\ g.at = "flush"
      /\ g2 = [g EXCEPT !.at = "idle", !.emitted = FALSE, !.lastGen = 0, !.synchronized = FALSE]
  BY <1>1, <1>4, <1>5 DEF StopClients
<1>7. HistoryRec(then) /\ then.late = FALSE /\ then.batches = h.batches
      /\ then.snapshot = h.snapshot
  BY <1>2, <1>3 DEF HistoryRec
<1>8. /\ server'.log = server.log \o txns /\ rwire' = Live(server'.log)
      /\ history'.snapshot = then.snapshot /\ history'.batches = then.batches
      /\ history'.late = then.late
  BY <1>2, <1>6, <1>7, CommittedFields
<1>9. r.at = "none" /\ r.up = FALSE
  BY <1>2, <1>6 DEF Places
<1>10. rwire' \in {rwire, <<>>}
  BY <1>1, <1>8, <1>9 DEF Live
<1>11. IsSeq(server'.log)
  <2>1. IsSeq(txns)
    BY <1>2, <1>5, BeginningSeq
  <2> QED BY <1>8, <2>1, GateFacts, ConcatSeq
<1>12. Leaves(r, r, g, g2)
  <2>1. /\ g2.at \in {"flush", "idle"} /\ g2.last = g.last /\ g2.mark = g.mark
        /\ g2.replayGen = g.replayGen /\ g2.synchronized \in BOOLEAN
    BY <1>2, <1>6 DEF GameRec
  <2> QED BY <1>2, <1>9, <2>1 DEF Leaves
<1>13. Leaves(receiver, receiver', game, game')
  BY <1>1, <1>6, <1>12
<1>14. /\ history'.late \in BOOLEAN /\ history'.batches = history.batches
       /\ history'.snapshot = history.snapshot
  BY <1>1, <1>7, <1>8
<1> QED BY <1>10, <1>11, <1>13, <1>14, NobodyGate

LEMMA ConnectGate == GateInvariant /\ ConnectResolved => GateInvariant'
<1> SUFFICES ASSUME GateInvariant, ConnectResolved PROVE GateInvariant'
  OBVIOUS
<1>1. PICK r, w, g, n, bt, late :
        /\ r = receiver /\ w = rwire /\ g = game /\ n = Len(server.log)
        /\ bt = history.batches /\ late = history.late
  OBVIOUS
<1>2. PICK snapshot \in Nat : snapshot = history.snapshot
  BY GateFacts
<1>3. PICK r2 : r2 = NewSession(snapshot)
  OBVIOUS
<1>4. Gate(r, w, g, n, bt, late)
  BY <1>1, GateFacts
<1>5. /\ g.at = "idle" /\ receiver' = r2 /\ UNCHANGED <<server, rwire, game, history>>
  BY <1>1, <1>2, <1>3 DEF ConnectResolved
<1>6. Gate(r2, w, g, n, bt, late)
  BY <1>3, <1>4, <1>5, NewSessionKeeps
<1> QED BY <1>1, <1>5, <1>6, GateFacts DEF GateInvariant

-----------------------------------------------------------------------------
(* The theorems.                                                            *)

LEMMA GateInit == Init => GateInvariant
<1> SUFFICES ASSUME Init PROVE GateInvariant
  OBVIOUS
<1>1. PICK sc \in Scenarios :
        /\ server = [log |-> sc.log, epoch |-> 0, through |-> 0]
        /\ rwire = <<>> /\ receiver = NewSession(sc.snapshot) /\ game = NewGame
        /\ history.batches = 0 /\ history.late = FALSE /\ history.snapshot = sc.snapshot
  BY DEF Init
<1>2. sc.log \in Seq([slot : Slots, val : Nat \ {0}]) /\ sc.snapshot \in 0..Len(sc.log)
  BY ConstantsAssumption
<1>3. IsSeq(server.log) /\ sc.snapshot \in Nat
  BY <1>1, <1>2 DEF IsSeq
<1>4. PICK snapshot \in Nat : snapshot = sc.snapshot
  BY <1>3
<1>5. PICK r, g : r = receiver /\ g = game
  OBVIOUS
<1>6. /\ ReceiverRec(r) /\ r.at = "begin" /\ r.gen = 0 /\ r.conn = 0 /\ r.received = snapshot
      /\ r.applied = snapshot /\ r.requested = 0 /\ r.sync = 0 /\ r.inbox = <<>>
      /\ r.marker = None /\ r.read = 0 /\ r.batch = 0 /\ r.up = FALSE
  BY <1>1, <1>4, <1>5 DEF NewSession, ReceiverRec
<1>7. g.at = "idle" /\ g.synchronized = FALSE /\ g.replayGen = 0 /\ g.last = 0 /\ g.mark = 0
  BY <1>1, <1>5 DEF NewGame
<1>8. Types(r, g, 0, FALSE)
  <2>1. PICK z \in Nat : z = 0 /\ z <= z
    OBVIOUS
  <2>2. /\ ReceiverRec(r) /\ MarkerRec(r.marker) /\ r.up \in BOOLEAN
        /\ r.gen = z /\ r.conn = z /\ r.requested = z /\ r.sync = z /\ r.read = z
        /\ r.batch = z /\ r.received \in Nat /\ r.applied \in Nat
    BY <1>6, <2>1 DEF MarkerRec
  <2>3. g.replayGen = z /\ g.last = z /\ g.mark = z /\ g.synchronized \in BOOLEAN
    BY <1>7, <2>1
  <2>4. Types(r, g, z, FALSE)
    BY <2>1, <2>2, <2>3 DEF Types
  <2> QED BY <2>1, <2>4
<1>9. Queues(r, <<>>, 0)
  BY <1>6, NothingFacts, NothingIsSeq DEF Queues
<1>10. Places(r, g) /\ Session(r) /\ Opening(r, <<>>, g) /\ ~Connected(r)
  BY <1>6, <1>7 DEF Places, Session, Starting, Opening, Connected, Open, Busy
<1>11. \A n : Gate(r, <<>>, g, n, 0, FALSE)
  BY <1>8, <1>9, <1>10, GateAway
<1> QED BY <1>1, <1>3, <1>5, <1>11 DEF GateInvariant

LEMMA GateStep == GateInvariant /\ EditInvariant /\ [Next]_vars => GateInvariant'
<1> SUFFICES ASSUME GateInvariant, EditInvariant, [Next]_vars PROVE GateInvariant'
  OBVIOUS
<1>1. CASE UNCHANGED vars
  BY <1>1 DEF vars, GateInvariant
<1>2. CASE ReceiverThread
  BY <1>2, BeginGate, HelloGate, ReceiveEventGate, ReceiveResyncGate, ReceiveCompleteGate,
     NothingGate, ReadGate, RequestReplayGate DEF ReceiverThread
<1>3. CASE EmitterThread \/ ServerReject
  BY <1>3, EmitterGate
<1>4. CASE GameThread
  BY <1>4, TickGate, PublishReplayGate, ApplyFrameGate, MarkAppliedGate, RecoverGate,
     EditGate DEF GameThread
<1>5. CASE User
  BY <1>5, EditGate, UserDisconnectGate, StopClientsGate, ConnectGate DEF User
<1>6. CASE Faults
  BY <1>3, <1>6, HelloFailsGate, LossGate, EmitterLossGate, ApplyFailsGate, RewriteGate DEF Faults
<1>7. CASE ServerCommit \/ RemoteCommit
  BY <1>7, ServerCommitGate, RemoteCommitGate
<1> QED BY <1>1, <1>2, <1>3, <1>4, <1>5, <1>6, <1>7 DEF Next

\* The stream of frames between the server and the stage keeps its shape
\* through every step of the receiver thread, the game thread, the emitter
\* thread, the user and the server, for every scenario and queue size.
THEOREM GateInvariance == Spec => []GateInvariant
<1>1. Init => GateInvariant
  BY GateInit
<1>2. GateInvariant /\ (EditInvariant /\ Parted) /\ [Next]_vars => GateInvariant'
  BY GateStep
<1> QED BY <1>1, <1>2, EditInvariance, PTL DEF Spec

LEMMA GateApplied == GateInvariant => GateIsApplied
<1> SUFFICES ASSUME GateInvariant, game.synchronized, ~history.late, receiver.at = "reading",
                    receiver.conn = receiver.gen, game.replayGen = receiver.gen,
                    NEW i \in 1..Len(rwire \o receiver.inbox)
             PROVE  (rwire \o receiver.inbox)[i].b # receiver.batch
  BY DEF GateIsApplied
<1>1. PICK w, q, u : w = rwire /\ q = receiver.inbox /\ u = w \o q
  OBVIOUS
<1>2. Connected(receiver)
  BY DEF Connected
<1>3. Lacks(w, receiver.batch) /\ Lacks(q, receiver.batch)
  BY <1>1, <1>2, GateFacts DEF Gate, Passed
<1>4. IsSeq(w) /\ IsSeq(q)
  BY <1>1, GateFacts DEF Gate, Queues, Frames
<1>5. /\ Len(u) = Len(w) + Len(q) /\ Len(w) \in Nat /\ Len(q) \in Nat
      /\ \A j \in 1..(Len(w) + Len(q)) : u[j] = IF j <= Len(w) THEN w[j] ELSE q[j - Len(w)]
  BY <1>1, <1>4, ConcatSeq, SeqFacts
<1>6. u[i].b # receiver.batch
  <2>1. i \in 1..(Len(w) + Len(q))
    BY <1>1, <1>5
  <2>2. CASE i <= Len(w)
    BY <1>3, <1>5, <2>1, <2>2 DEF Lacks
  <2>3. CASE ~(i <= Len(w))
    <3>1. i - Len(w) \in 1..Len(q) /\ u[i] = q[i - Len(w)]
      BY <1>5, <2>1, <2>3
    <3> QED BY <1>3, <3>1 DEF Lacks
  <2> QED BY <2>2, <2>3
<1> QED BY <1>1, <1>6

LEMMA GateIsDue == GateInvariant => GateOpens
<1> SUFFICES ASSUME GateInvariant, Quiet, ~game.synchronized, game.at \notin Open
             PROVE  TryMarkReplayApplied(receiver)
  BY DEF GateOpens, Open
<1>1. PICK r, w, g, n, bt, late :
        /\ r = receiver /\ w = rwire /\ g = game /\ n = Len(server.log)
        /\ bt = history.batches /\ late = history.late
  OBVIOUS
<1>2. /\ Connected(r) /\ r.up /\ w = <<>> /\ r.inbox = <<>>
      /\ g.at \notin {"applied", "recover"} /\ ~g.synchronized /\ g.at \notin Open
  BY <1>1 DEF Quiet, Connected
<1>3. Gate(r, w, g, n, bt, late)
  BY <1>1, GateFacts
<1>4. Marking(r, w) /\ Stream(r, w, g, n) /\ Due(r, w, g)
  BY <1>2, <1>3 DEF Gate
<1>5. Types(r, g, bt, late) /\ MarkerRec(r.marker)
  BY <1>3 DEF Gate, Types
<1>6. ~Completed(w) /\ Len(r.inbox) = 0
  BY <1>2, NothingIsSeq DEF Completed
<1>7. r.marker # None
  BY <1>2, <1>4, <1>6 DEF Due
<1>8. r.marker.left \in Nat /\ r.marker.head \in Nat
  BY <1>5, <1>7 DEF MarkerRec
<1>9. r.marker.left = 0
  BY <1>4, <1>6, <1>7, <1>8 DEF Marking
<1>10. r.received = r.applied
  BY <1>2, <1>4, <1>6 DEF Stream, Cursor, End
<1>11. r.marker.head <= r.received
  BY <1>4, <1>7 DEF Marking
<1>12. r.applied \in Nat
  BY <1>5 DEF Types
<1> QED BY <1>1, <1>7, <1>8, <1>9, <1>10, <1>11, <1>12 DEF TryMarkReplayApplied

\* The gate of native edits follows the replay (PublishReplayIfApplied,
\* OnReceiverReplayGenerationChanged): it is open only once everything of the
\* replay the receiver thread learnt of is applied on the game thread, and a
\* receiver with nothing on its way has it open or about to be opened.
THEOREM GateAlwaysFollows == Spec => []GateFollowsReplay
<1>1. GateInvariant => GateFollowsReplay
  BY GateApplied, GateIsDue DEF GateFollowsReplay
<1> QED BY <1>1, GateInvariance, PTL

=============================================================================
