------------------------- MODULE UnrealClientProofs -------------------------
(***************************************************************************)
(* What the Unreal plugin does with its user's edits, for every scenario,  *)
(* every size of its queues and any number of losses, rejections and       *)
(* disconnections: no edit is forgotten before it is submitted, and every  *)
(* submitted transaction is committed once and in order or is still in the *)
(* outbox (EditsKept).                                                     *)
(*                                                                         *)
(* The values of edits and records play no part, so nothing is assumed of  *)
(* them: a sequence is a sequence over some set.                           *)
(***************************************************************************)
EXTENDS UnrealClient, SequenceTheorems, TLAPS

-----------------------------------------------------------------------------
(* Sequences and records.                                                   *)

IsSeq(s) == \E X : s \in Seq(X)

ServerRec(s) == s = [log |-> s.log, epoch |-> s.epoch, through |-> s.through]

EmitterRec(e) ==
    e = [at |-> e.at, outbox |-> e.outbox, sent |-> e.sent, acked |-> e.acked,
         recovery |-> e.recovery, stop |-> e.stop, gen |-> e.gen]

GameRec(g) ==
    g = [at |-> g.at, attached |-> g.attached, synchronized |-> g.synchronized,
         replayGen |-> g.replayGen, pending |-> g.pending, emitted |-> g.emitted,
         lastGen |-> g.lastGen, todo |-> g.todo, last |-> g.last, mark |-> g.mark,
         token |-> g.token]

HistoryRec(h) ==
    h = [made |-> h.made, owed |-> h.owed, stray |-> h.stray, submitted |-> h.submitted,
         committed |-> h.committed, batches |-> h.batches, late |-> h.late,
         snapshot |-> h.snapshot, epoch |-> h.epoch, edited |-> h.edited, wait |-> h.wait]

-----------------------------------------------------------------------------
(* The inductive invariant.                                                 *)

Shapes ==
    /\ ServerRec(server) /\ EmitterRec(emitter) /\ GameRec(game) /\ HistoryRec(history)
    /\ IsSeq(history.submitted) /\ IsSeq(replies) /\ IsSeq(ewire)
    /\ DOMAIN stage = Slots /\ DOMAIN history.owed = Slots
    /\ stage = [s \in Slots |-> stage[s]]
    /\ history.owed = [s \in Slots |-> history.owed[s]]
    /\ history.edited \subseteq Slots

\* What was submitted is what was committed and what the outbox holds; the
\* acknowledgements never run ahead of the server.
ProducerOK ==
    /\ emitter.acked \in Nat /\ emitter.sent \in Nat /\ server.through \in Nat
    /\ emitter.acked <= server.through /\ server.through <= Len(history.submitted)
    /\ emitter.acked + emitter.sent <= Len(history.submitted)
    /\ emitter.outbox = SubSeq(history.submitted, emitter.acked + 1, Len(history.submitted))
    /\ history.committed = SubSeq(history.submitted, 1, server.through)

\* The answers in flight: one for each transaction the server has and the
\* outbox does not know of, then rejections.
Outstanding == server.through - emitter.acked

RepliesOK ==
    /\ Outstanding <= Len(replies)
    /\ \A i \in 1..Len(replies) :
            /\ i <= Outstanding => replies[i].ok /\ replies[i].id = emitter.acked + i
            /\ i > Outstanding => ~replies[i].ok

\* A connected emitter: unless something was rejected, the wire carries what
\* was sent and not committed.  Otherwise nothing is on the wire.
WireOK ==
    /\ emitter.at = "ready" =>
          /\ ~emitter.recovery
          /\ server.through <= emitter.acked + emitter.sent
          /\ RepliesOK
          /\ InSequence => ewire = SubSeq(history.submitted, server.through + 1,
                                          emitter.acked + emitter.sent)
    /\ emitter.at # "ready" => ewire = <<>> /\ (emitter.recovery \/ replies = <<>>)

\* An edit the listener saw is on the stage and will be looked at.
OwedOK ==
    /\ game.at # "emit" => game.todo = {}
    /\ \A s \in Owed : stage[s] = history.owed[s]
                        /\ (PathOf[s] \in game.pending \/ s \in game.todo)

EditInvariant == Shapes /\ ProducerOK /\ WireOK /\ OwedOK

-----------------------------------------------------------------------------
(* Facts about sequences.                                                   *)

LEMMA SeqFacts ==
    ASSUME NEW s, IsSeq(s)
    PROVE  Len(s) \in Nat /\ DOMAIN s = 1..Len(s) /\ s = [i \in 1..Len(s) |-> s[i]]
<1>1. PICK X : s \in Seq(X)
  BY DEF IsSeq
<1> QED BY <1>1

LEMMA AppendSeq ==
    ASSUME NEW s, IsSeq(s), NEW x
    PROVE  /\ IsSeq(Append(s, x)) /\ Len(Append(s, x)) = Len(s) + 1
           /\ \A i \in 1..Len(s) : Append(s, x)[i] = s[i]
           /\ Append(s, x)[Len(s) + 1] = x
<1>1. PICK X : s \in Seq(X)
  BY DEF IsSeq
<1>2. s \in Seq(X \cup {x}) /\ x \in X \cup {x}
  <2>1. \A i \in 1..Len(s) : s[i] \in X \cup {x}
    BY <1>1
  <2> QED BY <1>1, <2>1, SeqFacts, IsASeq
<1>3. Append(s, x) \in Seq(X \cup {x})
  BY <1>2, AppendProperties
<1> QED BY <1>2, <1>3, AppendProperties DEF IsSeq

LEMMA NothingIsSeq == IsSeq(<<>>) /\ Len(<<>>) = 0
<1> DEFINE X == {}
<1>1. <<>> \in Seq(X)
  OBVIOUS
<1> QED BY <1>1 DEF IsSeq

LEMMA PartSeq ==
    ASSUME NEW s, IsSeq(s), NEW m \in Int, NEW n \in Int, m >= 1, n <= Len(s)
    PROVE  /\ IsSeq(SubSeq(s, m, n))
           /\ Len(SubSeq(s, m, n)) = IF m <= n THEN n - m + 1 ELSE 0
           /\ \A i \in 1..(n - m + 1) : SubSeq(s, m, n)[i] = s[m + i - 1]
           /\ n < m => SubSeq(s, m, n) = <<>>
<1>1. PICK X : s \in Seq(X)
  BY DEF IsSeq
<1>2. CASE m <= n
  <2>1. m \in 1..Len(s) /\ n \in (m-1)..Len(s)
    BY <1>1, <1>2
  <2>2. SubSeq(s, m, n) \in Seq(X) /\ Len(SubSeq(s, m, n)) = n - m + 1
        /\ \A i \in 1..(n - m + 1) : SubSeq(s, m, n)[i] = s[m + i - 1]
    BY <1>1, <1>2, <2>1, SubSeqProperties
  <2>3. IsSeq(SubSeq(s, m, n))
    BY <2>2 DEF IsSeq
  <2>4. ~(n < m)
    BY <1>2
  <2> QED BY <1>2, <2>2, <2>3, <2>4
<1>3. CASE n < m
  <2>1. SubSeq(s, m, n) = <<>>
    BY <1>1, <1>3
  <2>2. 1..(n - m + 1) = {}
    BY <1>3
  <2> QED BY <1>3, <2>1, <2>2, NothingIsSeq
<1> QED BY <1>2, <1>3

LEMMA ExtensionalSeq ==
    ASSUME NEW s, NEW t, IsSeq(s), IsSeq(t), Len(s) = Len(t),
           \A i \in 1..Len(s) : s[i] = t[i]
    PROVE  s = t
BY SeqFacts

LEMMA ConcatSeq ==
    ASSUME NEW s, NEW t, IsSeq(s), IsSeq(t)
    PROVE  /\ IsSeq(s \o t) /\ Len(s \o t) = Len(s) + Len(t)
           /\ \A i \in 1..(Len(s) + Len(t)) :
                (s \o t)[i] = IF i <= Len(s) THEN s[i] ELSE t[i - Len(s)]
<1>1. PICK X, Y : s \in Seq(X) /\ t \in Seq(Y)
  BY DEF IsSeq
<1>2. s \in Seq(X \cup Y) /\ t \in Seq(X \cup Y)
  BY <1>1, SeqMonotonic
<1>3. s \o t \in Seq(X \cup Y)
  BY <1>2, ConcatProperties
<1> QED BY <1>2, <1>3, ConcatProperties DEF IsSeq

\* The first of a part of a sequence, and the rest.
LEMMA PartHead ==
    ASSUME NEW s, IsSeq(s), NEW a \in Nat, NEW b \in Nat, a < b, b <= Len(s)
    PROVE  /\ SubSeq(s, a + 1, b) # <<>>
           /\ Head(SubSeq(s, a + 1, b)) = s[a + 1]
           /\ Tail(SubSeq(s, a + 1, b)) = SubSeq(s, a + 2, b)
<1>1. PICK X : s \in Seq(X)
  BY DEF IsSeq
<1>2. a + 1 \in 1..Len(s) /\ b \in (a + 1)..Len(s) /\ (a + 1) + 1 = a + 2
  BY <1>1
<1>3. Len(SubSeq(s, a + 1, b)) = b - a
  BY <1>2, PartSeq
<1>4. SubSeq(s, a + 1, b) # <<>>
  BY <1>3, NothingIsSeq
<1> QED BY <1>1, <1>2, <1>4, HeadTailOfSubSeq

LEMMA PartDrop ==
    ASSUME NEW s, IsSeq(s), NEW a \in Nat, NEW k \in Nat, a + k <= Len(s)
    PROVE  SubSeq(SubSeq(s, a + 1, Len(s)), k + 1, Len(SubSeq(s, a + 1, Len(s)))) =
           SubSeq(s, a + k + 1, Len(s))
<1> DEFINE p == SubSeq(s, a + 1, Len(s))
           q == SubSeq(p, k + 1, Len(p))
           r == SubSeq(s, a + k + 1, Len(s))
<1>1. Len(s) \in Nat
  BY SeqFacts
<1>2. IsSeq(p) /\ Len(p) = Len(s) - a /\ \A i \in 1..(Len(s) - a) : p[i] = s[a + i]
  BY <1>1, PartSeq
<1>3. IsSeq(r) /\ Len(r) = Len(s) - (a + k) /\ \A i \in 1..(Len(s) - (a + k)) : r[i] = s[a + k + i]
  BY <1>1, PartSeq
<1> HIDE DEF p, r
<1>4. IsSeq(q) /\ Len(q) = Len(p) - k /\ \A i \in 1..(Len(p) - k) : q[i] = p[k + i]
  <2>1. PICK l : l = Len(p)
    OBVIOUS
  <2>2. l \in Int /\ k + 1 \in Int /\ k + 1 >= 1 /\ k <= l
    BY <1>1, <1>2, <2>1
  <2>3. /\ IsSeq(q) /\ Len(q) = IF k + 1 <= l THEN l - (k + 1) + 1 ELSE 0
        /\ \A i \in 1..(l - (k + 1) + 1) : q[i] = p[(k + 1) + i - 1]
    BY <1>2, <2>1, <2>2, PartSeq
  <2> HIDE DEF q
  <2>4. l - (k + 1) + 1 = l - k /\ \A i \in Int : (k + 1) + i - 1 = k + i
    BY <2>2
  <2>5. Len(q) = l - k
    BY <2>2, <2>3, <2>4
  <2>6. ASSUME NEW i \in 1..(l - k) PROVE q[i] = p[k + i]
    <3>1. i \in 1..(l - (k + 1) + 1) /\ (k + 1) + i - 1 = k + i
      BY <2>2, <2>4
    <3> QED BY <2>3, <3>1
  <2> QED BY <2>1, <2>3, <2>5, <2>6
<1> HIDE DEF q
<1>5. Len(q) = Len(r)
  BY <1>1, <1>2, <1>3, <1>4
<1>6. \A i \in 1..Len(q) : q[i] = r[i]
  <2> SUFFICES ASSUME NEW i \in 1..Len(q) PROVE q[i] = r[i]
    OBVIOUS
  <2>1. q[i] = p[k + i] /\ k + i \in 1..(Len(s) - a)
    BY <1>1, <1>2, <1>4
  <2>2. p[k + i] = s[a + (k + i)] /\ a + (k + i) = a + k + i
    BY <1>2, <2>1
  <2>3. r[i] = s[a + k + i]
    BY <1>1, <1>2, <1>3, <1>4
  <2> QED BY <2>1, <2>2, <2>3
<1>7. q = r
  BY <1>3, <1>4, <1>5, <1>6, ExtensionalSeq
<1> QED BY <1>7 DEF p, q, r

LEMMA PartOfLonger ==
    ASSUME NEW s, IsSeq(s), NEW x, NEW a \in Nat, NEW b \in Nat, b <= Len(s)
    PROVE  SubSeq(Append(s, x), a + 1, b) = SubSeq(s, a + 1, b)
<1> DEFINE l == Append(s, x)
           p == SubSeq(l, a + 1, b)
           q == SubSeq(s, a + 1, b)
<1>1. Len(s) \in Nat
  BY SeqFacts
<1>2. IsSeq(l) /\ Len(l) = Len(s) + 1 /\ \A i \in 1..Len(s) : l[i] = s[i]
  BY AppendSeq
<1> HIDE DEF l
<1>3. /\ IsSeq(p) /\ Len(p) = IF a + 1 <= b THEN b - a ELSE 0
      /\ \A i \in 1..(b - a) : p[i] = l[a + i]
  BY <1>1, <1>2, PartSeq
<1> HIDE DEF p
<1>4. /\ IsSeq(q) /\ Len(q) = IF a + 1 <= b THEN b - a ELSE 0
      /\ \A i \in 1..(b - a) : q[i] = s[a + i]
  <2>1. /\ IsSeq(q) /\ Len(q) = IF a + 1 <= b THEN b - (a + 1) + 1 ELSE 0
        /\ \A i \in 1..(b - (a + 1) + 1) : q[i] = s[(a + 1) + i - 1]
    BY <1>1, PartSeq
  <2> HIDE DEF q
  <2>2. b - (a + 1) + 1 = b - a /\ \A i \in Int : (a + 1) + i - 1 = a + i
    OBVIOUS
  <2> QED BY <2>1, <2>2
<1> HIDE DEF p, q
<1>5. \A i \in 1..Len(p) : p[i] = q[i]
  <2> SUFFICES ASSUME NEW i \in 1..Len(p) PROVE p[i] = q[i]
    OBVIOUS
  <2>1. i \in 1..(b - a) /\ a + i \in 1..Len(s)
    BY <1>1, <1>3
  <2> QED BY <1>2, <1>3, <1>4, <2>1
<1>6. p = q
  BY <1>3, <1>4, <1>5, ExtensionalSeq
<1> QED BY <1>6 DEF p, q, l

\* The next element is added to a part.
LEMMA PartGrows ==
    ASSUME NEW s, IsSeq(s), NEW a \in Nat, NEW b \in Nat, a <= b, b < Len(s)
    PROVE  Append(SubSeq(s, a + 1, b), s[b + 1]) = SubSeq(s, a + 1, b + 1)
<1> DEFINE p == SubSeq(s, a + 1, b)
           q == SubSeq(s, a + 1, b + 1)
           l == Append(p, s[b + 1])
<1>1. Len(s) \in Nat
  BY SeqFacts
<1>2. IsSeq(p) /\ Len(p) = b - a /\ \A i \in 1..(b - a) : p[i] = s[a + i]
  BY <1>1, PartSeq
<1>3. IsSeq(q) /\ Len(q) = b - a + 1 /\ \A i \in 1..(b - a + 1) : q[i] = s[a + i]
  BY <1>1, PartSeq
<1> HIDE DEF p, q
<1>4. /\ IsSeq(l) /\ Len(l) = Len(p) + 1
      /\ \A i \in 1..Len(p) : l[i] = p[i]
      /\ l[Len(p) + 1] = s[b + 1]
  BY <1>2, AppendSeq
<1> HIDE DEF l
<1>5. \A i \in 1..Len(l) : l[i] = q[i]
  <2> SUFFICES ASSUME NEW i \in 1..Len(l) PROVE l[i] = q[i]
    OBVIOUS
  <2>1. i \in 1..(b - a) \/ i = b - a + 1
    BY <1>2, <1>4
  <2>2. CASE i \in 1..(b - a)
    BY <1>2, <1>3, <1>4, <2>2
  <2>3. CASE i = b - a + 1
    <3>1. a + i = b + 1 /\ i \in 1..(b - a + 1)
      BY <2>3
    <3> QED BY <1>2, <1>3, <1>4, <2>3, <3>1
  <2> QED BY <2>1, <2>2, <2>3
<1>6. l = q
  BY <1>2, <1>3, <1>4, <1>5, ExtensionalSeq
<1> QED BY <1>6 DEF l, p, q

\* The end of a sequence grows with it.
LEMMA EndGrows ==
    ASSUME NEW s, IsSeq(s), NEW x, NEW a \in Nat, a <= Len(s)
    PROVE  Append(SubSeq(s, a + 1, Len(s)), x) = SubSeq(Append(s, x), a + 1, Len(Append(s, x)))
<1> DEFINE l == Append(s, x)
<1>1. Len(s) \in Nat
  BY SeqFacts
<1>2. IsSeq(l) /\ Len(l) = Len(s) + 1 /\ l[Len(s) + 1] = x
  BY AppendSeq
<1>3. SubSeq(l, a + 1, Len(s)) = SubSeq(s, a + 1, Len(s))
  BY <1>1, PartOfLonger
<1> HIDE DEF l
<1>4. Append(SubSeq(l, a + 1, Len(s)), l[Len(s) + 1]) = SubSeq(l, a + 1, Len(s) + 1)
  BY <1>1, <1>2, PartGrows
<1> QED BY <1>2, <1>3, <1>4 DEF l

\* A beginning and a part that continues it.
LEMMA BeginningGrows ==
    ASSUME NEW s, IsSeq(s), NEW a \in Nat, NEW b \in Nat, NEW k \in Nat,
           a + k <= b, b <= Len(s)
    PROVE  /\ Len(SubSeq(SubSeq(s, a + 1, b), 1, k)) = k
           /\ SubSeq(s, 1, a) \o SubSeq(SubSeq(s, a + 1, b), 1, k) = SubSeq(s, 1, a + k)
<1> DEFINE p == SubSeq(s, a + 1, b)
           q == SubSeq(p, 1, k)
           f == SubSeq(s, 1, a)
           g == SubSeq(s, 1, a + k)
<1>1. Len(s) \in Nat /\ a <= Len(s) /\ a + k <= Len(s)
  BY SeqFacts
<1>2. IsSeq(p) /\ Len(p) = b - a /\ \A i \in 1..(b - a) : p[i] = s[a + i]
  BY <1>1, PartSeq
<1>3. IsSeq(f) /\ Len(f) = a /\ \A i \in 1..a : f[i] = s[i]
  BY <1>1, PartSeq
<1>4. IsSeq(g) /\ Len(g) = a + k /\ \A i \in 1..(a + k) : g[i] = s[i]
  BY <1>1, PartSeq
<1> HIDE DEF p, f, g
<1>5. IsSeq(q) /\ Len(q) = k /\ \A i \in 1..k : q[i] = p[i]
  BY <1>2, PartSeq
<1> HIDE DEF q
<1>6. /\ IsSeq(f \o q) /\ Len(f \o q) = Len(f) + Len(q)
      /\ \A i \in 1..(Len(f) + Len(q)) : (f \o q)[i] = IF i <= Len(f) THEN f[i] ELSE q[i - Len(f)]
  BY <1>3, <1>5, ConcatSeq
<1>7. \A i \in 1..Len(f \o q) : (f \o q)[i] = g[i]
  <2> SUFFICES ASSUME NEW i \in 1..(a + k) PROVE (f \o q)[i] = g[i]
    BY <1>3, <1>5, <1>6
  <2>1. (f \o q)[i] = IF i <= a THEN f[i] ELSE q[i - a]
    BY <1>3, <1>5, <1>6
  <2>2. CASE i <= a
    BY <1>3, <1>4, <2>1, <2>2
  <2>3. CASE i > a
    <3>1. i - a \in 1..k /\ i - a \in 1..(b - a) /\ a + (i - a) = i
      BY <2>3
    <3>2. q[i - a] = p[i - a] /\ p[i - a] = s[a + (i - a)]
      BY <1>2, <1>5, <3>1
    <3> QED BY <1>4, <2>1, <2>3, <3>1, <3>2
  <2>4. i <= a \/ i > a
    OBVIOUS
  <2> QED BY <2>2, <2>3, <2>4
<1>8. f \o q = g
  BY <1>3, <1>4, <1>5, <1>6, <1>7, ExtensionalSeq
<1> QED BY <1>5, <1>8 DEF f, q, g, p

LEMMA BeginningGrowsByOne ==
    ASSUME NEW s, IsSeq(s), NEW a \in Nat, a < Len(s)
    PROVE  SubSeq(s, 1, a) \o <<s[a + 1]>> = SubSeq(s, 1, a + 1)
<1>1. PICK X : s \in Seq(X)
  BY DEF IsSeq
<1>2. a + 1 \in 1..Len(s) /\ 1 \in 1..Len(s) /\ a + 1 \in 1..Len(s) /\ (a + 1) - 1 = a
  BY <1>1
<1> QED BY <1>1, <1>2, SubSeqRecursiveSecond

LEMMA TailSeq ==
    ASSUME NEW s, IsSeq(s), s # <<>>
    PROVE  /\ IsSeq(Tail(s)) /\ Len(Tail(s)) = Len(s) - 1 /\ Len(s) > 0
           /\ \A i \in 1..(Len(s) - 1) : Tail(s)[i] = s[i + 1]
           /\ Head(s) = s[1]
<1>1. PICK X : s \in Seq(X)
  BY DEF IsSeq
<1>2. Tail(s) \in Seq(X) /\ Len(Tail(s)) = Len(s) - 1
      /\ \A i \in 1..Len(Tail(s)) : Tail(s)[i] = s[i + 1]
  BY <1>1, HeadTailProperties
<1>3. Len(s) > 0
  BY <1>1
<1> QED BY <1>1, <1>2, <1>3 DEF IsSeq

-----------------------------------------------------------------------------
(* What an action leaves alone.                                             *)

LEMMA SameProducer ==
    ASSUME ProducerOK, WireOK,
           server'.through = server.through,
           emitter'.at = emitter.at, emitter'.outbox = emitter.outbox,
           emitter'.sent = emitter.sent, emitter'.acked = emitter.acked,
           emitter'.recovery = emitter.recovery,
           history'.submitted = history.submitted, history'.committed = history.committed,
           ewire' = ewire, replies' = replies
    PROVE  ProducerOK' /\ WireOK'
<1>1. ProducerOK'
  BY DEF ProducerOK
<1>2. WireOK'
  BY DEF WireOK, RepliesOK, Outstanding, InSequence
<1> QED BY <1>1, <1>2

LEMMA SameOwed ==
    ASSUME OwedOK, stage' = stage, history'.owed = history.owed,
           game'.pending = game.pending, game'.todo = game.todo,
           game'.at = "emit" <=> game.at = "emit"
    PROVE  OwedOK'
BY DEF OwedOK, Owed

\* Most steps only change the gate, the receiver and what the history says
\* of them.
LEMMA SameEdits ==
    ASSUME EditInvariant, UNCHANGED <<emitter, ewire, replies, stage>>,
           ServerRec(server'), server'.through = server.through,
           GameRec(game'), game'.pending = game.pending, game'.todo = game.todo,
           game'.at = "emit" <=> game.at = "emit",
           HistoryRec(history'), history'.owed = history.owed,
           history'.submitted = history.submitted, history'.committed = history.committed,
           history'.edited = history.edited
    PROVE  EditInvariant'
<1>1. Shapes /\ ProducerOK /\ WireOK /\ OwedOK
  BY DEF EditInvariant
<1>2. Shapes'
  BY <1>1 DEF Shapes
<1> QED BY <1>1, <1>2, SameProducer, SameOwed DEF EditInvariant

LEMMA GenerationChangedFields ==
    ASSUME NEW g, GameRec(g), NEW n
    PROVE  /\ GameRec(GenerationChanged(g, n))
           /\ GenerationChanged(g, n).at = g.at
           /\ GenerationChanged(g, n).pending = g.pending
           /\ GenerationChanged(g, n).todo = g.todo
           /\ GenerationChanged(g, n).token = g.token
<1> DEFINE a == IF n > g.replayGen THEN n ELSE g.replayGen
           b == g.synchronized /\ n < g.replayGen
<1>1. GenerationChanged(g, n) = [g EXCEPT !.replayGen = a, !.synchronized = b]
  BY DEF GenerationChanged
<1> HIDE DEF a, b
<1>2. GenerationChanged(g, n) =
        [at |-> g.at, attached |-> g.attached, synchronized |-> b,
         replayGen |-> a, pending |-> g.pending, emitted |-> g.emitted,
         lastGen |-> g.lastGen, todo |-> g.todo, last |-> g.last, mark |-> g.mark,
         token |-> g.token]
  BY <1>1 DEF GameRec
<1> QED BY <1>2 DEF GameRec

LEMMA ClosesFields ==
    ASSUME HistoryRec(history), NEW g
    PROVE  /\ HistoryRec(Closes(g))
           /\ Closes(g).owed = history.owed /\ Closes(g).submitted = history.submitted
           /\ Closes(g).committed = history.committed /\ Closes(g).edited = history.edited
           /\ Closes(g).stray = history.stray
<1> DEFINE late == history.late /\ g.synchronized
<1>1. Closes(g) = [history EXCEPT !.late = late]
  BY DEF Closes
<1> HIDE DEF late
<1>2. Closes(g) =
        [made |-> history.made, owed |-> history.owed, stray |-> history.stray,
         submitted |-> history.submitted, committed |-> history.committed,
         batches |-> history.batches, late |-> late, snapshot |-> history.snapshot,
         epoch |-> history.epoch, edited |-> history.edited, wait |-> history.wait]
  BY <1>1 DEF HistoryRec
<1> QED BY <1>2 DEF HistoryRec

-----------------------------------------------------------------------------
(* Steps that concern the receiver.                                         *)

LEMMA EditFacts ==
    ASSUME EditInvariant
    PROVE  /\ ServerRec(server) /\ EmitterRec(emitter) /\ GameRec(game) /\ HistoryRec(history)
           /\ IsSeq(history.submitted) /\ IsSeq(replies) /\ IsSeq(ewire)
           /\ Shapes /\ ProducerOK /\ WireOK /\ OwedOK
BY DEF EditInvariant, Shapes

LEMMA StillEdits ==
    ASSUME EditInvariant, UNCHANGED <<server, emitter, ewire, replies, game, stage, history>>
    PROVE  EditInvariant'
BY EditFacts, SameEdits

\* A step that closes the gate, if the generation is new.
LEMMA GateSteps ==
    ASSUME EditInvariant, UNCHANGED <<server, emitter, ewire, replies, stage>>,
           NEW n, game' = GenerationChanged(game, n), history' = Closes(game')
    PROVE  EditInvariant'
<1>1. /\ GameRec(game') /\ game'.at = game.at
      /\ game'.pending = game.pending /\ game'.todo = game.todo
  BY EditFacts, GenerationChangedFields
<1>2. /\ HistoryRec(history') /\ history'.owed = history.owed
      /\ history'.submitted = history.submitted /\ history'.committed = history.committed
      /\ history'.edited = history.edited
  BY EditFacts, ClosesFields
<1> QED BY <1>1, <1>2, EditFacts, SameEdits

LEMMA HelloSteps == EditInvariant /\ ReceiverHello => EditInvariant'
<1> SUFFICES ASSUME EditInvariant, ReceiverHello PROVE EditInvariant'
  OBVIOUS
<1>1. PICK g : g = GenerationChanged(game, receiver.conn)
  OBVIOUS
<1>2. PICK h : h = Closes(g)
  OBVIOUS
<1>3. PICK b, y : history' = [h EXCEPT !.batches = b, !.stray = y]
  BY <1>1, <1>2 DEF ReceiverHello
<1>4. game' = [g EXCEPT !.token = TRUE] /\ UNCHANGED <<server, emitter, ewire, replies, stage>>
  BY <1>1 DEF ReceiverHello
<1>5. GameRec(g) /\ g.at = game.at /\ g.pending = game.pending /\ g.todo = game.todo
  BY <1>1, EditFacts, GenerationChangedFields
<1>6. /\ GameRec(game') /\ game'.at = game.at
      /\ game'.pending = game.pending /\ game'.todo = game.todo
  BY <1>4, <1>5 DEF GameRec
<1>7. /\ HistoryRec(h) /\ h.owed = history.owed /\ h.submitted = history.submitted
      /\ h.committed = history.committed /\ h.edited = history.edited
  BY <1>2, EditFacts, ClosesFields
<1>8. /\ HistoryRec(history') /\ history'.owed = history.owed
      /\ history'.submitted = history.submitted /\ history'.committed = history.committed
      /\ history'.edited = history.edited
  BY <1>3, <1>7 DEF HistoryRec
<1> QED BY <1>4, <1>6, <1>8, EditFacts, SameEdits

LEMMA ReceiverThreadSteps ==
    ASSUME EditInvariant, ReceiverThread \/ ReceiverHelloFails \/ ReceiverLoss
    PROVE  EditInvariant'
<1>1. CASE ReceiverBegin \/ ReceiveEvent \/ ReceiveComplete \/ ReceiveNothing \/ ReadApplied
           \/ ReceiverHelloFails \/ ReceiverLoss
  <2>1. UNCHANGED <<server, emitter, ewire, replies, game, stage, history>>
    BY <1>1 DEF ReceiverBegin, ReceiveEvent, ReceiveComplete, ReceiveNothing, ReadApplied,
       ReceiverHelloFails, ReceiverLoss
  <2> QED BY <2>1, StillEdits
<1>2. CASE ReceiverHello
  BY <1>2, HelloSteps
<1>3. CASE ReceiveResync
  <2>1. /\ game' = GenerationChanged(game, receiver.conn) /\ history' = Closes(game')
        /\ UNCHANGED <<server, emitter, ewire, replies, stage>>
    BY <1>3 DEF ReceiveResync
  <2> QED BY <2>1, GateSteps
<1>4. CASE RequestReplay
  <2>1. /\ game' = GenerationChanged(game, receiver'.gen) /\ history' = Closes(game')
        /\ UNCHANGED <<server, emitter, ewire, replies, stage>>
    BY <1>4 DEF RequestReplay
  <2>2. PICK n : n = receiver'.gen
    OBVIOUS
  <2> QED BY <2>1, <2>2, GateSteps
<1> QED BY <1>1, <1>2, <1>3, <1>4 DEF ReceiverThread

\* A step of the game thread that leaves the edits alone.
LEMMA GameMoves ==
    ASSUME EditInvariant, UNCHANGED <<server, emitter, ewire, replies, stage, history>>,
           GameRec(game'), game'.pending = game.pending, game'.todo = game.todo,
           game'.at # "emit", game.at # "emit"
    PROVE  EditInvariant'
BY EditFacts, SameEdits

LEMMA PublishSteps ==
    ASSUME EditInvariant, NEW nth \in {1, 2}, PublishReplayIfApplied(nth), game.at # "emit",
           UNCHANGED <<server, emitter, ewire, replies, stage, history>>
    PROVE  EditInvariant'
<1>1. CASE TryMarkReplayApplied(receiver)
  <2> PICK m : m = receiver.batch
    OBVIOUS
  <2>1. PICK a \in {"open1", "open2"} :
          game' = [game EXCEPT !.at = a, !.attached = TRUE, !.mark = m]
    BY <1>1 DEF PublishReplayIfApplied
  <2>2. GameRec(game') /\ game'.at = a /\ game'.pending = game.pending /\ game'.todo = game.todo
    BY <2>1, EditFacts DEF GameRec
  <2> QED BY <2>1, <2>2, GameMoves
<1>2. CASE ~TryMarkReplayApplied(receiver)
  <2> PICK l : l = receiver.applied
    OBVIOUS
  <2>1. PICK a \in {"first", "drain"} :
          game' = [game EXCEPT !.at = a, !.attached = TRUE, !.last = l]
    BY <1>2 DEF PublishReplayIfApplied
  <2>2. GameRec(game') /\ game'.at = a /\ game'.pending = game.pending /\ game'.todo = game.todo
    BY <2>1, EditFacts DEF GameRec
  <2> QED BY <2>1, <2>2, GameMoves
<1> QED BY <1>1, <1>2

LEMMA TickSteps == EditInvariant /\ (Tick \/ ApplyStops \/ PublishReplay) => EditInvariant'
<1> SUFFICES ASSUME EditInvariant, Tick \/ ApplyStops \/ PublishReplay PROVE EditInvariant'
  OBVIOUS
<1>1. CASE Tick
  <2>1. game.at = "idle" /\ UNCHANGED <<server, emitter, ewire, replies, stage, history>>
    BY <1>1 DEF Tick
  <2>2. CASE receiver.at # "none"
    BY <1>1, <2>1, <2>2, PublishSteps DEF Tick
  <2>3. CASE receiver.at = "none"
    <3>1. game' = [game EXCEPT !.attached = TRUE, !.at = "drain"]
      BY <1>1, <2>3 DEF Tick
    <3>2. GameRec(game') /\ game'.at = "drain" /\ game'.pending = game.pending
          /\ game'.todo = game.todo
      BY <3>1, EditFacts DEF GameRec
    <3> QED BY <2>1, <3>2, GameMoves
  <2> QED BY <2>2, <2>3
<1>2. CASE ApplyStops
  <2>1. /\ game.at \in {"apply", "first"} /\ PublishReplayIfApplied(2)
        /\ UNCHANGED <<server, emitter, ewire, replies, stage, history>>
    BY <1>2 DEF ApplyStops
  <2> QED BY <2>1, PublishSteps
<1>3. CASE PublishReplay
  <2> PICK l : l = receiver.applied
    OBVIOUS
  <2>1. PICK a \in {"first", "drain"} :
          game' = [game EXCEPT !.synchronized = TRUE, !.last = l, !.at = a]
    BY <1>3 DEF PublishReplay
  <2>2. PICK late : history' = [history EXCEPT !.late = late]
    BY <1>3 DEF PublishReplay
  <2>3. GameRec(game') /\ game'.at = a /\ game'.pending = game.pending /\ game'.todo = game.todo
    BY <2>1, EditFacts DEF GameRec
  <2>4. /\ HistoryRec(history') /\ history'.owed = history.owed
        /\ history'.submitted = history.submitted /\ history'.committed = history.committed
        /\ history'.edited = history.edited
    BY <2>2, EditFacts DEF HistoryRec
  <2>5. game.at # "emit" /\ UNCHANGED <<server, emitter, ewire, replies, stage>>
    BY <1>3 DEF PublishReplay
  <2> QED BY <2>1, <2>3, <2>4, <2>5, EditFacts, SameEdits
<1> QED BY <1>1, <1>2, <1>3

\* A received record overwrites its slot, and the edit that was owed for it.
LEMMA ApplySteps == EditInvariant /\ ApplyFrame => EditInvariant'
<1> SUFFICES ASSUME EditInvariant, ApplyFrame PROVE EditInvariant'
  OBVIOUS
<1>0. game.at # "emit" /\ UNCHANGED <<server, emitter, ewire, replies>>
  BY DEF ApplyFrame
<1>1. PICK f : f = Head(receiver.inbox)
  OBVIOUS
<1>2. CASE f.t = "resync"
  <2>1. /\ game' = [game EXCEPT !.at = "apply", !.last = 0, !.synchronized = FALSE]
        /\ history' = Closes(game') /\ stage' = stage
    BY <1>1, <1>2 DEF ApplyFrame
  <2>2. GameRec(game') /\ game'.at = "apply" /\ game'.pending = game.pending
        /\ game'.todo = game.todo
    BY <2>1, EditFacts DEF GameRec
  <2>3. /\ HistoryRec(history') /\ history'.owed = history.owed
        /\ history'.submitted = history.submitted /\ history'.committed = history.committed
        /\ history'.edited = history.edited
    BY <2>1, EditFacts, ClosesFields
  <2> QED BY <1>0, <2>1, <2>2, <2>3, EditFacts, SameEdits
<1>3. CASE f.t = "event" /\ f.seq = game.last + 1
  <2>1. PICK q, x, v : q = f.seq /\ x = f.slot /\ v = f.val
    OBVIOUS
  <2>2. PICK y : history' = [history EXCEPT !.owed[x] = 0, !.stray = y]
    BY <1>1, <1>3, <2>1 DEF ApplyFrame
  <2>3. game' = [game EXCEPT !.at = "applied", !.last = q] /\ stage' = [stage EXCEPT ![x] = v]
    BY <1>1, <1>3, <2>1 DEF ApplyFrame
  <2>4. GameRec(game') /\ game'.at = "applied" /\ game'.pending = game.pending
        /\ game'.todo = game.todo
    BY <2>3, EditFacts DEF GameRec
  <2>5. PICK o : o = [history.owed EXCEPT ![x] = 0]
    OBVIOUS
  <2>6. history' = [history EXCEPT !.owed = o, !.stray = y]
    BY <2>2, <2>5
  <2>7. /\ HistoryRec(history') /\ history'.owed = o
        /\ history'.submitted = history.submitted /\ history'.committed = history.committed
        /\ history'.edited = history.edited
    BY <2>6, EditFacts DEF HistoryRec
  <2>8. /\ o = [s \in Slots |-> IF s = x THEN 0 ELSE history.owed[s]]
        /\ stage' = [s \in Slots |-> IF s = x THEN v ELSE stage[s]]
    BY <2>3, <2>5, EditFacts DEF Shapes
  <2>9. Shapes'
    BY <1>0, <2>4, <2>7, <2>8, EditFacts DEF Shapes
  <2>10. OwedOK'
    <3>1. \A s \in Slots : history'.owed[s] # 0 =>
             history.owed[s] # 0 /\ history'.owed[s] = history.owed[s] /\ stage'[s] = stage[s]
      BY <2>7, <2>8
    <3> QED BY <1>0, <2>4, <3>1, EditFacts DEF OwedOK, Owed
  <2> QED BY <1>0, <2>7, <2>9, <2>10, EditFacts, SameProducer DEF EditInvariant
<1>4. CASE f.t # "resync" /\ ~(f.t = "event" /\ f.seq = game.last + 1)
  <2>1. PICK a \in {"apply", "recover"} : game' = [game EXCEPT !.at = a]
    BY <1>1, <1>4 DEF ApplyFrame
  <2>2. GameRec(game') /\ game'.at = a /\ game'.pending = game.pending /\ game'.todo = game.todo
    BY <2>1, EditFacts DEF GameRec
  <2>3. stage' = stage /\ history' = history
    BY <1>1, <1>4 DEF ApplyFrame
  <2> QED BY <1>0, <2>2, <2>3, GameMoves
<1> QED BY <1>2, <1>3, <1>4

LEMMA DrainSteps ==
    EditInvariant /\ (ApplyFails \/ MarkAppliedThrough \/ RequestReceiverReplay) => EditInvariant'
<1> SUFFICES ASSUME EditInvariant, ApplyFails \/ MarkAppliedThrough \/ RequestReceiverReplay
             PROVE  EditInvariant'
  OBVIOUS
<1>1. CASE ApplyFails \/ MarkAppliedThrough
  <2>1. PICK a \in {"apply", "recover"} : game' = [game EXCEPT !.at = a]
    BY <1>1 DEF ApplyFails, MarkAppliedThrough
  <2>2. GameRec(game') /\ game'.at = a /\ game'.pending = game.pending /\ game'.todo = game.todo
    BY <2>1, EditFacts DEF GameRec
  <2>3. game.at # "emit" /\ UNCHANGED <<server, emitter, ewire, replies, stage, history>>
    BY <1>1 DEF ApplyFails, MarkAppliedThrough
  <2> QED BY <2>2, <2>3, GameMoves
<1>2. CASE RequestReceiverReplay
  <2>1. PICK n : n = receiver'.gen
    OBVIOUS
  <2>2. PICK g : g = GenerationChanged(game, n)
    OBVIOUS
  <2>3. /\ game' = [g EXCEPT !.at = "drain"] /\ history' = Closes(game') /\ game.at = "recover"
        /\ UNCHANGED <<server, emitter, ewire, replies, stage>>
    BY <1>2, <2>1, <2>2 DEF RequestReceiverReplay
  <2>4. GameRec(g) /\ g.pending = game.pending /\ g.todo = game.todo
    BY <2>2, EditFacts, GenerationChangedFields
  <2>5. GameRec(game') /\ game'.at = "drain" /\ game'.pending = game.pending
        /\ game'.todo = game.todo
    BY <2>3, <2>4 DEF GameRec
  <2>6. /\ HistoryRec(history') /\ history'.owed = history.owed
        /\ history'.submitted = history.submitted /\ history'.committed = history.committed
        /\ history'.edited = history.edited
    BY <2>3, EditFacts, ClosesFields
  <2> QED BY <2>3, <2>5, <2>6, EditFacts, SameEdits
<1> QED BY <1>1, <1>2

-----------------------------------------------------------------------------
(* Steps of the user and of the emission.                                   *)

\* Steps that leave the producer's side alone.
LEMMA OwedMoves ==
    ASSUME EditInvariant, UNCHANGED <<server, ewire, replies>>, EmitterRec(emitter'),
           emitter'.at = emitter.at \/ {emitter.at, emitter'.at} \subseteq {"deferred", "begin"},
           emitter'.outbox = emitter.outbox, emitter'.sent = emitter.sent,
           emitter'.acked = emitter.acked, emitter'.recovery = emitter.recovery,
           GameRec(game'), HistoryRec(history'),
           history'.submitted = history.submitted, history'.committed = history.committed,
           history'.edited = history.edited,
           stage' = [s \in Slots |-> stage'[s]],
           history'.owed = [s \in Slots |-> history'.owed[s]],
           OwedOK'
    PROVE  EditInvariant'
<1>1. Shapes'
  BY EditFacts DEF Shapes
<1>2. ProducerOK'
  BY EditFacts DEF ProducerOK
<1>3. WireOK'
  BY EditFacts DEF WireOK, RepliesOK, Outstanding, InSequence
<1> QED BY <1>1, <1>2, <1>3 DEF EditInvariant

LEMMA UserEditSteps == EditInvariant /\ UserEdit => EditInvariant'
<1> SUFFICES ASSUME EditInvariant, UserEdit PROVE EditInvariant'
  OBVIOUS
<1> PICK v : v = Fresh
  OBVIOUS
<1>1. PICK x \in Slots :
        /\ stage' = [stage EXCEPT ![x] = v]
        /\ game' = IF game.attached THEN [game EXCEPT !.pending = @ \cup {PathOf[x]}] ELSE game
        /\ history' = [history EXCEPT !.made = v,
                            !.owed[x] = IF game.attached THEN v ELSE 0,
                            !.stray = IF game.attached THEN @ ELSE @ \cup {x}]
  BY EditFacts DEF UserEdit, Shapes
<1>2. UNCHANGED <<server, emitter, ewire, replies>> /\ game.at = "idle"
  BY DEF UserEdit
<1>3. PICK w, y, p, q : /\ w = IF game.attached THEN v ELSE 0
                        /\ y = IF game.attached THEN history.stray ELSE history.stray \cup {x}
                        /\ p = game.pending \cup {PathOf[x]}
                        /\ q = [history.owed EXCEPT ![x] = w]
  OBVIOUS
<1>4. history' = [history EXCEPT !.made = v, !.owed = q, !.stray = y]
  BY <1>1, <1>3
<1>5. /\ HistoryRec(history') /\ history'.owed = q
      /\ history'.submitted = history.submitted /\ history'.committed = history.committed
      /\ history'.edited = history.edited
  BY <1>4, EditFacts DEF HistoryRec
<1>6. /\ q = [s \in Slots |-> IF s = x THEN w ELSE history.owed[s]]
      /\ stage' = [s \in Slots |-> IF s = x THEN v ELSE stage[s]]
  BY <1>1, <1>3, EditFacts DEF Shapes
<1>7. /\ GameRec(game') /\ game'.at = game.at /\ game'.todo = game.todo
      /\ game'.pending = IF game.attached THEN p ELSE game.pending
  <2>1. CASE game.attached
    <3>1. game' = [game EXCEPT !.pending = p]
      BY <1>1, <1>3, <2>1
    <3> QED BY <2>1, <3>1, EditFacts DEF GameRec
  <2>2. CASE ~game.attached
    BY <1>1, <2>2, EditFacts
  <2> QED BY <2>1, <2>2
<1>8. OwedOK'
  <2>1. game'.at # "emit" => game'.todo = {}
    BY <1>7, EditFacts DEF OwedOK
  <2>2. ASSUME NEW s \in Slots, history'.owed[s] # 0
        PROVE  stage'[s] = history'.owed[s] /\ (PathOf[s] \in game'.pending \/ s \in game'.todo)
    <3>1. CASE s = x
      BY <1>3, <1>5, <1>6, <1>7, <2>2, <3>1
    <3>2. CASE s # x
      <4>1. history.owed[s] # 0 /\ history'.owed[s] = history.owed[s] /\ stage'[s] = stage[s]
        BY <1>5, <1>6, <2>2, <3>2
      <4>2. stage[s] = history.owed[s] /\ (PathOf[s] \in game.pending \/ s \in game.todo)
        BY <4>1, EditFacts DEF OwedOK, Owed
      <4>3. game.pending \subseteq game'.pending
        BY <1>3, <1>7
      <4> QED BY <1>7, <4>1, <4>2, <4>3
    <3> QED BY <3>1, <3>2
  <2> QED BY <2>1, <2>2 DEF OwedOK, Owed
<1> QED BY <1>2, <1>5, <1>6, <1>7, <1>8, EditFacts, OwedMoves

LEMMA UserDisconnectSteps == EditInvariant /\ UserDisconnect => EditInvariant'
<1> SUFFICES ASSUME EditInvariant, UserDisconnect PROVE EditInvariant'
  OBVIOUS
<1>1. /\ game.at = "idle" /\ UNCHANGED <<server, emitter, ewire, replies, stage>>
      /\ game' = [game EXCEPT !.at = "flush", !.attached = FALSE, !.pending = {}, !.emitted = FALSE]
  BY DEF UserDisconnect
<1>2. PICK q, y : history' = [history EXCEPT !.owed = q, !.stray = y]
                  /\ q = [s \in Slots |-> 0]
  BY DEF UserDisconnect, Forgiven
<1>3. /\ HistoryRec(history') /\ history'.owed = q
      /\ history'.submitted = history.submitted /\ history'.committed = history.committed
      /\ history'.edited = history.edited
  BY <1>2, EditFacts DEF HistoryRec
<1>4. GameRec(game') /\ game'.at = "flush" /\ game'.todo = game.todo
  BY <1>1, EditFacts DEF GameRec
<1>5. OwedOK'
  BY <1>1, <1>2, <1>3, <1>4, EditFacts DEF OwedOK, Owed
<1>6. stage' = [s \in Slots |-> stage'[s]] /\ history'.owed = [s \in Slots |-> history'.owed[s]]
  BY <1>1, <1>2, <1>3, EditFacts DEF Shapes
<1> QED BY <1>1, <1>3, <1>4, <1>5, <1>6, EditFacts, OwedMoves

\* The gate is open: the pending paths become the slots to look at.
LEMMA DrainAndEmitSteps == EditInvariant /\ DrainAndEmit => EditInvariant'
<1> SUFFICES ASSUME EditInvariant, DrainAndEmit PROVE EditInvariant'
  OBVIOUS
<1>1. game.at = "drain" /\ UNCHANGED <<server, ewire, replies, stage, history>>
  BY DEF DrainAndEmit
<1>2. /\ EmitterRec(emitter') /\ emitter'.outbox = emitter.outbox
      /\ emitter'.sent = emitter.sent /\ emitter'.acked = emitter.acked
      /\ emitter'.recovery = emitter.recovery
      /\ emitter'.at = emitter.at \/ {emitter.at, emitter'.at} \subseteq {"deferred", "begin"}
  <2>1. CASE emitter.at = "deferred" /\ game.token
    <3>1. emitter' = [emitter EXCEPT !.at = "begin"]
      BY <2>1 DEF DrainAndEmit
    <3> QED BY <2>1, <3>1, EditFacts DEF EmitterRec
  <2>2. CASE ~(emitter.at = "deferred" /\ game.token)
    <3>1. emitter' = emitter
      BY <2>2 DEF DrainAndEmit
    <3> QED BY <3>1, EditFacts
  <2> QED BY <2>1, <2>2
<1>3. /\ GameRec(game')
      /\ game'.at # "emit" => game'.todo = {}
      /\ \A s \in Slots : PathOf[s] \in game.pending =>
             PathOf[s] \in game'.pending \/ s \in game'.todo
  <2>1. game.todo = {}
    BY <1>1, EditFacts DEF OwedOK
  <2>2. CASE EmitAllowed
    <3>0. PICK c, g, e :
            /\ c = game.pending \cup
                     (IF emitter.gen # game.lastGen /\ game.emitted THEN {"prim"} ELSE {})
            /\ g = emitter.gen
            /\ e = (game.emitted /\ ~(emitter.gen # game.lastGen))
      OBVIOUS
    <3>1. /\ game.pending \subseteq c
          /\ game' = [game EXCEPT !.at = IF c = {} THEN "idle" ELSE "emit",
                                  !.todo = {s \in Slots : PathOf[s] \in c},
                                  !.pending = {}, !.lastGen = g, !.emitted = e]
      <4>1. game.pending \subseteq c
        BY <3>0
      <4>2. game' = [game EXCEPT !.at = IF c = {} THEN "idle" ELSE "emit",
                                 !.todo = {s \in Slots : PathOf[s] \in c},
                                 !.pending = {}, !.lastGen = g, !.emitted = e]
        BY <2>2, <3>0 DEF DrainAndEmit
      <4> QED BY <4>1, <4>2
    <3>2. PICK a, d : a = (IF c = {} THEN "idle" ELSE "emit")
                      /\ d = {s \in Slots : PathOf[s] \in c}
      OBVIOUS
    <3>3. game' = [game EXCEPT !.at = a, !.todo = d, !.pending = {}, !.lastGen = g, !.emitted = e]
      BY <3>1, <3>2
    <3>4. GameRec(game') /\ game'.at = a /\ game'.todo = d
      BY <3>3, EditFacts DEF GameRec
    <3> QED BY <3>1, <3>2, <3>4
  <2>3. CASE ~EmitAllowed
    <3>1. game' = [game EXCEPT !.at = "idle"]
      BY <2>3 DEF DrainAndEmit
    <3>2. GameRec(game') /\ game'.at = "idle" /\ game'.todo = game.todo
          /\ game'.pending = game.pending
      BY <3>1, EditFacts DEF GameRec
    <3> QED BY <2>1, <3>2
  <2> QED BY <2>2, <2>3
<1>4. OwedOK'
  <2>1. \A s \in Owed : stage[s] = history.owed[s] /\ PathOf[s] \in game.pending
    BY <1>1, EditFacts DEF OwedOK
  <2> QED BY <1>1, <1>3, <2>1 DEF OwedOK, Owed
<1>5. stage' = [s \in Slots |-> stage'[s]] /\ history'.owed = [s \in Slots |-> history'.owed[s]]
  BY <1>1, EditFacts DEF Shapes
<1> QED BY <1>1, <1>2, <1>3, <1>4, <1>5, EditFacts, OwedMoves
-----------------------------------------------------------------------------
(* Steps of the emitter and of the server.                                  *)

\* Steps that leave the game and the stage alone.
LEMMA ProducerMoves ==
    ASSUME EditInvariant, UNCHANGED <<game, stage>>,
           ServerRec(server'), EmitterRec(emitter'), HistoryRec(history'),
           history'.submitted = history.submitted, history'.owed = history.owed,
           history'.edited = history.edited, IsSeq(replies'), IsSeq(ewire'),
           ProducerOK', WireOK'
    PROVE  EditInvariant'
<1>1. Shapes'
  BY EditFacts DEF Shapes
<1>2. OwedOK'
  BY EditFacts, SameOwed
<1> QED BY <1>1, <1>2 DEF EditInvariant

LEMMA AcknowledgeFields ==
    ASSUME NEW e, EmitterRec(e), NEW id
    PROVE  AcknowledgeThrough(e, id) =
               [at |-> e.at, outbox |-> SubSeq(e.outbox, (id - e.acked) + 1, Len(e.outbox)),
                sent |-> IF e.sent > id - e.acked THEN e.sent - (id - e.acked) ELSE 0,
                acked |-> id, recovery |-> e.recovery, stop |-> e.stop, gen |-> e.gen]
<1>1. PICK n, q, k : /\ n = id - e.acked /\ q = SubSeq(e.outbox, n + 1, Len(e.outbox))
                     /\ k = IF e.sent > n THEN e.sent - n ELSE 0
  OBVIOUS
<1>2. AcknowledgeThrough(e, id) = [e EXCEPT !.outbox = q, !.acked = id, !.sent = k]
  BY <1>1 DEF AcknowledgeThrough
<1>3. AcknowledgeThrough(e, id) = [at |-> e.at, outbox |-> q, sent |-> k, acked |-> id,
                                   recovery |-> e.recovery, stop |-> e.stop, gen |-> e.gen]
  BY <1>2 DEF EmitterRec
<1> QED BY <1>1, <1>3

\* A connection retires what the server has of the outbox.
LEMMA ConnectSteps == EditInvariant /\ EmitterConnect => EditInvariant'
<1> SUFFICES ASSUME EditInvariant, EmitterConnect PROVE EditInvariant'
  OBVIOUS
<1>1. emitter.at = "begin" /\ UNCHANGED <<server, ewire, replies, game, stage, history>>
  BY DEF EmitterConnect
<1>2. CASE emitter.recovery
  <2>1. emitter' = [emitter EXCEPT !.at = "stopped"]
    BY <1>2 DEF EmitterConnect
  <2>2. /\ EmitterRec(emitter') /\ emitter'.outbox = emitter.outbox
        /\ emitter'.sent = emitter.sent /\ emitter'.acked = emitter.acked
        /\ emitter'.recovery = emitter.recovery /\ emitter'.at = "stopped"
    BY <2>1, EditFacts DEF EmitterRec
  <2>3. ProducerOK'
    BY <1>1, <2>2, EditFacts DEF ProducerOK
  <2>4. WireOK'
    BY <1>1, <2>2, EditFacts DEF WireOK
  <2> QED BY <1>1, <2>2, <2>3, <2>4, EditFacts, ProducerMoves
<1>3. CASE ~emitter.recovery
  <2>1. PICK n, q, g, t : /\ n = server.through - emitter.acked /\ g = emitter.gen + 1
                          /\ q = SubSeq(emitter.outbox, n + 1, Len(emitter.outbox))
                          /\ t = server.through
    OBVIOUS
  <2>2. n \in Nat /\ t \in Nat /\ emitter.acked \in Nat /\ emitter.acked + n = t
        /\ t <= Len(history.submitted)
    <3>1. PICK a : a = emitter.acked
      OBVIOUS
    <3>2. a \in Nat /\ t \in Nat /\ a <= t /\ t <= Len(history.submitted) /\ n = t - a
      BY <2>1, <3>1, EditFacts DEF ProducerOK
    <3>3. n \in Nat /\ a + n = t
      BY <3>2
    <3> QED BY <3>1, <3>2, <3>3
  <2>4. /\ EmitterRec(emitter') /\ emitter'.outbox = q /\ emitter'.sent = 0
        /\ emitter'.acked = t /\ emitter'.recovery = emitter.recovery /\ emitter'.at = "ready"
    <3>1. PICK m : m = MarkAllUnsent(emitter)
      OBVIOUS
    <3>2. /\ EmitterRec(m) /\ m.outbox = emitter.outbox /\ m.sent = 0
          /\ m.acked = emitter.acked /\ m.recovery = emitter.recovery /\ m.gen = emitter.gen
      BY <3>1, EditFacts DEF MarkAllUnsent, EmitterRec
    <3>3. emitter' = [AcknowledgeThrough(m, t) EXCEPT !.at = "ready", !.gen = @ + 1]
      BY <1>3, <2>1, <3>1 DEF EmitterConnect
    <3>4. PICK k : k = IF m.sent > n THEN m.sent - n ELSE 0
      OBVIOUS
    <3>5. k = 0
      BY <2>2, <3>2, <3>4
    <3>6. AcknowledgeThrough(m, t) =
            [at |-> m.at, outbox |-> q, sent |-> k, acked |-> t,
             recovery |-> m.recovery, stop |-> m.stop, gen |-> m.gen]
      <4>1. n = t - m.acked
        BY <2>1, <3>2
      <4>2. q = SubSeq(m.outbox, (t - m.acked) + 1, Len(m.outbox))
        BY <2>1, <3>2, <4>1
      <4>3. k = IF m.sent > t - m.acked THEN m.sent - (t - m.acked) ELSE 0
        BY <3>4, <4>1
      <4> HIDE <2>1, <3>4
      <4> QED BY <3>2, <4>2, <4>3, AcknowledgeFields
    <3>7. emitter' = [at |-> "ready", outbox |-> q, sent |-> k, acked |-> t,
                      recovery |-> m.recovery, stop |-> m.stop, gen |-> g]
      <4>1. PICK z : z = AcknowledgeThrough(m, t)
        OBVIOUS
      <4>2. emitter' = [z EXCEPT !.at = "ready", !.gen = @ + 1]
        BY <3>3, <4>1
      <4>3. z.gen + 1 = g
        BY <2>1, <3>2, <3>6, <4>1
      <4>4. z = [at |-> m.at, outbox |-> q, sent |-> k, acked |-> t,
                 recovery |-> m.recovery, stop |-> m.stop, gen |-> m.gen]
        BY <3>6, <4>1
      <4>5. [z EXCEPT !.at = "ready", !.gen = @ + 1] = [z EXCEPT !.at = "ready", !.gen = g]
        BY <4>3, <4>4
      <4>6. emitter' = [z EXCEPT !.at = "ready", !.gen = g]
        BY <4>2, <4>5
      <4> QED BY <4>4, <4>6
    <3> QED BY <3>2, <3>5, <3>7 DEF EmitterRec
  <2>5. q = SubSeq(history.submitted, t + 1, Len(history.submitted))
    <3>1. PICK s, a : s = history.submitted /\ a = emitter.acked
      BY <2>2
    <3>2. /\ emitter.outbox = SubSeq(s, a + 1, Len(s)) /\ IsSeq(s) /\ a + n <= Len(s)
          /\ a \in Nat /\ a + n = t
      BY <2>2, <3>1, EditFacts DEF ProducerOK
    <3>3. SubSeq(SubSeq(s, a + 1, Len(s)), n + 1, Len(SubSeq(s, a + 1, Len(s)))) =
          SubSeq(s, a + n + 1, Len(s))
      BY <2>2, <3>2, PartDrop
    <3> QED BY <2>1, <3>1, <3>2, <3>3
  <2>6. ewire = <<>> /\ replies = <<>> /\ Len(replies) = 0
    BY <1>1, <1>3, EditFacts, NothingIsSeq DEF WireOK
  <2>7. ProducerOK'
    <3>1. /\ emitter'.acked \in Nat /\ emitter'.sent \in Nat /\ server'.through \in Nat
          /\ emitter'.acked <= server'.through /\ server'.through <= Len(history'.submitted)
          /\ emitter'.acked + emitter'.sent <= Len(history'.submitted)
      BY <1>1, <2>1, <2>2, <2>4, EditFacts, SeqFacts
    <3>2. emitter'.outbox = SubSeq(history'.submitted, emitter'.acked + 1, Len(history'.submitted))
      BY <1>1, <2>4, <2>5
    <3>3. history'.committed = SubSeq(history'.submitted, 1, server'.through)
      BY <1>1, EditFacts DEF ProducerOK
    <3> QED BY <3>1, <3>2, <3>3 DEF ProducerOK
  <2>8. WireOK'
    <3>1. RepliesOK'
      BY <1>1, <2>1, <2>2, <2>4, <2>6 DEF RepliesOK, Outstanding
    <3>2. SubSeq(history.submitted, t + 1, t) = <<>>
      BY <2>2, EditFacts, PartSeq
    <3>3. server'.through + 1 = t + 1 /\ emitter'.acked + emitter'.sent = t
          /\ server'.through <= emitter'.acked + emitter'.sent
      BY <1>1, <2>1, <2>2, <2>4
    <3>4. ewire' = SubSeq(history'.submitted, server'.through + 1, emitter'.acked + emitter'.sent)
      BY <1>1, <2>6, <3>2, <3>3
    <3>5. ~emitter'.recovery
      BY <1>3, <2>4
    <3> QED BY <2>4, <3>1, <3>3, <3>4, <3>5 DEF WireOK
  <2> QED BY <1>1, <2>4, <2>7, <2>8, EditFacts, ProducerMoves
<1> QED BY <1>2, <1>3

LEMMA SendSteps == EditInvariant /\ EmitterSend => EditInvariant'
<1> SUFFICES ASSUME EditInvariant, EmitterSend PROVE EditInvariant'
  OBVIOUS
<1>1. /\ emitter.at = "ready" /\ emitter.sent < Len(emitter.outbox)
      /\ ewire' = Append(ewire, emitter.outbox[emitter.sent + 1])
      /\ UNCHANGED <<server, replies, game, stage, history>>
  BY DEF EmitterSend
<1>2. PICK s, a, n, t : /\ s = history.submitted /\ a = emitter.acked /\ n = emitter.sent
                        /\ t = server.through
  OBVIOUS
<1>3. /\ IsSeq(s) /\ a \in Nat /\ n \in Nat /\ t \in Nat /\ a <= t /\ t <= Len(s) /\ t <= a + n
      /\ emitter.outbox = SubSeq(s, a + 1, Len(s)) /\ Len(s) \in Nat
  BY <1>1, <1>2, EditFacts, SeqFacts DEF ProducerOK, WireOK
<1>4. emitter' = [emitter EXCEPT !.sent = n + 1]
  BY <1>2 DEF EmitterSend
<1>5. /\ EmitterRec(emitter') /\ emitter'.outbox = emitter.outbox /\ emitter'.sent = n + 1
      /\ emitter'.acked = a /\ emitter'.recovery = emitter.recovery /\ emitter'.at = "ready"
  BY <1>1, <1>2, <1>4, EditFacts DEF EmitterRec
<1>6. a + n < Len(s) /\ emitter.outbox[n + 1] = s[a + n + 1]
  <2>1. /\ Len(emitter.outbox) = IF a + 1 <= Len(s) THEN Len(s) - (a + 1) + 1 ELSE 0
        /\ \A i \in 1..(Len(s) - (a + 1) + 1) : emitter.outbox[i] = s[(a + 1) + i - 1]
    BY <1>3, PartSeq
  <2>2. n < Len(emitter.outbox)
    BY <1>1, <1>2
  <2>3. n < Len(s) - a
    BY <1>3, <2>1, <2>2
  <2>4. n + 1 \in 1..(Len(s) - (a + 1) + 1) /\ (a + 1) + (n + 1) - 1 = a + n + 1
    BY <1>3, <2>3
  <2>5. a + n < Len(s)
    BY <1>3, <2>3
  <2>6. emitter.outbox[n + 1] = s[(a + 1) + (n + 1) - 1]
    BY <2>1, <2>4
  <2> QED BY <2>4, <2>5, <2>6
<1>7. ProducerOK'
  <2>1. n + 1 \in Nat /\ a + (n + 1) <= Len(s)
    BY <1>3, <1>6
  <2>2. history.committed = SubSeq(s, 1, t)
    BY <1>2, EditFacts DEF ProducerOK
  <2> QED BY <1>1, <1>2, <1>3, <1>5, <2>1, <2>2 DEF ProducerOK
<1>8. WireOK'
  <2>1. RepliesOK'
    BY <1>1, <1>2, <1>5, EditFacts DEF WireOK, RepliesOK, Outstanding
  <2>2. ASSUME InSequence PROVE ewire' = SubSeq(s, t + 1, a + (n + 1))
    <3>1. ewire = SubSeq(s, t + 1, a + n)
      BY <1>1, <1>2, <2>2, EditFacts DEF WireOK
    <3>2. PICK b \in Nat : b = a + n
      BY <1>3
    <3>3. Append(SubSeq(s, t + 1, b), s[b + 1]) = SubSeq(s, t + 1, b + 1)
      BY <1>3, <1>6, <3>2, PartGrows
    <3>4. a + (n + 1) = b + 1
      BY <1>3, <3>2
    <3> QED BY <1>1, <1>2, <1>6, <3>1, <3>2, <3>3, <3>4
  <2>3. InSequence' <=> InSequence
    BY <1>1 DEF InSequence
  <2>4. t <= a + (n + 1)
    BY <1>3
  <2> QED BY <1>1, <1>2, <1>5, <2>1, <2>2, <2>3, <2>4, EditFacts DEF WireOK
<1>9. IsSeq(ewire')
  BY <1>1, EditFacts, AppendSeq
<1> QED BY <1>1, <1>5, <1>7, <1>8, <1>9, EditFacts, ProducerMoves

\* The thread leaves a connection: everything in the outbox is to be sent again.
LEMMA LeaveSteps ==
    ASSUME EditInvariant, UNCHANGED <<server, game, stage, history>>,
           NEW a, NEW b, NEW n \in Nat, n <= emitter.sent, NEW r, a # "ready",
           emitter' = [emitter EXCEPT !.at = a, !.sent = n, !.recovery = r, !.stop = b],
           ewire' = <<>>, IsSeq(replies'), r \/ replies' = <<>>
    PROVE  EditInvariant'
<1>1. /\ EmitterRec(emitter') /\ emitter'.outbox = emitter.outbox
      /\ emitter'.sent = n /\ emitter'.acked = emitter.acked
      /\ emitter'.recovery = r /\ emitter'.at = a
  BY EditFacts DEF EmitterRec
<1>2. ProducerOK'
  <2>1. PICK s, k, m : s = history.submitted /\ k = emitter.acked /\ m = emitter.sent
    OBVIOUS
  <2>2. k \in Nat /\ m \in Nat /\ k + m <= Len(s) /\ Len(s) \in Nat /\ n <= m
    BY <2>1, EditFacts, SeqFacts DEF ProducerOK
  <2>3. k + n <= Len(s)
    BY <2>2
  <2> QED BY <1>1, <2>1, <2>3, EditFacts DEF ProducerOK
<1>3. WireOK'
  BY <1>1 DEF WireOK
<1> QED BY <1>1, <1>2, <1>3, EditFacts, ProducerMoves, NothingIsSeq

LEMMA ResultSteps == EditInvariant /\ EmitterResult => EditInvariant'
<1> SUFFICES ASSUME EditInvariant, EmitterResult PROVE EditInvariant'
  OBVIOUS
<1>1. /\ emitter.at = "ready" /\ replies # <<>> /\ replies' = Tail(replies)
      /\ UNCHANGED <<server, game, stage, history>>
  BY DEF EmitterResult
<1>2. /\ IsSeq(replies') /\ Len(replies') = Len(replies) - 1 /\ Len(replies) > 0
      /\ \A i \in 1..(Len(replies) - 1) : replies'[i] = replies[i + 1]
      /\ Head(replies) = replies[1] /\ Len(replies) \in Nat
  BY <1>1, EditFacts, TailSeq, SeqFacts
<1>3. PICK s, a, n, t : /\ s = history.submitted /\ a = emitter.acked /\ n = emitter.sent
                        /\ t = server.through
  OBVIOUS
<1>4. /\ IsSeq(s) /\ a \in Nat /\ n \in Nat /\ t \in Nat /\ a <= t /\ t <= Len(s) /\ t <= a + n
      /\ a + n <= Len(s) /\ Len(s) \in Nat /\ t - a <= Len(replies)
      /\ \A i \in 1..Len(replies) :
            /\ i <= t - a => replies[i].ok /\ replies[i].id = a + i
            /\ i > t - a => ~replies[i].ok
  BY <1>1, <1>3, EditFacts, SeqFacts DEF ProducerOK, WireOK, RepliesOK, Outstanding
<1>5. CASE Head(replies).ok
  <2>1. t - a >= 1 /\ replies[1].id = a + 1 /\ a + 1 <= Len(s) /\ n >= 1
    <3>1. 1 \in 1..Len(replies) /\ replies[1].ok
      BY <1>2, <1>5
    <3>2. t - a >= 1
      BY <1>4, <3>1
    <3> QED BY <1>4, <3>1, <3>2
  <2>2. emitter' = AcknowledgeThrough(emitter, a + 1) /\ ewire' = ewire
    BY <1>2, <1>5, <2>1 DEF EmitterResult
  <2>3. (a + 1) - a = 1 /\ (IF n > 1 THEN n - 1 ELSE 0) = n - 1
    BY <1>4, <2>1
  <2>4. PICK q, b : /\ b = n - 1
                    /\ q = SubSeq(emitter.outbox, 1 + 1, Len(emitter.outbox))
    OBVIOUS
  <2>5. emitter' = [at |-> emitter.at, outbox |-> q, sent |-> b, acked |-> a + 1,
                    recovery |-> emitter.recovery, stop |-> emitter.stop, gen |-> emitter.gen]
    BY <1>3, <2>2, <2>3, <2>4, EditFacts, AcknowledgeFields
  <2>6. /\ EmitterRec(emitter') /\ emitter'.outbox = q /\ emitter'.sent = n - 1
        /\ emitter'.acked = a + 1 /\ emitter'.recovery = emitter.recovery
        /\ emitter'.at = "ready"
    BY <1>1, <2>4, <2>5 DEF EmitterRec
  <2>7. q = SubSeq(s, (a + 1) + 1, Len(s))
    <3>1. SubSeq(SubSeq(s, a + 1, Len(s)), 1 + 1, Len(SubSeq(s, a + 1, Len(s)))) =
          SubSeq(s, a + 1 + 1, Len(s))
      BY <1>4, <2>1, PartDrop
    <3>2. emitter.outbox = SubSeq(s, a + 1, Len(s))
      BY <1>3, EditFacts DEF ProducerOK
    <3> QED BY <2>4, <3>1, <3>2
  <2>8. ProducerOK'
    <3>0. a + 1 \in Nat /\ n - 1 \in Nat /\ a + 1 <= t /\ (a + 1) + (n - 1) <= Len(s)
      BY <1>4, <2>1
    <3>1. /\ emitter'.acked \in Nat /\ emitter'.sent \in Nat /\ server'.through \in Nat
          /\ emitter'.acked <= server'.through /\ server'.through <= Len(history'.submitted)
          /\ emitter'.acked + emitter'.sent <= Len(history'.submitted)
      BY <1>1, <1>3, <1>4, <2>6, <3>0
    <3>2. emitter'.outbox = SubSeq(history'.submitted, emitter'.acked + 1, Len(history'.submitted))
      BY <1>1, <1>3, <2>6, <2>7
    <3>3. history'.committed = SubSeq(history'.submitted, 1, server'.through)
      BY <1>1, EditFacts DEF ProducerOK
    <3> QED BY <3>1, <3>2, <3>3 DEF ProducerOK
  <2>9. WireOK'
    <3>1. RepliesOK'
      <4>1. Outstanding' = t - (a + 1)
        BY <1>1, <1>3, <2>6 DEF Outstanding
      <4>2. t - (a + 1) <= Len(replies')
        BY <1>2, <1>4
      <4>3. ASSUME NEW i \in 1..Len(replies')
            PROVE  /\ i <= t - (a + 1) => replies'[i].ok /\ replies'[i].id = (a + 1) + i
                   /\ i > t - (a + 1) => ~replies'[i].ok
        <5>1. i + 1 \in 1..Len(replies) /\ replies'[i] = replies[i + 1]
          BY <1>2
        <5>2. /\ i + 1 <= t - a => replies[i + 1].ok /\ replies[i + 1].id = a + (i + 1)
              /\ i + 1 > t - a => ~replies[i + 1].ok
          BY <1>4, <5>1
        <5>3. /\ i <= t - (a + 1) => i + 1 <= t - a
              /\ i > t - (a + 1) => i + 1 > t - a
              /\ a + (i + 1) = (a + 1) + i
          BY <1>4
        <5> QED BY <5>1, <5>2, <5>3
      <4> QED BY <2>6, <4>1, <4>2, <4>3 DEF RepliesOK
    <3>2. InSequence' => InSequence
      <4> SUFFICES ASSUME InSequence', NEW i \in 1..Len(replies) PROVE replies[i].ok
        BY DEF InSequence
      <4>1. CASE i = 1
        BY <1>2, <1>5, <4>1
      <4>2. CASE i # 1
        <5>1. i - 1 \in 1..Len(replies') /\ i - 1 \in 1..(Len(replies) - 1) /\ (i - 1) + 1 = i
          BY <1>2, <4>2
        <5> QED BY <1>2, <5>1 DEF InSequence
      <4> QED BY <4>1, <4>2
    <3>3. InSequence => ewire = SubSeq(s, t + 1, a + n)
      BY <1>1, <1>3, EditFacts DEF WireOK
    <3>4. emitter'.acked + emitter'.sent = a + n /\ t <= a + n
      BY <1>4, <2>6
    <3>5. ~emitter'.recovery
      BY <1>1, <2>6, EditFacts DEF WireOK
    <3> QED BY <1>1, <1>3, <2>2, <2>6, <3>1, <3>2, <3>3, <3>4, <3>5 DEF WireOK
  <2> QED BY <1>1, <1>2, <2>2, <2>6, <2>8, <2>9, EditFacts, ProducerMoves
<1>6. CASE ~Head(replies).ok
  <2>1. emitter' = [emitter EXCEPT !.at = "closing", !.sent = 0, !.recovery = TRUE, !.stop = TRUE]
    BY <1>6, EditFacts DEF EmitterResult, EnterRecovery, MarkAllUnsent, EmitterRec
  <2>2. ewire' = <<>>
    BY <1>6 DEF EmitterResult
  <2>3. 0 \in Nat /\ 0 <= emitter.sent /\ "closing" # "ready"
    BY <1>3, <1>4
  <2> QED BY <1>1, <1>2, <2>1, <2>2, <2>3, LeaveSteps
<1> QED BY <1>5, <1>6

LEMMA CloseSteps == EditInvariant /\ EmitterClose => EditInvariant'
<1> SUFFICES ASSUME EditInvariant, EmitterClose PROVE EditInvariant'
  OBVIOUS
<1>1. emitter.at = "closing" /\ UNCHANGED <<server, ewire, replies, game, stage, history>>
  BY DEF EmitterClose
<1>2. PICK a \in {"stopped", "begin"} : a = IF emitter.stop THEN "stopped" ELSE "begin"
  OBVIOUS
<1>3. emitter' = [emitter EXCEPT !.at = a, !.sent = 0, !.recovery = emitter.recovery,
                                 !.stop = emitter.stop]
  BY <1>2, EditFacts DEF EmitterClose, MarkAllUnsent, EmitterRec
<1>4. ewire' = <<>> /\ (emitter.recovery \/ replies' = <<>>) /\ IsSeq(replies')
  BY <1>1, EditFacts DEF WireOK
<1>5. 0 \in Nat /\ 0 <= emitter.sent /\ a # "ready"
  BY EditFacts DEF ProducerOK
<1>6. PICK r, b : r = emitter.recovery /\ b = emitter.stop
  OBVIOUS
<1> QED BY <1>1, <1>3, <1>4, <1>5, <1>6, LeaveSteps

\* The server commits the first k transactions on the wire.
LEMMA CommitsBeginning ==
    ASSUME EditInvariant, NEW k \in 0..Len(ewire), k > 0 => InSequence
    PROVE  /\ Len(SubSeq(ewire, 1, k)) = k
           /\ k \in Nat /\ server.through + k <= Len(history.submitted)
           /\ emitter.at = "ready" => server.through + k <= emitter.acked + emitter.sent
           /\ history.committed \o SubSeq(ewire, 1, k) =
                  SubSeq(history.submitted, 1, server.through + k)
<1>1. PICK s, a, n, t : /\ s = history.submitted /\ a = emitter.acked /\ n = emitter.sent
                        /\ t = server.through
  OBVIOUS
<1>2. /\ IsSeq(s) /\ a \in Nat /\ n \in Nat /\ t \in Nat /\ a <= t /\ t <= Len(s)
      /\ a + n <= Len(s) /\ Len(s) \in Nat /\ history.committed = SubSeq(s, 1, t)
      /\ IsSeq(ewire) /\ Len(ewire) \in Nat
  BY <1>1, EditFacts, SeqFacts DEF ProducerOK
<1>3. k \in Nat /\ k <= Len(ewire)
  BY <1>2
<1>4. CASE k = 0
  <2>1. SubSeq(ewire, 1, k) = <<>> /\ Len(SubSeq(ewire, 1, k)) = 0
    BY <1>2, <1>4, PartSeq
  <2>2. PICK X : SubSeq(s, 1, t) \in Seq(X)
    <3>1. IsSeq(SubSeq(s, 1, t))
      BY <1>2, PartSeq
    <3> QED BY <3>1 DEF IsSeq
  <2>3. SubSeq(s, 1, t) \o <<>> = SubSeq(s, 1, t) /\ t + 0 = t
    BY <1>2, <2>2
  <2>4. emitter.at = "ready" => t <= a + n
    BY <1>1, EditFacts DEF WireOK
  <2> QED BY <1>1, <1>2, <1>3, <1>4, <2>1, <2>3, <2>4
<1>5. CASE k > 0
  <2>1. emitter.at = "ready"
    <3>1. ewire # <<>>
      BY <1>3, <1>5, NothingIsSeq
    <3> QED BY <3>1, EditFacts DEF WireOK
  <2>2. ewire = SubSeq(s, t + 1, a + n) /\ t <= a + n
    BY <1>1, <1>5, <2>1, EditFacts DEF WireOK
  <2>3. PICK b : b = a + n
    OBVIOUS
  <2>4. b \in Nat /\ b <= Len(s) /\ Len(ewire) = b - t /\ t + k <= b
    <3>1. b \in Nat /\ b <= Len(s) /\ t <= b
      BY <1>2, <2>2, <2>3
    <3>2. Len(ewire) = IF t + 1 <= b THEN b - (t + 1) + 1 ELSE 0
      BY <1>2, <2>2, <2>3, <3>1, PartSeq
    <3> QED BY <1>2, <1>3, <3>1, <3>2
  <2>5. /\ Len(SubSeq(SubSeq(s, t + 1, b), 1, k)) = k
        /\ SubSeq(s, 1, t) \o SubSeq(SubSeq(s, t + 1, b), 1, k) = SubSeq(s, 1, t + k)
    BY <1>2, <1>3, <2>4, BeginningGrows
  <2>6. t + k <= Len(s)
    BY <1>2, <1>3, <2>4
  <2>7. ewire = SubSeq(s, t + 1, b)
    BY <2>2, <2>3
  <2>8. Len(SubSeq(ewire, 1, k)) = k /\ SubSeq(s, 1, t) \o SubSeq(ewire, 1, k) = SubSeq(s, 1, t + k)
    BY <2>5, <2>7
  <2>9. /\ server.through + k <= Len(history.submitted)
        /\ server.through + k <= emitter.acked + emitter.sent
    BY <1>1, <2>3, <2>4, <2>6
  <2>10. history.committed \o SubSeq(ewire, 1, k) =
             SubSeq(history.submitted, 1, server.through + k)
    BY <1>1, <1>2, <2>8
  <2> QED BY <1>3, <2>8, <2>9, <2>10
<1>6. k = 0 \/ k > 0
  BY <1>3
<1> QED BY <1>4, <1>5, <1>6

\* The connection ends: what the server has of the wire is committed, and the
\* next connection will learn of it.
LEMMA EndSteps ==
    ASSUME EditInvariant, NEW k \in 0..Len(ewire), k > 0 => InSequence,
           NEW then, HistoryRec(then), then.submitted = history.submitted,
           then.committed = history.committed, then.owed = history.owed,
           then.edited = history.edited,
           Committed(SubSeq(ewire, 1, k), then),
           ewire' = <<>>, replies' = <<>>,
           EmitterRec(emitter'), emitter'.at # "ready", emitter'.outbox = emitter.outbox,
           emitter'.sent \in Nat, emitter'.sent <= emitter.sent, emitter'.acked = emitter.acked,
           GameRec(game'), game'.pending = game.pending, game'.todo = game.todo,
           game'.at = "emit" <=> game.at = "emit", stage' = stage
    PROVE  EditInvariant'
<1>1. PICK log, c, n : /\ log = server.log \o SubSeq(ewire, 1, k) /\ n = server.through + k
                       /\ c = history.committed \o SubSeq(ewire, 1, k)
  OBVIOUS
<1>2. /\ Len(SubSeq(ewire, 1, k)) = k /\ k \in Nat
      /\ n <= Len(history.submitted) /\ c = SubSeq(history.submitted, 1, n)
  BY <1>1, CommitsBeginning
<1>3. /\ server' = [log |-> log, epoch |-> server.epoch, through |-> n]
      /\ history' = [then EXCEPT !.committed = c]
  <2>1. /\ server' = [server EXCEPT !.log = @ \o SubSeq(ewire, 1, k),
                                    !.through = @ + Len(SubSeq(ewire, 1, k))]
        /\ history' = [then EXCEPT !.committed = @ \o SubSeq(ewire, 1, k)]
    BY DEF Committed
  <2>2. server' = [log |-> log, epoch |-> server.epoch, through |-> n]
    BY <1>1, <1>2, <2>1, EditFacts DEF ServerRec
  <2>3. history' = [then EXCEPT !.committed = c]
    BY <1>1, <2>1 DEF HistoryRec
  <2> QED BY <2>2, <2>3
<1>4. ServerRec(server') /\ server'.through = n
  BY <1>3 DEF ServerRec
<1>5. /\ HistoryRec(history') /\ history'.owed = history.owed
      /\ history'.submitted = history.submitted /\ history'.committed = c
      /\ history'.edited = history.edited
  BY <1>3 DEF HistoryRec
<1>6. ProducerOK'
  <2>1. /\ emitter.acked \in Nat /\ emitter.sent \in Nat /\ server.through \in Nat
        /\ emitter.acked <= server.through
        /\ emitter.acked + emitter.sent <= Len(history.submitted)
        /\ Len(history.submitted) \in Nat
    BY EditFacts, SeqFacts DEF ProducerOK
  <2>2. /\ n \in Nat /\ emitter.acked <= n
        /\ emitter.acked + emitter'.sent <= Len(history.submitted)
    <3>1. PICK m \in Nat : m = emitter'.sent
      OBVIOUS
    <3>2. m <= emitter.sent
      BY <3>1
    <3>3. emitter.acked + m <= Len(history.submitted)
      BY <2>1, <3>2
    <3>4. n \in Nat /\ emitter.acked <= n
      BY <1>1, <1>2, <2>1
    <3> QED BY <3>1, <3>3, <3>4
  <2>3. emitter.outbox = SubSeq(history.submitted, emitter.acked + 1, Len(history.submitted))
    BY EditFacts DEF ProducerOK
  <2> QED BY <1>2, <1>4, <1>5, <2>1, <2>2, <2>3 DEF ProducerOK
<1>7. WireOK'
  BY DEF WireOK
<1>8. Shapes'
  BY <1>4, <1>5, EditFacts, NothingIsSeq DEF Shapes
<1>9. OwedOK'
  BY <1>5, EditFacts, SameOwed
<1> QED BY <1>6, <1>7, <1>8, <1>9 DEF EditInvariant

LEMMA LossSteps == EditInvariant /\ EmitterLoss => EditInvariant'
<1> SUFFICES ASSUME EditInvariant, EmitterLoss PROVE EditInvariant'
  OBVIOUS
<1>1. PICK k \in 0..Len(ewire) : (k > 0 => InSequence) /\ Committed(SubSeq(ewire, 1, k), history)
  BY DEF EmitterLoss
<1>2. /\ emitter' = [emitter EXCEPT !.at = "closing"] /\ ewire' = <<>> /\ replies' = <<>>
      /\ UNCHANGED <<game, stage>>
  BY DEF EmitterLoss
<1>3. /\ EmitterRec(emitter') /\ emitter'.at = "closing" /\ emitter'.outbox = emitter.outbox
      /\ emitter'.sent = emitter.sent /\ emitter'.acked = emitter.acked
  BY <1>2, EditFacts DEF EmitterRec
<1>4. emitter'.sent \in Nat /\ emitter'.sent <= emitter.sent
  BY <1>3, EditFacts DEF ProducerOK
<1>5. PICK h : h = history
  OBVIOUS
<1> QED BY <1>1, <1>2, <1>3, <1>4, <1>5, EditFacts, EndSteps

LEMMA StopSteps == EditInvariant /\ StopClients => EditInvariant'
<1> SUFFICES ASSUME EditInvariant, StopClients PROVE EditInvariant'
  OBVIOUS
<1>1. PICK h : h = [history EXCEPT !.late = FALSE]
  OBVIOUS
<1>2. PICK k \in 0..Len(ewire) : (k > 0 => InSequence) /\ Committed(SubSeq(ewire, 1, k), h)
  BY <1>1 DEF StopClients
<1>3. /\ emitter' = [emitter EXCEPT !.at = "none", !.sent = 0]
      /\ ewire' = <<>> /\ replies' = <<>> /\ stage' = stage /\ game.at = "flush"
      /\ game' = [game EXCEPT !.at = "idle", !.emitted = FALSE, !.lastGen = 0,
                              !.synchronized = FALSE]
  BY EditFacts DEF StopClients, MarkAllUnsent, EmitterRec
<1>4. /\ EmitterRec(emitter') /\ emitter'.at = "none" /\ emitter'.outbox = emitter.outbox
      /\ emitter'.sent = 0 /\ emitter'.acked = emitter.acked
  BY <1>3, EditFacts DEF EmitterRec
<1>5. GameRec(game') /\ game'.at = "idle" /\ game'.pending = game.pending
      /\ game'.todo = game.todo
  BY <1>3, EditFacts DEF GameRec
<1>6. /\ HistoryRec(h) /\ h.submitted = history.submitted /\ h.committed = history.committed
      /\ h.owed = history.owed /\ h.edited = history.edited
  BY <1>1, EditFacts DEF HistoryRec
<1>7. emitter'.sent \in Nat /\ emitter'.sent <= emitter.sent
  BY <1>4, EditFacts DEF ProducerOK
<1> QED BY <1>2, <1>3, <1>4, <1>5, <1>6, <1>7, EndSteps

\* The next transaction on the wire is committed and answered.
LEMMA ServerCommitSteps == EditInvariant /\ ServerCommit => EditInvariant'
<1> SUFFICES ASSUME EditInvariant, ServerCommit PROVE EditInvariant'
  OBVIOUS
<1>1. /\ ewire # <<>> /\ InSequence /\ ewire' = Tail(ewire)
      /\ replies' = Append(replies, [ok |-> TRUE, id |-> server'.through])
      /\ Committed(<<Head(ewire)>>, history) /\ UNCHANGED <<emitter, game, stage>>
  BY DEF ServerCommit
<1>2. emitter.at = "ready"
  BY <1>1, EditFacts DEF WireOK
<1>3. PICK s, a, n, t : /\ s = history.submitted /\ a = emitter.acked /\ n = emitter.sent
                        /\ t = server.through
  OBVIOUS
<1>4. /\ IsSeq(s) /\ a \in Nat /\ n \in Nat /\ t \in Nat /\ a <= t /\ t <= Len(s) /\ t <= a + n
      /\ a + n <= Len(s) /\ Len(s) \in Nat /\ history.committed = SubSeq(s, 1, t)
      /\ emitter.outbox = SubSeq(s, a + 1, Len(s)) /\ ~emitter.recovery
      /\ ewire = SubSeq(s, t + 1, a + n) /\ IsSeq(replies) /\ Len(replies) \in Nat
  BY <1>1, <1>2, <1>3, EditFacts, SeqFacts DEF ProducerOK, WireOK
<1>5. PICK b : b = a + n
  OBVIOUS
<1>6. t < b /\ b \in Nat /\ b <= Len(s) /\ ewire = SubSeq(s, t + 1, b)
  <2>1. b \in Nat /\ b <= Len(s) /\ t <= b /\ ewire = SubSeq(s, t + 1, b)
    BY <1>4, <1>5
  <2>2. b < t + 1 => ewire = <<>>
    BY <1>4, <2>1, PartSeq
  <2> QED BY <1>1, <1>4, <2>1, <2>2
<1>7. Head(ewire) = s[t + 1] /\ Tail(ewire) = SubSeq(s, t + 2, b)
  BY <1>4, <1>6, PartHead
<1>8. PICK x : x = <<Head(ewire)>>
  OBVIOUS
<1>9. PICK log, c : log = server.log \o x /\ c = history.committed \o x
  OBVIOUS
<1>10. Len(x) = 1 /\ c = SubSeq(s, 1, t + 1)
  <2>1. SubSeq(s, 1, t) \o <<s[t + 1]>> = SubSeq(s, 1, t + 1)
    BY <1>4, <1>6, BeginningGrowsByOne
  <2> QED BY <1>4, <1>7, <1>8, <1>9, <2>1
<1>11. /\ server' = [log |-> log, epoch |-> server.epoch, through |-> t + 1]
       /\ history' = [history EXCEPT !.committed = c]
  <2>1. /\ server' = [server EXCEPT !.log = @ \o x, !.through = @ + Len(x)]
        /\ history' = [history EXCEPT !.committed = @ \o x]
    BY <1>1, <1>8 DEF Committed
  <2>2. server' = [log |-> log, epoch |-> server.epoch, through |-> t + 1]
    BY <1>3, <1>9, <1>10, <2>1, EditFacts DEF ServerRec
  <2>3. history' = [history EXCEPT !.committed = c]
    BY <1>9, <2>1, EditFacts DEF HistoryRec
  <2> QED BY <2>2, <2>3
<1>12. ServerRec(server') /\ server'.through = t + 1
  BY <1>11 DEF ServerRec
<1>13. /\ HistoryRec(history') /\ history'.owed = history.owed
       /\ history'.submitted = s /\ history'.committed = c
       /\ history'.edited = history.edited
  BY <1>3, <1>11, EditFacts DEF HistoryRec
<1>14. PICK r : r = [ok |-> TRUE, id |-> t + 1]
  OBVIOUS
<1>15. /\ IsSeq(replies') /\ Len(replies') = Len(replies) + 1
       /\ \A i \in 1..Len(replies) : replies'[i] = replies[i]
       /\ replies'[Len(replies) + 1] = r /\ r.ok /\ r.id = t + 1
  <2>1. replies' = Append(replies, r)
    BY <1>1, <1>12, <1>14
  <2> QED BY <1>4, <1>14, <2>1, AppendSeq
<1>16. ProducerOK'
  <2>1. /\ a \in Nat /\ n \in Nat /\ t + 1 \in Nat /\ a <= t + 1 /\ t + 1 <= Len(s)
    BY <1>4, <1>6
  <2> QED BY <1>1, <1>3, <1>4, <1>10, <1>12, <1>13, <2>1 DEF ProducerOK
<1>17. Len(replies) = t - a
  <2>1. /\ t - a <= Len(replies)
        /\ \A i \in 1..Len(replies) : i > t - a => ~replies[i].ok
    BY <1>2, <1>3, EditFacts DEF WireOK, RepliesOK, Outstanding
  <2>2. \A i \in 1..Len(replies) : replies[i].ok
    BY <1>1 DEF InSequence
  <2>3. ASSUME t - a < Len(replies) PROVE FALSE
    <3>1. Len(replies) \in 1..Len(replies)
      BY <1>4, <2>3
    <3> QED BY <2>1, <2>2, <2>3, <3>1
  <2>4. ~(t - a < Len(replies))
    BY <2>3
  <2>5. t - a <= Len(replies)
    BY <2>1
  <2>6. PICK l, o : l = Len(replies) /\ o = t - a
    OBVIOUS
  <2>7. l \in Int /\ o \in Int
    BY <1>4, <2>6
  <2>8. l = o
    BY <2>4, <2>5, <2>6, <2>7
  <2> QED BY <2>6, <2>8
<1>18. WireOK'
  <2>1. RepliesOK'
    <3>1. Outstanding' = (t + 1) - a /\ (t + 1) - a = Len(replies')
      <4>1. Outstanding' = (t + 1) - a
        <5>1. emitter'.acked = a
          BY <1>1, <1>3
        <5> QED BY <1>12, <5>1 DEF Outstanding
      <4>2. (t - a) + 1 = (t + 1) - a
        BY <1>4
      <4> QED BY <1>15, <1>17, <4>1, <4>2
    <3>2. ASSUME NEW i \in 1..Len(replies')
          PROVE  replies'[i].ok /\ replies'[i].id = a + i
      <4>1. CASE i \in 1..Len(replies)
        <5>1. i <= t - a
          BY <1>17, <4>1
        <5>2. replies[i].ok /\ replies[i].id = a + i
          BY <1>2, <1>3, <4>1, <5>1, EditFacts DEF WireOK, RepliesOK, Outstanding
        <5> QED BY <1>15, <4>1, <5>2
      <4>2. CASE i = Len(replies) + 1
        <5>1. a + i = t + 1
          BY <1>4, <1>17, <4>2
        <5> QED BY <1>15, <4>2, <5>1
      <4>3. i \in 1..Len(replies) \/ i = Len(replies) + 1
        BY <1>4, <1>15
      <4> QED BY <4>1, <4>2, <4>3
    <3>3. \A i \in 1..Len(replies') : ~(i > (t + 1) - a)
      BY <1>4, <3>1
    <3>4. (t + 1) - a <= Len(replies')
      BY <1>4, <3>1
    <3> QED BY <1>1, <1>3, <3>1, <3>2, <3>3, <3>4 DEF RepliesOK
  <2>2. ewire' = SubSeq(s, (t + 1) + 1, a + n)
    <3>1. t + 2 = (t + 1) + 1
      BY <1>4
    <3> QED BY <1>1, <1>5, <1>7, <3>1
  <2>3. t + 1 <= a + n
    BY <1>4, <1>5, <1>6
  <2> QED BY <1>1, <1>2, <1>3, <1>4, <1>12, <1>13, <2>1, <2>2, <2>3 DEF WireOK
<1>19. IsSeq(ewire')
  <2>1. IsSeq(Tail(ewire))
    BY <1>1, EditFacts, TailSeq
  <2> QED BY <1>1, <2>1
<1> QED BY <1>1, <1>3, <1>12, <1>13, <1>15, <1>16, <1>18, <1>19, EditFacts, ProducerMoves

\* A rejection ends the sequence.
LEMMA RejectSteps == EditInvariant /\ ServerReject => EditInvariant'
<1> SUFFICES ASSUME EditInvariant, ServerReject PROVE EditInvariant'
  OBVIOUS
<1>1. /\ ewire # <<>> /\ ewire' = <<>> /\ UNCHANGED <<server, emitter, game, stage, history>>
      /\ replies' = Append(replies, [ok |-> FALSE, id |-> server.through + 1])
  BY DEF ServerReject
<1>2. emitter.at = "ready"
  BY <1>1, EditFacts DEF WireOK
<1>3. PICK r : r = [ok |-> FALSE, id |-> server.through + 1]
  OBVIOUS
<1>4. /\ IsSeq(replies') /\ Len(replies') = Len(replies) + 1 /\ Len(replies) \in Nat
      /\ \A i \in 1..Len(replies) : replies'[i] = replies[i]
      /\ replies'[Len(replies) + 1] = r /\ ~r.ok
  BY <1>1, <1>3, EditFacts, AppendSeq, SeqFacts
<1>5. PICK n : n = Outstanding
  OBVIOUS
<1>6. /\ n \in Int /\ n <= Len(replies) /\ Outstanding' = n
      /\ \A i \in 1..Len(replies) :
            /\ i <= n => replies[i].ok /\ replies[i].id = emitter.acked + i
            /\ i > n => ~replies[i].ok
  BY <1>1, <1>2, <1>5, EditFacts DEF WireOK, RepliesOK, Outstanding, ProducerOK
<1>7. RepliesOK'
  <2>1. n <= Len(replies')
    BY <1>4, <1>6
  <2>2. ASSUME NEW i \in 1..Len(replies')
        PROVE  /\ i <= n => replies'[i].ok /\ replies'[i].id = emitter.acked + i
               /\ i > n => ~replies'[i].ok
    <3>1. CASE i \in 1..Len(replies)
      BY <1>4, <1>6, <3>1
    <3>2. CASE i = Len(replies) + 1
      <4>1. ~(i <= n)
        BY <1>4, <1>6, <3>2
      <4> QED BY <1>4, <3>2, <4>1
    <3>3. i \in 1..Len(replies) \/ i = Len(replies) + 1
      BY <1>4
    <3> QED BY <3>1, <3>2, <3>3
  <2> QED BY <1>1, <1>6, <2>1, <2>2 DEF RepliesOK
<1>8. ~InSequence'
  <2>1. Len(replies) + 1 \in 1..Len(replies')
    BY <1>4
  <2> QED BY <1>4, <2>1 DEF InSequence
<1>9. WireOK'
  BY <1>1, <1>2, <1>7, <1>8, EditFacts DEF WireOK
<1>10. ProducerOK'
  BY <1>1, EditFacts DEF ProducerOK
<1> QED BY <1>1, <1>4, <1>9, <1>10, EditFacts, ProducerMoves, NothingIsSeq

\* Somebody else's record, or a new history: the producer's highwater stays.
LEMMA HistorySteps == EditInvariant /\ (RemoteCommit \/ RewriteHistory) => EditInvariant'
<1> SUFFICES ASSUME EditInvariant, RemoteCommit \/ RewriteHistory PROVE EditInvariant'
  OBVIOUS
<1>1. CASE RemoteCommit
  <2>1. PICK x : server' = [server EXCEPT !.log = x]
    BY <1>1 DEF RemoteCommit
  <2>2. PICK m : history' = [history EXCEPT !.made = m]
    BY <1>1 DEF RemoteCommit
  <2>3. ServerRec(server') /\ server'.through = server.through
    BY <2>1, EditFacts DEF ServerRec
  <2>4. /\ HistoryRec(history') /\ history'.owed = history.owed
        /\ history'.submitted = history.submitted /\ history'.committed = history.committed
        /\ history'.edited = history.edited
    BY <2>2, EditFacts DEF HistoryRec
  <2>5. UNCHANGED <<emitter, ewire, replies, game, stage>>
    BY <1>1 DEF RemoteCommit
  <2> QED BY <2>1, <2>3, <2>4, <2>5, EditFacts, SameEdits
<1>2. CASE RewriteHistory
  <2>1. PICK x, y : server' = [server EXCEPT !.log = x, !.epoch = y]
    BY <1>2 DEF RewriteHistory
  <2>2. PICK m : history' = [history EXCEPT !.batches = m]
    BY <1>2 DEF RewriteHistory
  <2>3. ServerRec(server') /\ server'.through = server.through
    BY <2>1, EditFacts DEF ServerRec
  <2>4. /\ HistoryRec(history') /\ history'.owed = history.owed
        /\ history'.submitted = history.submitted /\ history'.committed = history.committed
        /\ history'.edited = history.edited
    BY <2>2, EditFacts DEF HistoryRec
  <2>5. UNCHANGED <<emitter, ewire, replies, game, stage>>
    BY <1>2 DEF RewriteHistory
  <2> QED BY <2>1, <2>3, <2>4, <2>5, EditFacts, SameEdits
<1> QED BY <1>1, <1>2

-----------------------------------------------------------------------------
(* The edits leave the stage.                                               *)

\* A slot is looked at: its value is submitted and waits in the outbox, or the
\* edit is given up.
LEMMA EmitSteps == EditInvariant /\ EmitFrame => EditInvariant'
<1> SUFFICES ASSUME EditInvariant, EmitFrame PROVE EditInvariant'
  OBVIOUS
<1>0. PICK x, txn, sent, y :
        /\ x = NextSlot /\ txn = [slot |-> x, val |-> stage[x]]
        /\ sent = (Readable(x) /\ CanAppend)
        /\ y = IF x \in Owed /\ ~sent THEN history.stray \cup {x} ELSE history.stray
  OBVIOUS
<1>1. /\ emitter' = IF sent THEN [emitter EXCEPT !.outbox = Append(@, txn)] ELSE emitter
      /\ game' = [game EXCEPT !.todo = @ \ {x}, !.emitted = @ \/ (sent /\ x = "xform"),
                              !.at = IF game.todo = {x} THEN "idle" ELSE "emit"]
      /\ history' = [history EXCEPT !.submitted = IF sent THEN Append(@, txn) ELSE @,
                                    !.owed[x] = 0, !.stray = y]
  BY <1>0 DEF EmitFrame
<1>2. UNCHANGED <<server, ewire, replies, stage>> /\ game.at = "emit"
  BY DEF EmitFrame
<1>3. PICK d, a, e, q, u, o :
        /\ d = game.todo \ {x} /\ a = (IF game.todo = {x} THEN "idle" ELSE "emit")
        /\ e = (game.emitted \/ (sent /\ x = "xform"))
        /\ q = (IF sent THEN Append(history.submitted, txn) ELSE history.submitted)
        /\ u = (IF sent THEN Append(emitter.outbox, txn) ELSE emitter.outbox)
        /\ o = [history.owed EXCEPT ![x] = 0]
  OBVIOUS
<1>4. game' = [game EXCEPT !.todo = d, !.emitted = e, !.at = a]
  BY <1>1, <1>3
<1>5. GameRec(game') /\ game'.todo = d /\ game'.at = a /\ game'.pending = game.pending
  BY <1>4, EditFacts DEF GameRec
<1>6. history' = [history EXCEPT !.submitted = q, !.owed = o, !.stray = y]
  BY <1>1, <1>3, EditFacts DEF HistoryRec
<1>7. /\ HistoryRec(history') /\ history'.owed = o /\ history'.submitted = q
      /\ history'.committed = history.committed /\ history'.edited = history.edited
  BY <1>6, EditFacts DEF HistoryRec
<1>8. emitter' = [emitter EXCEPT !.outbox = u]
  BY <1>1, <1>3, EditFacts DEF EmitterRec
<1>9. /\ EmitterRec(emitter') /\ emitter'.outbox = u /\ emitter'.at = emitter.at
      /\ emitter'.sent = emitter.sent /\ emitter'.acked = emitter.acked
      /\ emitter'.recovery = emitter.recovery
  BY <1>8, EditFacts DEF EmitterRec
<1>10. o = [s \in Slots |-> IF s = x THEN 0 ELSE history.owed[s]]
  BY <1>3, EditFacts DEF Shapes
<1>11. OwedOK'
  <2>1. game'.at # "emit" => game'.todo = {}
    BY <1>3, <1>5
  <2>2. ASSUME NEW s \in Slots, history'.owed[s] # 0
        PROVE  stage'[s] = history'.owed[s] /\ (PathOf[s] \in game'.pending \/ s \in game'.todo)
    <3>1. s # x /\ history'.owed[s] = history.owed[s] /\ history.owed[s] # 0
      BY <1>7, <1>10, <2>2
    <3>2. stage[s] = history.owed[s] /\ (PathOf[s] \in game.pending \/ s \in game.todo)
      BY <3>1, EditFacts DEF OwedOK, Owed
    <3> QED BY <1>2, <1>3, <1>5, <3>1, <3>2
  <2> QED BY <2>1, <2>2 DEF OwedOK, Owed
<1>12. CASE ~sent
  <2>1. q = history.submitted /\ u = emitter.outbox
    BY <1>3, <1>12
  <2>2. history'.owed = [s \in Slots |-> history'.owed[s]] /\ stage' = [s \in Slots |-> stage'[s]]
    BY <1>2, <1>7, <1>10, EditFacts DEF Shapes
  <2> QED BY <1>2, <1>5, <1>7, <1>9, <1>11, <2>1, <2>2, OwedMoves
<1>13. CASE sent
  <2>1. PICK s, k, n, t : /\ s = history.submitted /\ k = emitter.acked /\ n = emitter.sent
                          /\ t = server.through
    OBVIOUS
  <2>2. /\ IsSeq(s) /\ k \in Nat /\ n \in Nat /\ t \in Nat /\ k <= t /\ t <= Len(s)
        /\ k + n <= Len(s) /\ Len(s) \in Nat /\ history.committed = SubSeq(s, 1, t)
        /\ emitter.outbox = SubSeq(s, k + 1, Len(s))
    BY <2>1, EditFacts, SeqFacts DEF ProducerOK
  <2>3. q = Append(s, txn) /\ u = Append(emitter.outbox, txn)
    BY <1>3, <1>13, <2>1
  <2>4. IsSeq(q) /\ Len(q) = Len(s) + 1
    BY <2>2, <2>3, AppendSeq
  <2>5. u = SubSeq(q, k + 1, Len(q))
    <3>1. k <= Len(s)
      BY <2>2
    <3>2. Append(SubSeq(s, k + 1, Len(s)), txn) = SubSeq(Append(s, txn), k + 1, Len(Append(s, txn)))
      BY <2>2, <3>1, EndGrows
    <3> QED BY <2>2, <2>3, <3>2
  <2>6. SubSeq(q, 1, t) = SubSeq(s, 1, t)
    <3>1. SubSeq(Append(s, txn), 0 + 1, t) = SubSeq(s, 0 + 1, t)
      BY <2>2, PartOfLonger
    <3>2. 0 + 1 = 1
      OBVIOUS
    <3> QED BY <2>3, <3>1, <3>2
  <2>7. SubSeq(q, t + 1, k + n) = SubSeq(s, t + 1, k + n)
    <3>1. PICK b \in Nat : b = k + n
      BY <2>2
    <3>2. SubSeq(Append(s, txn), t + 1, b) = SubSeq(s, t + 1, b)
      BY <2>2, <3>1, PartOfLonger
    <3> QED BY <2>3, <3>1, <3>2
  <2>8. ProducerOK'
    <3>1. t <= Len(q) /\ k + n <= Len(q)
      BY <2>2, <2>4
    <3>2. history'.committed = SubSeq(q, 1, t)
      BY <1>7, <2>2, <2>6
    <3> QED BY <1>2, <1>7, <1>9, <2>1, <2>2, <2>5, <3>1, <3>2 DEF ProducerOK
  <2>9. WireOK'
    <3>1. InSequence' <=> InSequence
      BY <1>2 DEF InSequence
    <3>2. RepliesOK' <=> RepliesOK
      BY <1>2, <1>9 DEF RepliesOK, Outstanding
    <3>3. CASE emitter.at = "ready"
      <4>1. /\ ~emitter.recovery /\ t <= k + n /\ RepliesOK
            /\ InSequence => ewire = SubSeq(s, t + 1, k + n)
        BY <2>1, <3>3, EditFacts DEF WireOK
      <4> QED BY <1>2, <1>7, <1>9, <2>1, <2>7, <3>1, <3>2, <3>3, <4>1 DEF WireOK
    <3>4. CASE emitter.at # "ready"
      BY <1>2, <1>9, <3>4, EditFacts DEF WireOK
    <3> QED BY <3>3, <3>4
  <2>10. Shapes'
    <3>1. history'.owed = [slot \in Slots |-> history'.owed[slot]] /\ DOMAIN history'.owed = Slots
      BY <1>7, <1>10
    <3> QED BY <1>2, <1>5, <1>7, <1>9, <2>4, <3>1, EditFacts DEF Shapes
  <2> QED BY <1>11, <2>8, <2>9, <2>10 DEF EditInvariant
<1> QED BY <1>12, <1>13

-----------------------------------------------------------------------------
(* Connecting again.                                                        *)

\* Between a disconnection and the next connection there is no emitter.
Parted ==
    /\ "at" \in DOMAIN receiver
    /\ receiver.at = "none" /\ game.at # "flush" => emitter.at = "none"

LEMMA ConnectResolvedSteps == EditInvariant /\ Parted /\ ConnectResolved => EditInvariant'
<1> SUFFICES ASSUME EditInvariant, Parted, ConnectResolved PROVE EditInvariant'
  OBVIOUS
<1>1. /\ UNCHANGED <<server, ewire, replies, game, stage, history>> /\ ~emitter.recovery
      /\ game.at = "idle" /\ receiver.at = "none"
      /\ emitter' = StartEmitter(emitter, history.wait /\ ~game.token)
  BY DEF ConnectResolved
<1>2. emitter.at = "none"
  BY <1>1 DEF Parted
<1>3. PICK a \in {"deferred", "begin"} :
        a = IF history.wait /\ ~game.token THEN "deferred" ELSE "begin"
  OBVIOUS
<1>4. emitter' = [emitter EXCEPT !.at = a, !.stop = FALSE, !.gen = 0]
  BY <1>1, <1>3 DEF StartEmitter
<1>5. /\ EmitterRec(emitter') /\ emitter'.at = a /\ emitter'.outbox = emitter.outbox
      /\ emitter'.sent = emitter.sent /\ emitter'.acked = emitter.acked
      /\ emitter'.recovery = emitter.recovery
  BY <1>4, EditFacts DEF EmitterRec
<1>6. ProducerOK'
  BY <1>1, <1>5, EditFacts DEF ProducerOK
<1>7. WireOK'
  BY <1>1, <1>2, <1>5, EditFacts DEF WireOK
<1> QED BY <1>1, <1>5, <1>6, <1>7, EditFacts, ProducerMoves

\* Steps of the receiver and of the tick neither part from it nor rejoin it.
LEMMA PartedMoves ==
    ASSUME Parted, "at" \in DOMAIN receiver',
           receiver.at = "none" <=> receiver'.at = "none",
           game.at = "flush" <=> game'.at = "flush",
           emitter.at = "none" => emitter'.at = "none"
    PROVE  Parted'
BY DEF Parted

\* A step after which the receiver is there.
LEMMA PartedNot ==
    ASSUME "at" \in DOMAIN receiver', receiver'.at # "none"
    PROVE  Parted'
BY DEF Parted

LEMMA PartedReceiver ==
    ASSUME Parted, ReceiverThread \/ ReceiverHelloFails \/ ReceiverLoss
    PROVE  Parted'
<1>0. "at" \in DOMAIN receiver
  BY DEF Parted
<1>1. CASE ReceiverBegin
  <2>1. receiver' = [BeginConnection(receiver) EXCEPT !.at = "hello"]
    BY <1>1 DEF ReceiverBegin
  <2>2. "at" \in DOMAIN BeginConnection(receiver)
    BY <1>0 DEF BeginConnection, ResetSynchronization
  <2> QED BY <2>1, <2>2, PartedNot
<1>2. CASE ReceiverHello \/ ReadApplied \/ ReceiverLoss
  <2>1. "at" \in DOMAIN receiver' /\ receiver'.at # "none"
    BY <1>0, <1>2 DEF ReceiverHello, ReadApplied, ReceiverLoss
  <2> QED BY <2>1, PartedNot
<1>3. CASE ReceiverHelloFails
  <2>1. receiver' = [Disconnect(receiver) EXCEPT !.at = "begin"]
    BY <1>3 DEF ReceiverHelloFails
  <2>2. "at" \in DOMAIN Disconnect(receiver)
    BY <1>0 DEF Disconnect, ResetSynchronization
  <2> QED BY <2>1, <2>2, PartedNot
<1>4. "at" \in DOMAIN Leave(receiver) /\ Leave(receiver).at = "lost"
  <2>1. "at" \in DOMAIN Disconnect(receiver)
    BY <1>0 DEF Disconnect, ResetSynchronization
  <2> QED BY <2>1 DEF Leave
<1>5. ASSUME NEW f
      PROVE  "at" \in DOMAIN Accept(receiver, f) /\ Accept(receiver, f).at = receiver.at
  <2>1. PICK q, n, m : /\ n = Append(receiver.inbox, f)
                       /\ m = (IF f.t = "resync" THEN 0 ELSE f.seq)
                       /\ q = [receiver EXCEPT !.inbox = n, !.received = m]
    OBVIOUS
  <2>2. "at" \in DOMAIN q /\ q.at = receiver.at
    BY <1>0, <2>1
  <2>3. Accept(receiver, f) = IF f.t = "resync" THEN [q EXCEPT !.marker = None] ELSE q
    BY <2>1 DEF Accept, ResetSynchronization
  <2> QED BY <2>2, <2>3
<1>6. CASE ReceiveEvent
  <2>1. receiver.at = "reading"
    BY <1>6 DEF ReceiveEvent
  <2>2. \/ receiver' = Accept(receiver, Head(rwire)) \/ receiver' = receiver
        \/ receiver' = Leave(receiver)
    BY <1>6 DEF ReceiveEvent
  <2> QED BY <1>0, <1>4, <1>5, <2>1, <2>2, PartedNot
<1>7. CASE ReceiveResync
  <2>1. receiver.at = "reading"
    BY <1>7 DEF ReceiveResync
  <2>2. PICK f : f = Head(rwire)
    OBVIOUS
  <2>3. receiver' = [Accept(receiver, f) EXCEPT !.batch = f.b] \/ receiver' = Leave(receiver)
    BY <1>7, <2>2 DEF ReceiveResync
  <2>4. "at" \in DOMAIN receiver' /\ receiver'.at # "none"
    BY <1>4, <1>5, <2>1, <2>3
  <2> QED BY <2>4, PartedNot
<1>8. CASE ReceiveComplete
  <2>1. receiver.at = "reading"
    BY <1>8 DEF ReceiveComplete
  <2>2. receiver' = AcceptReplayComplete(receiver, Head(rwire)) \/ receiver' = Leave(receiver)
    BY <1>8 DEF ReceiveComplete
  <2>3. "at" \in DOMAIN receiver' /\ receiver'.at # "none"
    BY <1>0, <1>4, <2>1, <2>2 DEF AcceptReplayComplete
  <2> QED BY <2>3, PartedNot
<1>9. CASE ReceiveNothing
  BY <1>4, <1>9, PartedNot DEF ReceiveNothing
<1>10. CASE RequestReplay
  <2>1. \/ receiver' = [RequestReplayFrom(receiver, receiver.read + 1) EXCEPT !.at = "begin"]
        \/ receiver' = [receiver EXCEPT !.at = "begin"]
    BY <1>10 DEF RequestReplay
  <2>2. "at" \in DOMAIN RequestReplayFrom(receiver, receiver.read + 1)
    BY <1>0 DEF RequestReplayFrom, ResetSynchronization
  <2>3. "at" \in DOMAIN receiver' /\ receiver'.at # "none"
    BY <1>0, <2>1, <2>2
  <2> QED BY <2>3, PartedNot
<1> QED BY <1>1, <1>2, <1>3, <1>6, <1>7, <1>8, <1>9, <1>10 DEF ReceiverThread

LEMMA PartedGame ==
    ASSUME Parted, GameRec(game), EmitterRec(emitter), GameThread \/ ApplyFails
    PROVE  Parted'
<1>0. "at" \in DOMAIN receiver
  BY DEF Parted
<1>1. "at" \in DOMAIN TryPop(receiver) /\ TryPop(receiver).at = receiver.at
  <2>1. PICK q, m : TryPop(receiver) = [receiver EXCEPT !.inbox = q, !.marker = m]
    BY DEF TryPop
  <2> QED BY <1>0, <2>1
<1>2. /\ "at" \in DOMAIN RequestReplayFrom(receiver, receiver.applied + 1)
      /\ RequestReplayFrom(receiver, receiver.applied + 1).at = receiver.at
  BY <1>0 DEF RequestReplayFrom, ResetSynchronization
<1>3. "at" \in DOMAIN receiver' /\ receiver'.at = receiver.at
  <2>1. CASE Tick \/ ApplyStops
    <3>1. receiver' = receiver \/ receiver' = [receiver EXCEPT !.marker = None]
      BY <2>1 DEF Tick, ApplyStops, PublishReplayIfApplied
    <3> QED BY <1>0, <3>1
  <2>2. CASE PublishReplay \/ DrainAndEmit \/ EmitFrame
    BY <1>0, <2>2 DEF PublishReplay, DrainAndEmit, EmitFrame
  <2>3. CASE ApplyFrame \/ ApplyFails
    <3>1. receiver' = TryPop(receiver) \/ receiver' = [TryPop(receiver) EXCEPT !.applied = 0]
      BY <2>3 DEF ApplyFrame, ApplyFails
    <3> QED BY <1>1, <3>1
  <2>4. CASE MarkAppliedThrough
    <3>1. receiver' = receiver \/ receiver' = [receiver EXCEPT !.applied = game.last]
      BY <2>4 DEF MarkAppliedThrough
    <3> QED BY <1>0, <3>1
  <2>5. CASE RequestReceiverReplay
    <3>1. receiver' = [RequestReplayFrom(receiver, receiver.applied + 1) EXCEPT !.up = FALSE]
      BY <2>5 DEF RequestReceiverReplay
    <3> QED BY <1>2, <3>1
  <2> QED BY <2>1, <2>2, <2>3, <2>4, <2>5 DEF GameThread
<1>4. game.at # "flush"
  BY DEF GameThread, Tick, ApplyStops, PublishReplay, DrainAndEmit, EmitFrame, ApplyFrame,
     ApplyFails, MarkAppliedThrough, RequestReceiverReplay
<1>5. emitter.at = "none" => emitter'.at = "none"
  <2>1. CASE DrainAndEmit
    BY <2>1 DEF DrainAndEmit
  <2>2. CASE EmitFrame
    <3>1. PICK q : emitter' = emitter \/ emitter' = [emitter EXCEPT !.outbox = q]
      BY <2>2 DEF EmitFrame
    <3> QED BY <3>1 DEF EmitterRec
  <2>3. CASE Tick \/ ApplyStops \/ PublishReplay \/ ApplyFrame \/ ApplyFails
             \/ MarkAppliedThrough \/ RequestReceiverReplay
    BY <2>3 DEF Tick, ApplyStops, PublishReplay, ApplyFrame, ApplyFails, MarkAppliedThrough,
       RequestReceiverReplay
  <2> QED BY <2>1, <2>2, <2>3 DEF GameThread
<1>6. receiver.at = "none" => emitter'.at = "none"
  BY <1>4, <1>5 DEF Parted
<1> QED BY <1>3, <1>6 DEF Parted

LEMMA PartedElse ==
    ASSUME Parted, GameRec(game), EmitterRec(emitter),
           EmitterThread \/ User \/ EmitterLoss \/ ServerReject \/ RewriteHistory
           \/ ServerCommit \/ RemoteCommit
    PROVE  Parted'
<1>0. "at" \in DOMAIN receiver
  BY DEF Parted
<1>1. CASE EmitterThread \/ EmitterLoss
  <2>1. receiver' = receiver /\ game' = game /\ emitter.at # "none"
    BY <1>1 DEF EmitterThread, EmitterConnect, EmitterSend, EmitterResult, EmitterClose, EmitterLoss
  <2> QED BY <1>0, <2>1, PartedMoves
<1>2. CASE UserEdit
  <2>1. receiver' = receiver /\ emitter' = emitter /\ game.at = "idle"
    BY <1>2 DEF UserEdit
  <2>2. PICK p : game' = game \/ game' = [game EXCEPT !.pending = p]
    BY <1>2 DEF UserEdit
  <2>3. game'.at = game.at
    BY <2>2 DEF GameRec
  <2> QED BY <1>0, <2>1, <2>3, PartedMoves
<1>3. CASE UserDisconnect
  <2>1. /\ game' = [game EXCEPT !.at = "flush", !.attached = FALSE, !.pending = {}, !.emitted = FALSE]
        /\ receiver' = [receiver EXCEPT !.at = "none", !.up = FALSE]
    BY <1>3 DEF UserDisconnect
  <2>2. game'.at = "flush"
    BY <2>1 DEF GameRec
  <2>3. "at" \in DOMAIN receiver'
    BY <1>0, <2>1
  <2> QED BY <2>2, <2>3 DEF Parted
<1>4. CASE StopClients
  <2>1. receiver' = receiver /\ emitter' = [MarkAllUnsent(emitter) EXCEPT !.at = "none"]
    BY <1>4 DEF StopClients
  <2>2. emitter'.at = "none"
    BY <2>1 DEF MarkAllUnsent, EmitterRec
  <2> QED BY <1>0, <2>1, <2>2 DEF Parted
<1>5. CASE ConnectResolved
  <2>1. receiver' = NewSession(history.snapshot)
    BY <1>5 DEF ConnectResolved
  <2>2. "at" \in DOMAIN receiver' /\ receiver'.at = "begin"
    BY <2>1 DEF NewSession
  <2> QED BY <2>2, PartedNot
<1>6. CASE ServerReject \/ RewriteHistory \/ ServerCommit \/ RemoteCommit
  <2>1. UNCHANGED <<receiver, emitter, game>>
    BY <1>6 DEF ServerReject, RewriteHistory, ServerCommit, RemoteCommit
  <2> QED BY <1>0, <2>1, PartedMoves
<1> QED BY <1>1, <1>2, <1>3, <1>4, <1>5, <1>6 DEF User

-----------------------------------------------------------------------------
(* The theorems.                                                            *)

LEMMA EditInit == Init => EditInvariant /\ Parted
<1> SUFFICES ASSUME Init PROVE EditInvariant /\ Parted
  OBVIOUS
<1>1. PICK sc \in Scenarios :
        /\ server = [log |-> sc.log, epoch |-> 0, through |-> 0]
        /\ ewire = <<>> /\ replies = <<>>
        /\ receiver = NewSession(sc.snapshot)
        /\ emitter = StartEmitter(NewProducer, sc.token)
        /\ game = NewGame
        /\ stage = Fold(sc.log, sc.snapshot)
        /\ history = [made |-> Len(sc.log), owed |-> [x \in Slots |-> 0], stray |-> {},
                      submitted |-> <<>>, committed |-> <<>>, batches |-> 0,
                      late |-> FALSE, snapshot |-> sc.snapshot, epoch |-> 0,
                      edited |-> sc.edited, wait |-> sc.token]
  BY DEF Init
<1>2. sc.edited \subseteq Slots
  BY ConstantsAssumption
<1>3. PICK w : w = sc.token
  OBVIOUS
<1>4. ServerRec(server) /\ server.through = 0
  BY <1>1 DEF ServerRec
<1>5. PICK a \in {"deferred", "begin"} : a = IF w THEN "deferred" ELSE "begin"
  OBVIOUS
<1>6. emitter = [at |-> a, outbox |-> <<>>, sent |-> 0, acked |-> 0, recovery |-> FALSE,
                 stop |-> FALSE, gen |-> 0]
  BY <1>1, <1>3, <1>5 DEF StartEmitter, NewProducer
<1>7. /\ EmitterRec(emitter) /\ emitter.at = a /\ emitter.outbox = <<>> /\ emitter.sent = 0
      /\ emitter.acked = 0 /\ ~emitter.recovery
  BY <1>6 DEF EmitterRec
<1>8. GameRec(game) /\ game.at = "idle" /\ game.todo = {}
  BY <1>1 DEF NewGame, GameRec
<1>9. /\ HistoryRec(history) /\ history.owed = [x \in Slots |-> 0] /\ history.submitted = <<>>
      /\ history.committed = <<>> /\ history.edited \subseteq Slots
  BY <1>1, <1>2 DEF HistoryRec
<1>10. DOMAIN stage = Slots /\ stage = [s \in Slots |-> stage[s]]
  BY <1>1 DEF Fold
<1>11. Shapes
  BY <1>1, <1>4, <1>7, <1>8, <1>9, <1>10, NothingIsSeq DEF Shapes
<1>12. SubSeq(<<>>, 1, 0) = <<>> /\ SubSeq(<<>>, 0 + 1, Len(<<>>)) = <<>> /\ Len(<<>>) = 0
  BY NothingIsSeq, PartSeq
<1>13. ProducerOK
  BY <1>4, <1>7, <1>9, <1>12 DEF ProducerOK
<1>14. WireOK
  BY <1>1, <1>7 DEF WireOK
<1>15. OwedOK
  BY <1>8, <1>9 DEF OwedOK, Owed
<1>16. Parted
  BY <1>1 DEF Parted, NewSession
<1> QED BY <1>11, <1>13, <1>14, <1>15, <1>16 DEF EditInvariant

LEMMA EditStep ==
    ASSUME EditInvariant, Parted, [Next]_vars
    PROVE  EditInvariant' /\ Parted'
<1>1. CASE ReceiverThread \/ ReceiverHelloFails \/ ReceiverLoss
  BY <1>1, ReceiverThreadSteps, PartedReceiver
<1>2. CASE EmitterThread
  <2>1. EditInvariant'
    BY <1>2, ConnectSteps, SendSteps, ResultSteps, CloseSteps DEF EmitterThread
  <2> QED BY <1>2, <2>1, EditFacts, PartedElse
<1>3. CASE GameThread \/ ApplyFails
  <2>1. EditInvariant'
    BY <1>3, TickSteps, ApplySteps, DrainSteps, DrainAndEmitSteps, EmitSteps DEF GameThread
  <2> QED BY <1>3, <2>1, EditFacts, PartedGame
<1>4. CASE User
  <2>1. EditInvariant'
    BY <1>4, UserEditSteps, UserDisconnectSteps, StopSteps, ConnectResolvedSteps DEF User
  <2> QED BY <1>4, <2>1, EditFacts, PartedElse
<1>5. CASE EmitterLoss \/ ServerReject \/ RewriteHistory \/ ServerCommit \/ RemoteCommit
  <2>1. EditInvariant'
    BY <1>5, LossSteps, RejectSteps, HistorySteps, ServerCommitSteps
  <2> QED BY <1>5, <2>1, EditFacts, PartedElse
<1>6. CASE UNCHANGED vars
  <2>1. UNCHANGED <<server, emitter, ewire, replies, game, stage, history>> /\ receiver' = receiver
    BY <1>6 DEF vars
  <2> QED BY <2>1, StillEdits DEF Parted
<1> QED BY <1>1, <1>2, <1>3, <1>4, <1>5, <1>6 DEF Next, Faults

\* The inductive invariant of the edits and of the producer's queue holds
\* throughout (UUSDConnectSubsystem, FEmitClient, OrderedProducerSession).
THEOREM EditInvariance == Spec => [](EditInvariant /\ Parted)
<1>1. Init => EditInvariant /\ Parted
  BY EditInit
<1>2. EditInvariant /\ Parted /\ [Next]_vars => EditInvariant' /\ Parted'
  BY EditStep
<1> QED BY <1>1, <1>2, PTL DEF Spec

\* No edit the listener saw is lost between the stage, the pending paths and
\* the outbox, and every submitted transaction is committed exactly once and in
\* order or is still in the outbox, across losses, rejections and
\* disconnections (DrainAndEmit, AcknowledgeThrough, MarkAllUnsent).
THEOREM EditsAlwaysKept == Spec => []EditsKept
<1>1. EditInvariant => EditsKept
  BY DEF EditInvariant, ProducerOK, OwedOK, EditsKept
<1> QED BY <1>1, EditInvariance, PTL
=============================================================================
