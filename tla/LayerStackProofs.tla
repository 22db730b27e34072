-------------------------- MODULE LayerStackProofs --------------------------
(***************************************************************************)
(* For any number of layered receivers, stages, records and rebinds, a     *)
(* stage shows the synchronized metadata while a receiver that has some is *)
(* bound to it, and its own at any other time (StageRestored).             *)
(*                                                                         *)
(* The property alone is not inductive: what a stage gets back is the      *)
(* baseline that was captured when it was bound, so the proof needs that   *)
(* every baseline is the stage's own metadata, that no two receivers are   *)
(* bound to one stage, that a receiver without a stage remembers nothing,  *)
(* and that metadata on its way to a receiver is some value.               *)
(***************************************************************************)
EXTENDS LayerStack, FiniteSetTheorems, SequenceTheorems, NaturalsInduction, TLAPS

\* A record that carries metadata carries a value.
MetaOK(record) == record.k = "meta" => record.v \in Values

\* Sequences of such records, and of frames with such records.
RecordsOK(records) == \E S : records \in Seq(S) /\ \A e \in S : MetaOK(e)
FrameOK(f) == f.type = "record" => MetaOK(f.record) /\ f.seq \in Nat
FramesOK(frames) ==
    \E S : frames \in Seq(S) /\ \A f \in S : FrameOK(f)

TrafficOK ==
    /\ RecordsOK(log)
    /\ applied \in [Receivers -> Nat]
    /\ DOMAIN wire = Receivers
    /\ \A r \in Receivers : FramesOK(wire[r])

\* What is shown on a stage that is bound with this metadata.
Shows(stage, meta) == IF meta = None THEN stage ELSE meta

SessionsOK(sess, sh) ==
    /\ sess \in [Receivers -> [stage : Stages \union {None}, baseline : Stages \union {None},
                               meta : Values \union {None}]]
    /\ sh \in [Stages -> Stages \union Values]
    /\ \A r \in Receivers : sess[r].baseline = sess[r].stage
    /\ \A r \in Receivers : sess[r].stage = None => sess[r].meta = None
    /\ \A r \in Receivers \ Layered : sess[r].stage = None
    /\ \A q, r \in Receivers : q # r /\ sess[q].stage = sess[r].stage => sess[r].stage = None
    /\ \A r \in Receivers :
          sess[r].stage # None => sh[sess[r].stage] = Shows(sess[r].stage, sess[r].meta)
    /\ \A s \in Stages : (\A r \in Receivers : sess[r].stage # s) => sh[s] = s

\* The inductive invariant.
SessionInvariant == TrafficOK /\ SessionsOK(session, shown)

-----------------------------------------------------------------------------
(* Sequences of records and frames.                                         *)

LEMMA AppendRecords ==
    ASSUME NEW s, RecordsOK(s), NEW e, MetaOK(e)
    PROVE  RecordsOK(Append(s, e))
<1>1. PICK S : s \in Seq(S) /\ \A x \in S : MetaOK(x)
  BY DEF RecordsOK
<1>2. Append(s, e) \in Seq(S \union {e})
  <2>1. s \in Seq(S \union {e})
    BY <1>1
  <2> QED BY <2>1
<1> QED BY <1>1, <1>2 DEF RecordsOK

LEMMA AppendFrames ==
    ASSUME NEW s, FramesOK(s), NEW f, FrameOK(f)
    PROVE  FramesOK(Append(s, f))
<1>1. PICK S : s \in Seq(S) /\ \A x \in S : FrameOK(x)
  BY DEF FramesOK
<1>2. Append(s, f) \in Seq(S \union {f})
  <2>1. s \in Seq(S \union {f})
    BY <1>1
  <2> QED BY <2>1
<1> QED BY <1>1, <1>2 DEF FramesOK

LEMMA EmptyFrames == FramesOK(<<>>)
<1> DEFINE S == {x \in {} : FALSE}
<1>1. <<>> \in Seq(S)
  OBVIOUS
<1>2. \A f \in S : FrameOK(f)
  OBVIOUS
<1> QED BY <1>1, <1>2 DEF FramesOK

LEMMA OneFrame ==
    ASSUME NEW f, FrameOK(f)
    PROVE  FramesOK(<<f>>)
<1>1. <<f>> = Append(<<>>, f)
  OBVIOUS
<1> QED BY <1>1, EmptyFrames, AppendFrames

LEMMA ConcatFrames ==
    ASSUME NEW s, FramesOK(s), NEW t, FramesOK(t)
    PROVE  FramesOK(s \o t)
<1>1. PICK S : s \in Seq(S) /\ \A x \in S : FrameOK(x)
  BY DEF FramesOK
<1>2. PICK T : t \in Seq(T) /\ \A x \in T : FrameOK(x)
  BY DEF FramesOK
<1>3. s \in Seq(S \union T) /\ t \in Seq(S \union T)
  BY <1>1, <1>2
<1>4. s \o t \in Seq(S \union T)
  BY <1>3
<1> QED BY <1>1, <1>2, <1>4 DEF FramesOK

LEMMA PartFrames ==
    ASSUME NEW s, FramesOK(s), NEW m \in Int, NEW n \in Int, 1 <= m, n <= Len(s)
    PROVE  FramesOK(SubSeq(s, m, n))
<1>1. PICK S : s \in Seq(S) /\ \A x \in S : FrameOK(x)
  BY DEF FramesOK
<1>2. \A i \in m .. n : s[i] \in S
  BY <1>1
<1>3. SubSeq(s, m, n) \in Seq(S)
  BY <1>2, SubSeqProperties
<1> QED BY <1>1, <1>3 DEF FramesOK

\* The greatest element of a set of positions.
LEMMA GreatestExists ==
    ASSUME NEW n \in Nat, NEW I \in SUBSET (1..n), I # {}
    PROVE  \E i \in I : \A j \in I : j <= i
<1> DEFINE U == {u \in Nat : \A j \in I : j <= u}
<1>1. U \subseteq Nat /\ n \in U
  OBVIOUS
<1>2. PICK u \in U : \A v \in U : <<v, u>> \notin OpToRel(<, Nat)
  BY <1>1, NatLessThanWellFounded, WFMin
<1>3. \A v \in U : ~(v < u)
  BY <1>1, <1>2 DEF OpToRel
<1>4. u \in I
  <2> SUFFICES ASSUME u \notin I PROVE FALSE
    OBVIOUS
  <2>1. \A j \in I : j \in Nat /\ 1 <= j /\ j <= u /\ j # u
    OBVIOUS
  <2>2. u \in Nat /\ u >= 1
    <3>1. PICK j \in I : TRUE
      OBVIOUS
    <3>2. j \in Nat /\ 1 <= j /\ j <= u /\ u \in Nat
      BY <2>1
    <3> QED BY <3>2
  <2>3. u - 1 \in U
    BY <2>1, <2>2
  <2> QED BY <2>2, <2>3, <1>3
<1> QED BY <1>4

\* The position SelectLastInSeq finds.
LEMMA LastPosition ==
    ASSUME NEW n \in Nat, NEW I \in SUBSET (1..n), I # {}
    PROVE  Max(I) \in I
BY GreatestExists DEF Max

LEMMA FrameAt ==
    ASSUME NEW s, FramesOK(s), NEW i \in 1..Len(s)
    PROVE  FrameOK(s[i])
BY DEF FramesOK

LEMMA FramesLength ==
    ASSUME NEW s, FramesOK(s)
    PROVE  Len(s) \in Nat /\ DOMAIN s = 1..Len(s)
BY DEF FramesOK

\* The metadata of a batch is one value for the receiver and its stage, or
\* leaves both as they are.
LEMMA LastMetaIsUniform ==
    ASSUME NEW s, FramesOK(s)
    PROVE  \/ \A old : LastMeta(s, old) = old
           \/ \E v \in Values : \A old : LastMeta(s, old) = v
<1> DEFINE I == {i \in 1..Len(s) : s[i].type = "record" /\ IsSession(s[i].record)}
           last == SelectLastInSeq(s, LAMBDA m : m.type = "record" /\ IsSession(m.record))
<1>1. Len(s) \in Nat
  BY FramesLength
<1>2. last = IF I # {} THEN Max(I) ELSE 0
  BY DEF SelectLastInSeq
<1>3. CASE I = {}
  BY <1>2, <1>3 DEF LastMeta
<1>4. CASE I # {}
  <2>1. last \in I
    BY <1>1, <1>2, <1>4, LastPosition
  <2>2. last # 0
    BY <2>1
  <2>3. FrameOK(s[last])
    BY <2>1, FrameAt
  <2>4. s[last].record.v \in Values
    BY <2>1, <2>3 DEF FrameOK, MetaOK, IsSession
  <2>5. \A old : LastMeta(s, old) = s[last].record.v
    BY <2>2 DEF LastMeta
  <2> QED BY <2>4, <2>5
<1> QED BY <1>3, <1>4

LEMMA SinceResyncFrames ==
    ASSUME NEW s, FramesOK(s)
    PROVE  FramesOK(SinceResync(s))
<1> DEFINE at == {i \in DOMAIN s : s[i].type = "resync"}
<1>1. Len(s) \in Nat /\ DOMAIN s = 1..Len(s)
  BY FramesLength
<1>2. CASE at = {}
  BY <1>2 DEF SinceResync
<1>3. CASE at # {}
  <2> DEFINE k == CHOOSE i \in at : \A j \in at : j <= i
  <2>1. k \in at
    BY <1>1, <1>3, GreatestExists
  <2>2. FramesOK(SubSeq(s, k + 1, Len(s)))
    <3> HIDE DEF k
    <3> QED BY <1>1, <2>1, PartFrames
  <2> QED BY <1>3, <2>2 DEF SinceResync
<1> QED BY <1>2, <1>3

LEMMA LastSeqIsNat ==
    ASSUME TrafficOK, NEW r \in Receivers, NEW s, FramesOK(s)
    PROVE  LastSeq(r, s) \in Nat
<1> DEFINE f == SinceResync(s)
           I == {i \in 1..Len(f) : f[i].type = "record"}
           last == SelectLastInSeq(f, LAMBDA m : m.type = "record")
<1>1. FramesOK(f)
  BY SinceResyncFrames
<1>2. Len(f) \in Nat
  BY <1>1, FramesLength
<1>3. last = IF I # {} THEN Max(I) ELSE 0
  BY DEF SelectLastInSeq
<1>4. applied[r] \in Nat
  BY DEF TrafficOK
<1>5. CASE I = {}
  BY <1>3, <1>4, <1>5 DEF LastSeq
<1>6. CASE I # {}
  <2> HIDE DEF f
  <2>1. last \in I
    BY <1>2, <1>3, <1>6, LastPosition
  <2>2. f[last].seq \in Nat
    BY <2>1, <1>1, FrameAt DEF FrameOK
  <2> QED BY <2>1, <2>2 DEF LastSeq, f
<1> QED BY <1>5, <1>6

-----------------------------------------------------------------------------
(* Sessions.                                                                *)

\* There is a stage for a receiver that has none.
LEMMA FreeStageExists ==
    ASSUME SessionsOK(session, shown), NEW r \in Layered, session[r].stage = None
    PROVE  \E s \in Stages : IsFree(s)
<1> DEFINE Others == Layered \ {r}
           Taken == {session[q].stage : q \in Others}
<1>1. IsFiniteSet(Others) /\ Cardinality(Others) = Cardinality(Layered) - 1
  BY LayersAssumption, FS_RemoveElement
<1>2. IsFiniteSet(Taken) /\ Cardinality(Taken) <= Cardinality(Others)
  <2> DEFINE stageOf == [q \in Others |-> session[q].stage]
  <2>1. stageOf \in Surjection(Others, Taken)
    BY DEF Surjection
  <2> QED BY <2>1, <1>1, FS_Surjection
<1>3. Cardinality(Layered) \in Nat /\ Cardinality(Stages) \in Nat /\ Cardinality(Taken) \in Nat
  BY <1>2, LayersAssumption, FS_CardinalityType
<1>4. ~(Stages \subseteq Taken)
  <2> SUFFICES ASSUME Stages \subseteq Taken PROVE FALSE
    OBVIOUS
  <2>1. Cardinality(Stages) <= Cardinality(Taken)
    BY <1>2, FS_Subset
  <2> QED BY <2>1, <1>1, <1>2, <1>3, LayersAssumption
<1>5. PICK s \in Stages : s \notin Taken
  BY <1>4
<1>6. \A q \in Receivers : session[q].stage # s
  <2> SUFFICES ASSUME NEW q \in Receivers, session[q].stage = s PROVE FALSE
    OBVIOUS
  <2>1. s # None
    BY LayersAssumption
  <2>2. q \in Layered
    BY <2>1 DEF SessionsOK
  <2> QED BY <1>5, <2>1, <2>2
<1> QED BY <1>6 DEF IsFree

\* Receiver r ends up with stage s, its own until then or nobody's, and
\* metadata m; the stage it had before shows its own again.
Rebound(sess, r, s, m) == [sess EXCEPT ![r] = [stage |-> s, baseline |-> s, meta |-> m]]
Rebinds(sess, sh, r, s, m, after) ==
    /\ s \in Stages \union {None} /\ m \in Values \union {None}
    /\ s = None => m = None
    /\ s # None => \A q \in Receivers : q # r => sess[q].stage # s
    /\ after \in [Stages -> Stages \union Values]
    /\ \A t \in Stages : after[t] = IF t = s THEN Shows(s, m)
                                    ELSE IF t = sess[r].stage THEN t ELSE sh[t]

LEMMA Rebinding ==
    ASSUME NEW sess, NEW sh, SessionsOK(sess, sh), NEW r \in Layered,
           NEW s, NEW m, NEW after, Rebinds(sess, sh, r, s, m, after)
    PROVE  SessionsOK(Rebound(sess, r, s, m), after)
<1> USE DEF Rebinds
<1> DEFINE new == Rebound(sess, r, s, m)
<1>1. r \in Receivers /\ None \notin Stages
  BY LayersAssumption
<1>2. /\ new \in [Receivers -> [stage : Stages \union {None}, baseline : Stages \union {None},
                                meta : Values \union {None}]]
      /\ new[r] = [stage |-> s, baseline |-> s, meta |-> m]
      /\ \A q \in Receivers : q # r => new[q] = sess[q]
  BY <1>1 DEF SessionsOK, Rebound
<1> HIDE DEF new
<1>3. \A q \in Receivers : new[q].baseline = new[q].stage
  BY <1>2 DEF SessionsOK
<1>4. \A q \in Receivers : new[q].stage = None => new[q].meta = None
  BY <1>2 DEF SessionsOK
<1>5. \A q \in Receivers \ Layered : new[q].stage = None
  BY <1>2 DEF SessionsOK
<1>6. \A p, q \in Receivers : p # q /\ new[p].stage = new[q].stage => new[q].stage = None
  <2> SUFFICES ASSUME NEW p \in Receivers, NEW q \in Receivers, p # q,
                      new[p].stage = new[q].stage, new[q].stage # None
               PROVE  FALSE
    OBVIOUS
  <2>1. CASE p = r
    BY <2>1, <1>2
  <2>2. CASE q = r
    BY <2>2, <1>2
  <2>3. CASE p # r /\ q # r
    BY <2>3, <1>2 DEF SessionsOK
  <2> QED BY <2>1, <2>2, <2>3
<1>7. \A q \in Receivers :
        new[q].stage # None => after[new[q].stage] = Shows(new[q].stage, new[q].meta)
  <2> SUFFICES ASSUME NEW q \in Receivers, new[q].stage # None
               PROVE  after[new[q].stage] = Shows(new[q].stage, new[q].meta)
    OBVIOUS
  <2>1. CASE q = r
    BY <2>1, <1>1, <1>2
  <2>2. CASE q # r
    <3>1. sess[q].stage \in Stages /\ sess[q].stage # s /\ sess[q].stage # sess[r].stage
      BY <2>2, <1>1, <1>2 DEF SessionsOK
    <3>2. after[sess[q].stage] = sh[sess[q].stage]
      BY <3>1
    <3>3. sh[sess[q].stage] = Shows(sess[q].stage, sess[q].meta)
      BY <3>1, <1>1 DEF SessionsOK
    <3> QED BY <2>2, <3>2, <3>3, <1>2
  <2> QED BY <2>1, <2>2
<1>8. \A t \in Stages : (\A q \in Receivers : new[q].stage # t) => after[t] = t
  <2> SUFFICES ASSUME NEW t \in Stages, \A q \in Receivers : new[q].stage # t
               PROVE  after[t] = t
    OBVIOUS
  <2>1. t # s
    BY <1>1, <1>2
  <2>2. CASE t = sess[r].stage
    BY <2>1, <2>2
  <2>3. CASE t # sess[r].stage
    <3>1. \A q \in Receivers : sess[q].stage # t
      BY <2>3, <1>2
    <3>2. sh[t] = t
      BY <3>1 DEF SessionsOK
    <3> QED BY <2>1, <2>3, <3>2
  <2> QED BY <2>2, <2>3
<1>9. new = Rebound(sess, r, s, m)
  BY DEF new
<1> QED BY <1>2, <1>3, <1>4, <1>5, <1>6, <1>7, <1>8, <1>9 DEF SessionsOK

\* What a batch starts from: a stage of r's own that shows what r remembers.
LEMMA BoundSessionOwn ==
    ASSUME SessionsOK(session, shown), NEW r \in Layered
    PROVE  \E s \in Stages, m \in Values \union {None} :
              /\ BoundSession(r) = [stage |-> s, baseline |-> s, meta |-> m]
              /\ session[r].stage \in {s, None}
              /\ shown[s] = Shows(s, m)
              /\ \A q \in Receivers : q # r => session[q].stage # s
<1>1. r \in Receivers /\ None \notin Stages
  BY LayersAssumption
<1>2. session[r] = [stage |-> session[r].stage, baseline |-> session[r].stage,
                    meta |-> session[r].meta]
      /\ session[r].meta \in Values \union {None}
      /\ session[r].stage \in Stages \union {None}
  BY <1>1 DEF SessionsOK
<1>3. CASE session[r].stage # None
  <2>1. session[r].stage \in Stages /\ BoundSession(r) = session[r]
    BY <1>3, <1>2 DEF BoundSession
  <2>2. shown[session[r].stage] = Shows(session[r].stage, session[r].meta)
    BY <1>3, <1>1 DEF SessionsOK
  <2>3. \A q \in Receivers : q # r => session[q].stage # session[r].stage
    BY <1>3, <1>1 DEF SessionsOK
  <2> QED BY <1>2, <2>1, <2>2, <2>3
<1>4. CASE session[r].stage = None
  <2> DEFINE s == CHOOSE s \in Stages : IsFree(s)
  <2>1. s \in Stages /\ IsFree(s)
    BY <1>4, FreeStageExists
  <2>2. BoundSession(r) = [session[r] EXCEPT !.stage = s, !.baseline = shown[s]]
    BY <1>4 DEF BoundSession
  <2> HIDE DEF s
  <2>3. shown[s] = s /\ session[r].meta = None
    BY <2>1, <1>1, <1>4 DEF SessionsOK, IsFree
  <2>4. BoundSession(r) = [stage |-> s, baseline |-> s, meta |-> None]
    BY <1>2, <2>2, <2>3
  <2>5. \A q \in Receivers : q # r => session[q].stage # s
    BY <2>1 DEF IsFree
  <2> QED BY <1>4, <2>1, <2>3, <2>4, <2>5 DEF Shows
<1> QED BY <1>3, <1>4

LEMMA RestoredShown ==
    ASSUME SessionsOK(session, shown), NEW s \in Stages, NEW m
    PROVE  Restored([stage |-> s, baseline |-> s, meta |-> m], shown)
              = [shown EXCEPT ![s] = s]
BY LayersAssumption DEF Restored
-----------------------------------------------------------------------------
(* Every step keeps the invariant.                                          *)

\* Commit puts a good record into the log and onto the wires.
LEMMA CommitTraffic ==
    ASSUME TrafficOK, NEW record, MetaOK(record), Commit(record), UNCHANGED applied
    PROVE  TrafficOK'
<1> DEFINE frame == [type |-> "record", seq |-> Len(log) + 1, record |-> record]
<1>1. Len(log) \in Nat
  BY DEF TrafficOK, RecordsOK
<1>2. FrameOK(frame)
  BY <1>1 DEF FrameOK
<1> HIDE DEF frame
<1>3. RecordsOK(log')
  BY AppendRecords DEF Commit, TrafficOK
<1>4. DOMAIN wire' = Receivers
      /\ \A r \in Receivers : wire'[r] = IF Online(r) THEN Append(wire[r], frame) ELSE wire[r]
  BY DEF Commit, frame
<1>5. \A r \in Receivers : FramesOK(wire'[r])
  BY <1>2, <1>4, AppendFrames DEF TrafficOK
<1> QED BY <1>3, <1>4, <1>5 DEF TrafficOK

LEMMA StateFrame ==
    ASSUME NEW f, f.type # "record"
    PROVE  FramesOK(<<f>>)
BY OneFrame DEF FrameOK

\* The replay window holds records of the log.
LEMMA WindowFrames ==
    ASSUME TrafficOK, NEW r \in Receivers
    PROVE  FramesOK(Window(r))
<1> DEFINE resync == applied[r] > 0 /\ seen[r] # stack.generation
           from == IF resync THEN 1 ELSE applied[r] + 1
           n == Len(log) + 1 - from
           A == IF resync THEN <<[type |-> "resync", generation |-> stack.generation]>> ELSE <<>>
           B == IF r \in Layered THEN <<[type |-> "state", state |-> StackState]>> ELSE <<>>
           C == [i \in 1..n |-> [type |-> "record", seq |-> from + i - 1,
                                 record |-> log[from + i - 1]]]
<1>1. FramesOK(A)
  <2>1. FramesOK(<<[type |-> "resync", generation |-> stack.generation]>>)
    BY StateFrame
  <2> QED BY <2>1, EmptyFrames
<1>2. FramesOK(B)
  <2>1. FramesOK(<<[type |-> "state", state |-> StackState]>>)
    BY StateFrame
  <2> QED BY <2>1, EmptyFrames
<1>3. FramesOK(C)
  <2>1. PICK S : log \in Seq(S) /\ \A e \in S : MetaOK(e)
    BY DEF TrafficOK, RecordsOK
  <2>2. from \in Nat /\ from >= 1 /\ n \in Int /\ Len(log) \in Nat
    BY <2>1 DEF TrafficOK
  <2> DEFINE F == {[type |-> "record", seq |-> q, record |-> e] : q \in Nat, e \in S}
  <2>3. \A f \in F : FrameOK(f)
    BY <2>1 DEF FrameOK
  <2>4. \A i \in 1..n : C[i] \in F
    <3> SUFFICES ASSUME NEW i \in 1..n PROVE C[i] \in F
      OBVIOUS
    <3>0. n = Len(log) + 1 - from
      OBVIOUS
    <3>1. from + i - 1 \in 1..Len(log)
      <4> HIDE DEF from, n
      <4> QED BY <2>2, <3>0
    <3>2. log[from + i - 1] \in S
      BY <3>1, <2>1
    <3>3. from + i - 1 \in Nat
      BY <3>1
    <3>4. C[i] = [type |-> "record", seq |-> from + i - 1, record |-> log[from + i - 1]]
      OBVIOUS
    <3> HIDE DEF C, from, n
    <3> QED BY <3>2, <3>3, <3>4
  <2>5. C \in Seq(F)
    <3>1. C = [i \in 1..n |-> C[i]]
      OBVIOUS
    <3> HIDE DEF C, F, from, n
    <3>2. CASE n \in Nat
      BY <2>4, <3>1, <3>2
    <3>3. CASE n \notin Nat
      <4>1. 1..n = {}
        BY <3>3, <2>2
      <4>2. C = <<>>
        BY <3>1, <4>1
      <4> QED BY <4>2
    <3> QED BY <3>2, <3>3
  <2> HIDE DEF C, F
  <2> QED BY <2>3, <2>5 DEF FramesOK
<1>4. Window(r) = A \o B \o C
  BY DEF Window
<1> HIDE DEF A, B, C
<1> QED BY <1>1, <1>2, <1>3, <1>4, ConcatFrames
\* Steps of the server that commit nothing leave log, wires and sessions, or
\* add a frame that is no record to some wires.
LEMMA ServerSteps ==
    ASSUME SessionInvariant, ServerNext
    PROVE  SessionInvariant'
<1>1. CASE UNCHANGED <<log, receiverVars>>
  BY <1>1 DEF SessionInvariant, TrafficOK, receiverVars
<1>2. ASSUME NEW p \in Producers, NEW event \in Events, Write(p, event)
      PROVE  SessionInvariant'
  <2>1. PICK record : Commit(record) /\ record = Record(p, held[p][1], event)
    BY <1>2 DEF Write
  <2>2. MetaOK(record)
    <3>1. record.k = event.k
      BY <2>1 DEF Record, Events
    <3>2. event.k # "meta"
      BY DEF Events
    <3> QED BY <3>1, <3>2 DEF MetaOK
  <2>3. UNCHANGED <<applied, session, shown>>
    BY <1>2 DEF Write
  <2> QED BY <2>1, <2>2, <2>3, CommitTraffic DEF SessionInvariant
<1>3. ASSUME NEW p \in Producers, NEW v \in Values, WriteMeta(p, v)
      PROVE  SessionInvariant'
  <2>1. PICK record : Commit(record) /\ record = Record(p, "", [k |-> "meta", v |-> v])
    BY <1>3 DEF WriteMeta
  <2>2. MetaOK(record)
    <3>1. record.v = v
      BY <2>1 DEF Record
    <3> QED BY <3>1 DEF MetaOK
  <2>3. UNCHANGED <<applied, session, shown>>
    BY <1>3 DEF WriteMeta
  <2> QED BY <2>1, <2>2, <2>3, CommitTraffic DEF SessionInvariant
<1>4. ASSUME NEW t \in Threads, PostState(t)
      PROVE  SessionInvariant'
  <2> DEFINE frame == [type |-> "state", state |-> owed[t][2]]
  <2>1. FrameOK(frame)
    BY DEF FrameOK
  <2>2. /\ DOMAIN wire' = Receivers
        /\ \A r \in Receivers :
              wire'[r] = IF r \in Layered /\ Online(r) THEN Append(wire[r], frame) ELSE wire[r]
        /\ UNCHANGED <<log, applied, session, shown>>
    BY <1>4 DEF PostState
  <2> HIDE DEF frame
  <2>3. \A r \in Receivers : FramesOK(wire'[r])
    BY <2>1, <2>2, AppendFrames DEF SessionInvariant, TrafficOK
  <2> QED BY <2>2, <2>3 DEF SessionInvariant, TrafficOK
<1>5. CASE Restart
  <2>1. /\ DOMAIN wire' = Receivers
        /\ \A r \in Receivers : wire'[r] = <<>>
        /\ UNCHANGED <<log, applied, session, shown>>
    BY <1>5 DEF Restart
  <2> QED BY <2>1, EmptyFrames DEF SessionInvariant, TrafficOK
<1>6. ASSUME NEW p \in Producers,
             Join(p) \/ GetOrCreateClientLayer(p) \/ JoinRefused(p) \/ Leave(p)
             \/ WriteRejected(p) \/ (\E merge \in BOOLEAN : ReleaseClientAssignment(p, merge))
      PROVE  UNCHANGED <<log, receiverVars>>
  BY <1>6 DEF Join, GetOrCreateClientLayer, JoinRefused, Leave, WriteRejected,
              ReleaseClientAssignment
<1>7. ASSUME \/ \E order \in Orders : SetDepartmentPriority(order)
             \/ \E key \in Keys : SetMuted(key)
             \/ \E t \in Threads : ReadState(t)
      PROVE  UNCHANGED <<log, receiverVars>>
  BY <1>7 DEF SetDepartmentPriority, SetMuted, ReadState
<1> QED BY <1>1, <1>2, <1>3, <1>4, <1>5, <1>6, <1>7 DEF ServerNext

\* A batch that is applied, and one that could only be read.
LEMMA DrainSteps ==
    ASSUME SessionInvariant, NEW r \in Layered, NEW n \in 1..Len(wire[r]),
           ApplyLayered(r, n) \/ ApplyFails(r, n)
    PROVE  SessionsOK(session, shown)'
<1> DEFINE batch == SubSeq(wire[r], 1, n)
           frames == SinceResync(batch)
<1>1. r \in Receivers /\ None \notin Stages /\ None \notin Values
  BY LayersAssumption
<1>2. FramesOK(frames)
  <2>1. FramesOK(wire[r])
    BY <1>1 DEF SessionInvariant, TrafficOK
  <2>2. Len(wire[r]) \in Nat
    BY <2>1, FramesLength
  <2>3. FramesOK(batch)
    BY <2>1, <2>2, PartFrames
  <2> HIDE DEF batch
  <2> QED BY <2>3, SinceResyncFrames
<1>3. PICK s \in Stages, m \in Values \union {None} :
              /\ BoundSession(r) = [stage |-> s, baseline |-> s, meta |-> m]
              /\ session[r].stage \in {s, None}
              /\ shown[s] = Shows(s, m)
              /\ \A q \in Receivers : q # r => session[q].stage # s
  BY BoundSessionOwn DEF SessionInvariant
<1>4. shown \in [Stages -> Stages \union Values]
  BY DEF SessionInvariant, SessionsOK
\* The session and the stage before the records of the batch.
<1>5. PICK m1 \in Values \union {None} :
         /\ SessionStart(r, batch) = [stage |-> s, baseline |-> s, meta |-> m1]
         /\ ShownStart(r, batch) = [shown EXCEPT ![s] = Shows(s, m1)]
  <2>1. CASE HasResync(batch)
    <3>1. SessionStart(r, batch) = [stage |-> s, baseline |-> s, meta |-> None]
      BY <1>3, <2>1 DEF SessionStart
    <3>2. ShownStart(r, batch) = [shown EXCEPT ![s] = s]
      BY <1>3, <2>1, RestoredShown DEF ShownStart, SessionInvariant
    <3> QED BY <3>1, <3>2 DEF Shows
  <2>2. CASE ~HasResync(batch)
    <3>1. SessionStart(r, batch) = [stage |-> s, baseline |-> s, meta |-> m]
      BY <1>3, <2>2 DEF SessionStart
    <3>2. ShownStart(r, batch) = shown
      BY <2>2 DEF ShownStart
    <3>3. shown = [shown EXCEPT ![s] = Shows(s, m)]
      BY <1>3, <1>4
    <3> QED BY <3>1, <3>2, <3>3
  <2> QED BY <2>1, <2>2
\* The session and the stage after them.
<1>6. PICK m2 \in Values \union {None} :
         /\ session' = [session EXCEPT ![r] = [stage |-> s, baseline |-> s, meta |-> m2]]
         /\ shown' = [shown EXCEPT ![s] = Shows(s, m2)]
  <2>1. CASE ApplyFails(r, n)
    <3>1. /\ session' = [session EXCEPT ![r] = SessionStart(r, batch)]
          /\ shown' = ShownStart(r, batch)
      BY <2>1 DEF ApplyFails
    <3> QED BY <3>1, <1>5
  <2>2. CASE ApplyLayered(r, n)
    <3> DEFINE start == SessionStart(r, batch)
               before == ShownStart(r, batch)
    <3>1. /\ session' = [session EXCEPT ![r] = [start EXCEPT !.meta = LastMeta(frames, @)]]
          /\ shown' = [before EXCEPT ![start.stage] = LastMeta(frames, @)]
      BY <2>2 DEF ApplyLayered
    <3>2. start = [stage |-> s, baseline |-> s, meta |-> m1]
          /\ before = [shown EXCEPT ![s] = Shows(s, m1)]
      BY <1>5
    <3> HIDE DEF start, before, frames
    <3>3. /\ [start EXCEPT !.meta = LastMeta(frames, @)]
               = [stage |-> s, baseline |-> s, meta |-> LastMeta(frames, m1)]
          /\ [before EXCEPT ![start.stage] = LastMeta(frames, @)]
               = [shown EXCEPT ![s] = LastMeta(frames, Shows(s, m1))]
      <4>1. start.meta = m1 /\ start.stage = s /\ before[s] = Shows(s, m1)
        BY <3>2, <1>4
      <4>2. PICK a, b : a = LastMeta(frames, m1) /\ b = LastMeta(frames, Shows(s, m1))
        OBVIOUS
      <4>3. [start EXCEPT !.meta = a] = [stage |-> s, baseline |-> s, meta |-> a]
        BY <3>2
      <4>4. [before EXCEPT ![s] = b] = [shown EXCEPT ![s] = b]
        BY <3>2, <1>4
      <4> QED BY <4>1, <4>2, <4>3, <4>4
    <3>4. CASE \A old : LastMeta(frames, old) = old
      BY <3>1, <3>3, <3>4
    <3>5. CASE \E v \in Values : \A old : LastMeta(frames, old) = v
      <4>1. PICK v \in Values : \A old : LastMeta(frames, old) = v
        BY <3>5
      <4>2. Shows(s, v) = v
        BY <1>1 DEF Shows
      <4>3. LastMeta(frames, m1) = v /\ LastMeta(frames, Shows(s, m1)) = v
        BY <4>1
      <4> QED BY <3>1, <3>3, <4>2, <4>3
    <3> QED BY <3>4, <3>5, <1>2, LastMetaIsUniform
  <2> QED BY <2>1, <2>2
<1>7. Rebinds(session, shown, r, s, m2, shown')
  BY <1>1, <1>3, <1>4, <1>6 DEF Shows, Rebinds
<1>8. PICK sess, sh, after : sess = session /\ sh = shown /\ after = shown'
  OBVIOUS
<1>9. SessionsOK(sess, sh) /\ Rebinds(sess, sh, r, s, m2, after)
  BY <1>7, <1>8 DEF SessionInvariant
<1>10. SessionsOK(Rebound(sess, r, s, m2), after)
  BY <1>9, Rebinding
<1>11. session' = Rebound(sess, r, s, m2)
  BY <1>6, <1>8 DEF Rebound
<1> QED BY <1>8, <1>10, <1>11
\* What is left on a wire, and the cursor, after a batch of n frames.
LEMMA Drained ==
    ASSUME TrafficOK, NEW r \in Receivers, NEW n \in 1..Len(wire[r]),
           UNCHANGED log,
           \/ wire' = [wire EXCEPT ![r] = SubSeq(@, n + 1, Len(@))]
           \/ wire' = [wire EXCEPT ![r] = <<>>],
           \E c \in Nat : applied' = [applied EXCEPT ![r] = c]
    PROVE  TrafficOK'
<1>1. FramesOK(wire[r])
  BY DEF TrafficOK
<1>2. Len(wire[r]) \in Nat
  BY <1>1, FramesLength
<1>3. FramesOK(SubSeq(wire[r], n + 1, Len(wire[r])))
  BY <1>1, <1>2, PartFrames
<1>4. FramesOK(wire'[r])
  BY <1>3, EmptyFrames DEF TrafficOK
<1>5. DOMAIN wire' = Receivers /\ \A q \in Receivers : FramesOK(wire'[q])
  BY <1>4 DEF TrafficOK
<1>6. applied' \in [Receivers -> Nat]
  BY DEF TrafficOK
<1> QED BY <1>5, <1>6 DEF TrafficOK

LEMMA ReceiverSteps ==
    ASSUME SessionInvariant, ReceiverNext
    PROVE  SessionInvariant'
<1>1. PICK r \in Receivers :
        \/ Connect(r) \/ Drop(r) \/ UnbindStage(r)
        \/ \E n \in 1..Len(wire[r]) : ApplyLayered(r, n) \/ ApplyFails(r, n) \/ ApplyUnlayered(r, n)
        \/ \E s \in Stages : BindLayeredStage(r, s)
  BY DEF ReceiverNext
<1>2. TrafficOK /\ SessionsOK(session, shown)
  BY DEF SessionInvariant
<1>3. None \notin Stages
  BY LayersAssumption
<1>4. CASE Connect(r)
  <2>1. wire' = [wire EXCEPT ![r] = Window(r)] /\ UNCHANGED <<log, applied, session, shown>>
    BY <1>4 DEF Connect
  <2>2. \A q \in Receivers : FramesOK(wire'[q])
    BY <2>1, <1>2, WindowFrames DEF TrafficOK
  <2>3. DOMAIN wire' = Receivers
    BY <2>1, <1>2 DEF TrafficOK
  <2> QED BY <1>2, <2>1, <2>2, <2>3 DEF SessionInvariant, TrafficOK
<1>5. CASE Drop(r)
  <2>1. wire' = [wire EXCEPT ![r] = <<>>] /\ UNCHANGED <<log, applied, session, shown>>
    BY <1>5 DEF Drop, Disconnected
  <2>2. \A q \in Receivers : FramesOK(wire'[q])
    BY <2>1, <1>2, EmptyFrames DEF TrafficOK
  <2>3. DOMAIN wire' = Receivers
    BY <2>1, <1>2 DEF TrafficOK
  <2> QED BY <1>2, <2>1, <2>2, <2>3 DEF SessionInvariant, TrafficOK
<1>6. CASE UnbindStage(r)
  <2>1. /\ r \in Layered
        /\ session[r].stage # None
        /\ shown' = Restored(session[r], shown)
        /\ session' = [session EXCEPT ![r] = NewSession]
        /\ UNCHANGED <<log, wire, applied>>
    BY <1>6 DEF UnbindStage, serverVars
  <2>2. session' = Rebound(session, r, None, None)
    BY <2>1 DEF Rebound, NewSession
  <2>3. shown' = [shown EXCEPT ![session[r].stage] = session[r].stage]
    BY <2>1, <1>2 DEF Restored, SessionsOK
  <2>4. session[r].stage \in Stages
    BY <2>1, <1>2 DEF SessionsOK
  <2>5. Rebinds(session, shown, r, None, None, shown')
    BY <2>3, <2>4, <1>2, <1>3 DEF Rebinds, SessionsOK
  <2>6. PICK sess, sh, after : sess = session /\ sh = shown /\ after = shown'
    OBVIOUS
  <2>7. SessionsOK(Rebound(sess, r, None, None), after)
    <3>1. SessionsOK(sess, sh) /\ Rebinds(sess, sh, r, None, None, after)
      BY <2>5, <2>6, <1>2
    <3> QED BY <3>1, <2>1, Rebinding
  <2>8. SessionsOK(session, shown)'
    BY <2>2, <2>6, <2>7
  <2> QED BY <1>2, <2>1, <2>8 DEF SessionInvariant, TrafficOK
<1>7. ASSUME NEW n \in 1..Len(wire[r]), ApplyLayered(r, n) \/ ApplyFails(r, n)
      PROVE  SessionInvariant'
  <2>1. r \in Layered
    BY <1>7 DEF ApplyLayered, ApplyFails
  <2>2. SessionsOK(session, shown)'
    BY <1>7, <2>1, DrainSteps
  <2> DEFINE batch == SubSeq(wire[r], 1, n)
  <2>3. FramesOK(batch)
    <3>1. FramesOK(wire[r])
      BY <1>2 DEF TrafficOK
    <3>2. Len(wire[r]) \in Nat
      BY <3>1, FramesLength
    <3> QED BY <3>1, <3>2, PartFrames
  <2>4. LastSeq(r, batch) \in Nat
    BY <2>3, <1>2, LastSeqIsNat
  <2>5. applied[r] \in Nat
    BY <1>2 DEF TrafficOK
  <2>6. UNCHANGED log /\ \E c \in Nat : applied' = [applied EXCEPT ![r] = c]
    <3>1. CASE ApplyLayered(r, n)
      BY <3>1, <2>4 DEF ApplyLayered, serverVars
    <3>2. CASE ApplyFails(r, n)
      <4>1. applied' = [applied EXCEPT ![r] = IF HasResync(batch) THEN 0 ELSE @] /\ UNCHANGED log
        BY <3>2 DEF ApplyFails
      <4>2. CASE HasResync(batch)
        BY <4>1, <4>2
      <4>3. CASE ~HasResync(batch)
        BY <4>1, <4>3, <2>5
      <4> QED BY <4>1, <4>2, <4>3
    <3> QED BY <1>7, <3>1, <3>2
  <2>7. \/ wire' = [wire EXCEPT ![r] = SubSeq(@, n + 1, Len(@))]
        \/ wire' = [wire EXCEPT ![r] = <<>>]
    BY <1>7 DEF ApplyLayered, ApplyFails, Disconnected
  <2>8. TrafficOK'
    BY <1>2, <2>6, <2>7, Drained
  <2> QED BY <2>2, <2>8 DEF SessionInvariant
<1>8. ASSUME NEW n \in 1..Len(wire[r]), ApplyUnlayered(r, n)
      PROVE  SessionInvariant'
  <2> DEFINE batch == SubSeq(wire[r], 1, n)
  <2>1. FramesOK(batch)
    <3>1. FramesOK(wire[r])
      BY <1>2 DEF TrafficOK
    <3>2. Len(wire[r]) \in Nat
      BY <3>1, FramesLength
    <3> QED BY <3>1, <3>2, PartFrames
  <2>2. LastSeq(r, batch) \in Nat
    BY <2>1, <1>2, LastSeqIsNat
  <2>3. /\ UNCHANGED <<log, session, shown>>
        /\ applied' = [applied EXCEPT ![r] = LastSeq(r, batch)]
        /\ wire' = [wire EXCEPT ![r] = SubSeq(@, n + 1, Len(@))]
    BY <1>8 DEF ApplyUnlayered, serverVars
  <2>4. TrafficOK'
    BY <1>2, <2>2, <2>3, Drained
  <2> QED BY <1>2, <2>3, <2>4 DEF SessionInvariant
<1>9. ASSUME NEW s \in Stages, BindLayeredStage(r, s)
      PROVE  SessionInvariant'
  <2> DEFINE back == Restored(session[r], shown)
             moved == [session[r] EXCEPT !.stage = s, !.baseline = back[s]]
  <2>1. /\ r \in Layered /\ IsFree(s)
        /\ session' = [session EXCEPT ![r] = moved]
        /\ shown' = Remembered(moved, back)
        /\ UNCHANGED <<log, wire, applied>>
    BY <1>9 DEF BindLayeredStage, serverVars
  <2>2. /\ session[r] \in [stage : Stages \union {None}, baseline : Stages \union {None},
                           meta : Values \union {None}]
        /\ session[r].baseline = session[r].stage
        /\ session[r].stage # s
        /\ shown \in [Stages -> Stages \union Values]
        /\ shown[s] = s
    BY <1>2, <2>1 DEF SessionsOK, IsFree
  <2>3. /\ back \in [Stages -> Stages \union Values]
        /\ back[s] = s
        /\ \A t \in Stages : back[t] = IF t = session[r].stage THEN t ELSE shown[t]
    <3>1. CASE session[r].stage = None
      BY <3>1, <2>2, <1>3 DEF Restored
    <3>2. CASE session[r].stage # None
      BY <3>2, <2>2, <1>3 DEF Restored
    <3> QED BY <3>1, <3>2
  <2> HIDE DEF back
  <2>4. PICK m \in Values \union {None} : m = session[r].meta
    BY <2>2
  <2>5. moved = [stage |-> s, baseline |-> s, meta |-> m]
    <3>1. PICK st, ba \in Stages \union {None} :
            session[r] = [stage |-> st, baseline |-> ba, meta |-> m]
      BY <2>2, <2>4
    <3>2. PICK b : b = back[s]
      OBVIOUS
    <3>3. moved = [session[r] EXCEPT !.stage = s, !.baseline = b]
      BY <3>2
    <3>4. moved = [[stage |-> st, baseline |-> ba, meta |-> m] EXCEPT !.stage = s, !.baseline = b]
      BY <3>1, <3>3
    <3>5. b = s
      BY <2>3, <3>2
    <3> HIDE DEF moved
    <3> QED BY <3>4, <3>5
  <2>6. session' = Rebound(session, r, s, m)
    BY <2>1, <2>5 DEF Rebound
  <2> HIDE DEF moved
  <2>7. shown' = [back EXCEPT ![s] = Shows(s, m)]
    <3>1. CASE m = None
      BY <3>1, <2>1, <2>3, <2>5, <1>3 DEF Remembered, Shows
    <3>2. CASE m # None
      BY <3>2, <2>1, <2>3, <2>5, <1>3 DEF Remembered, Shows
    <3> QED BY <3>1, <3>2
  <2>8. Rebinds(session, shown, r, s, m, shown')
    <3>1. /\ shown' \in [Stages -> Stages \union Values]
          /\ \A t \in Stages : shown'[t] = IF t = s THEN Shows(s, m)
                                           ELSE IF t = session[r].stage THEN t ELSE shown[t]
      BY <2>3, <2>4, <2>7 DEF Shows
    <3>2. \A q \in Receivers : q # r => session[q].stage # s
      BY <2>1 DEF IsFree
    <3> QED BY <3>1, <3>2, <1>3 DEF Rebinds
  <2>9. PICK sess, sh, after : sess = session /\ sh = shown /\ after = shown'
    OBVIOUS
  <2>10. SessionsOK(Rebound(sess, r, s, m), after)
    <3>1. SessionsOK(sess, sh) /\ Rebinds(sess, sh, r, s, m, after)
      BY <2>8, <2>9, <1>2
    <3> QED BY <3>1, <2>1, Rebinding
  <2>11. SessionsOK(session, shown)'
    BY <2>6, <2>9, <2>10
  <2> QED BY <1>2, <2>1, <2>11 DEF SessionInvariant, TrafficOK
<1> QED BY <1>1, <1>4, <1>5, <1>6, <1>7, <1>8, <1>9

LEMMA SessionInitially == Init => SessionInvariant
<1> SUFFICES ASSUME Init PROVE SessionInvariant
  OBVIOUS
<1>1. RecordsOK(log)
  <2> DEFINE S == {x \in {} : FALSE}
  <2>1. <<>> \in Seq(S)
    OBVIOUS
  <2>2. \A e \in S : MetaOK(e)
    OBVIOUS
  <2>3. log = <<>>
    BY DEF Init
  <2> HIDE DEF S
  <2> QED BY <2>1, <2>2, <2>3 DEF RecordsOK
<1>2. DOMAIN wire = Receivers /\ (\A r \in Receivers : FramesOK(wire[r]))
      /\ applied \in [Receivers -> Nat]
  BY EmptyFrames DEF Init
<1>3. /\ session = [r \in Receivers |-> [stage |-> None, baseline |-> None, meta |-> None]]
      /\ shown = [s \in Stages |-> s]
  BY DEF Init, NewSession
<1>4. SessionsOK(session, shown)
  BY <1>3, LayersAssumption DEF SessionsOK
<1> QED BY <1>1, <1>2, <1>4 DEF SessionInvariant, TrafficOK

\* The inductive invariant of the receivers' sessions: who is bound where,
\* which baseline was captured, and what is on its way (_StageSessionState,
\* drain_and_apply, bind_layered_stage, unbind_stage).
THEOREM SessionInvariance == Spec => []SessionInvariant
<1>1. SessionInvariant /\ [Next]_vars => SessionInvariant'
  <2> SUFFICES ASSUME SessionInvariant, [Next]_vars PROVE SessionInvariant'
    OBVIOUS
  <2>1. CASE ServerNext
    BY <2>1, ServerSteps
  <2>2. CASE ReceiverNext
    BY <2>2, ReceiverSteps
  <2>3. CASE UNCHANGED vars
    BY <2>3 DEF vars, serverVars, receiverVars, SessionInvariant, TrafficOK
  <2> QED BY <2>1, <2>2, <2>3 DEF Next
<1> QED BY <1>1, SessionInitially, PTL DEF Spec

\* Whatever the order of batches, failed batches, resynchronizations and
\* rebinds, a stage shows the metadata its receiver remembers, and its own
\* once it is left (_StageSessionState.bind, reset, close).
THEOREM StagesRestored == Spec => []StageRestored
<1>1. SessionInvariant => StageRestored
  <2> SUFFICES ASSUME SessionInvariant, NEW s \in Stages
               PROVE  LET bound == {r \in Layered : session[r].stage = s /\ session[r].meta # None}
                      IN  IF bound = {} THEN shown[s] = s
                          ELSE \A r \in bound : shown[s] = session[r].meta
    BY DEF StageRestored
  <2> DEFINE bound == {r \in Layered : session[r].stage = s /\ session[r].meta # None}
  <2>1. SessionsOK(session, shown) /\ None \notin Stages /\ Layered \subseteq Receivers
    BY LayersAssumption DEF SessionInvariant
  <2>2. \A r \in Receivers : session[r].stage = s => r \in Layered /\ shown[s] = Shows(s, session[r].meta)
    BY <2>1 DEF SessionsOK
  <2>3. CASE bound = {}
    <3>1. CASE \E r \in Receivers : session[r].stage = s
      BY <2>2, <2>3, <3>1 DEF Shows
    <3>2. CASE \A r \in Receivers : session[r].stage # s
      BY <2>1, <3>2 DEF SessionsOK
    <3> QED BY <2>3, <3>1, <3>2
  <2>4. CASE bound # {}
    BY <2>1, <2>2, <2>4 DEF Shows
  <2> QED BY <2>3, <2>4
<1> QED BY <1>1, SessionInvariance, PTL
=============================================================================
