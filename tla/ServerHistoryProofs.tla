------------------------ MODULE ServerHistoryProofs -------------------------
(***************************************************************************)
(* For every value of the constants: ServerCommit sends receivers          *)
(* increasing sequences of durable rows, keeps the authoritative stage     *)
(* equal to what a restart would replay, answers with checkpoints that     *)
(* cover the commit they acknowledge, and fails no request for the sake    *)
(* of a bad neighbour.  The parts below strengthen the inductive invariant *)
(* of ServerCommitProofs.                                                  *)
(***************************************************************************)
EXTENDS ServerCommitProofs

\* A payload load closes its batch, so it is the last request of its unit.
LoadIsLast ==
    /\ \A i \in DOMAIN batch : batch[i] \in Loads => i = Len(batch)
    /\ wpc = "stage" => \A j \in DOMAIN staged : staged[j] \notin Loads
    /\ wpc \in {"persist", "publish", "load"} =>
          \A j \in DOMAIN staged : staged[j] \in Loads => j = Len(staged)
    /\ wpc = "load" => \E j \in DOMAIN staged : staged[j] \in Loads

\* The reservation of a unit that is not published yet ends at next_seq.
Reserved ==
    wpc \in {"publish", "load"} => nextSeq = undoSeq + Len(staged)

\* Everything below this sequence may have been sent to the receivers.
Sent ==
    IF wpc \in {"stage", "persist", "publish"} THEN undoSeq
    ELSE IF wpc = "load" THEN nextSeq - 1 ELSE nextSeq

PublishedBelow ==
    /\ \A i, j \in DOMAIN published : i < j => published[i] < published[j]
    /\ ~Replacing => \A i \in DOMAIN published :
                        1 <= published[i] /\ published[i] < Sent

\* While a unit is in doubt the stage shows the slot's last accepted request,
\* and what it showed before the unit where there is none.
SceneIsStaged ==
    InDoubt => \A k \in Keys :
        \/ \E j \in DOMAIN staged :
              /\ KeyOf[staged[j]] = k /\ scene[k] = staged[j]
              /\ \A i \in DOMAIN staged : i > j => KeyOf[staged[i]] # k
        \/ /\ \A j \in DOMAIN staged : KeyOf[staged[j]] # k
           /\ scene[k] = undoScene[k]

\* A stage agrees with the rows in a slot, up to what a purge leaves there.
Agrees(sc, k) ==
    sc[k] = Replay(rows)[k] \/ (k \in SessionKeys /\ Replay(rows)[k] = None)

\* Between the store's rewrite and the scene's the purge still owes the
\* clearing, and a compaction owes nothing.
RewriteKeepsScene ==
    \A m \in Maintainers : mpc[m] = "stored" =>
        IF cap[m] = None THEN rows = EmptyRows ELSE \A k \in Keys : Agrees(scene, k)

\* A captured history of this epoch is a prefix of the log.
CapturesArePrefixes ==
    \A m \in Maintainers : cap[m] # None =>
        /\ cap[m].epoch <= epoch
        /\ DOMAIN cap[m].rows = 1..Cardinality(DOMAIN cap[m].rows)
        /\ cap[m].epoch = epoch /\ ~Replacing =>
              \A s \in DOMAIN cap[m].rows :
                  s \in DOMAIN rows /\ rows[s] = cap[m].rows[s]

Logged(t) == \E s \in DOMAIN rows : rows[s] = t

Commits(i) == outcome[i].status = "committed"

\* A "committed" outcome is in the log, or staged by the unit in doubt.
CommitsAreLogged ==
    /\ InDoubt => \A i \in DOMAIN outcome : Commits(i) =>
          Logged(batch[i]) \/ \E j \in DOMAIN staged : staged[j] = batch[i]
    /\ wpc = "persist" /\ mode = "single" => \A i \in DOMAIN outcome :
          Commits(i) /\ i < Len(outcome) => Logged(batch[i])
    /\ ~InDoubt => \A i \in DOMAIN outcome : Commits(i) => Logged(batch[i])

\* The checkpoint of the batch names the current epoch and the whole log.
CheckpointIsHead ==
    wpc = "complete" /\ cpt # None => cpt.epoch = epoch /\ cpt.head = nextSeq - 1

\* No answer names a later process or epoch than the current one.
GrantsArePast ==
    \A p \in Producers : granted[p] # None =>
        /\ granted[p].instance <= instance
        /\ granted[p].instance = instance => granted[p].epoch <= epoch

HistoryInv ==
    /\ NeighboursUnharmed
    /\ LoadIsLast /\ Reserved /\ PublishedBelow
    /\ SceneIsStaged /\ SceneIsReplay /\ RewriteKeepsScene /\ CapturesArePrefixes
    /\ CommitsAreLogged /\ CheckpointIsHead /\ GrantsArePast /\ CheckpointCovers

-----------------------------------------------------------------------------
(* A bad neighbour.                                                        *)

\* Failures are only counted up.
LEMMA FaultsGrow ==
  ASSUME IInv, [Next]_vars
  PROVE  faults' = 0 => faults = 0
<1> SUFFICES ASSUME faults # 0 PROVE faults' # 0
  OBVIOUS
<1>1. faults \in Nat
  BY DEF IInv, TypeOK, CountersType
<1>2. ASSUME NEW t \in Txns, Admit(t) PROVE faults' # 0
  BY <1>2 DEF Admit
<1>3. CASE Work
  <2>1. CASE StageFails \/ PersistFails \/ Publish \/ PublishLoad \/ Checkpoint
    BY <1>1, <2>1 DEF StageFails, PersistFails, Publish, PublishLoad, Checkpoint
  <2>2. CASE ReplayChildren
    BY <1>1, <2>2 DEF ReplayChildren
  <2>3. QED
    BY <1>3, <2>1, <2>2 DEF Work, Enqueue, CommitInline, GatherFirst, GatherMore,
       GatherDone, StageRequest, Persist, Complete
<1>4. ASSUME NEW m \in Maintainers, CaptureHistory(m) \/ StartPurge(m) \/ Rewrite(m)
      PROVE  faults' # 0
  BY <1>1, <1>4 DEF CaptureHistory, StartPurge, Rewrite, ClaimBarrier, EnterWindow,
     RewriteStore, AbandonRewrite, FinishRewrite
<1>5. QED
  BY <1>2, <1>3, <1>4 DEF Next, Shutdown, Crash, Stopped, vars

\* The steps that decide on requests or change the batch.
LEMMA DecidingSteps ==
  ASSUME IInv, [Next]_vars
  PROVE  \/ outcome' = <<>> \/ StageRequest \/ StageFails \/ PersistFails \/ Complete
         \/ UNCHANGED <<outcome, batch>>
<1>1. ASSUME NEW t \in Txns, Admit(t) PROVE UNCHANGED <<outcome, batch>>
  BY <1>1 DEF Admit, worker, unit
<1>2. CASE GatherFirst \/ GatherMore
  BY <1>2 DEF GatherFirst, GatherMore, IInv, IndInv, Phases, unit
<1>3. CASE Work
  BY <1>2, <1>3 DEF Work, Enqueue, CommitInline, GatherDone, Persist, Publish,
     PublishLoad, ReplayChildren, EndUnit, Checkpoint, worker, unit
<1>4. ASSUME NEW m \in Maintainers, CaptureHistory(m) \/ StartPurge(m) \/ Rewrite(m)
      PROVE  UNCHANGED <<outcome, batch>>
  BY <1>4 DEF CaptureHistory, StartPurge, Rewrite, ClaimBarrier, EnterWindow,
     RewriteStore, AbandonRewrite, FinishRewrite, Leave, worker, unit
<1>5. QED
  BY <1>1, <1>3, <1>4 DEF Next, Shutdown, Crash, Stopped, vars, worker, unit

\* The log has no row at the reserved sequences, so that an insert can only
\* fail through the store.
LEMMA ReservationIsFree ==
  ASSUME IInv, InDoubt
  PROVE  NoConflict(undoSeq, Len(staged))
<1>1. batch # <<>>
  BY DEF IInv, IndInv, Phases, InDoubt
<1>2. DOMAIN rows = 1..undoSeq - 1
  BY <1>1, WorkExcludesRewrites DEF IInv, IndInv, Numbered, LogHasNoHoles
<1>3. undoSeq \in Nat /\ Len(staged) \in Nat
  BY DEF IInv, TypeOK, UnitType
<1>4. QED
  BY <1>2, <1>3 DEF NoConflict

LEMMA NeighboursStep ==
  ASSUME IInv, NeighboursUnharmed, [Next]_vars
  PROVE  NeighboursUnharmed'
<1> SUFFICES ASSUME faults' = 0, faults = 0,
                    NEW i \in DOMAIN outcome', outcome'[i].status = "error"
             PROVE  batch'[i] \in Bad
  BY FaultsGrow DEF NeighboursUnharmed
<1>1. /\ outcome \in Seq(Outcomes) /\ batch \in Seq(Txns)
      /\ \A j \in DOMAIN outcome : outcome[j].status = "error" => batch[j] \in Bad
  BY DEF IInv, TypeOK, UnitType, WorkerType, NeighboursUnharmed
<1>2. CASE StageRequest
  <2> DEFINE t == batch[Len(outcome) + 1]
             result == Check(t, nextBy[t.p])
  <2>1. outcome' = Append(outcome, result) /\ batch' = batch
    BY <1>2 DEF StageRequest
  <2>2. t \in Txns /\ nextBy[t.p] \in Nat
    BY <1>2, CurrentRequest, TxnFields DEF StageRequest, IInv, TypeOK, UnitType
  <2>3. result.status # "error" /\ result \in Outcomes
    BY <2>2, CheckFacts DEF Check
  <2> HIDE DEF t, result
  <2>4. i \in DOMAIN outcome /\ outcome'[i] = outcome[i]
    BY <1>1, <2>1, <2>3
  <2>5. QED
    BY <1>1, <2>1, <2>4
<1>3. CASE StageFails
  <2> DEFINE t == batch[Len(outcome) + 1]
  <2>1. t \in Bad /\ batch' = batch /\ outcome' = Retried(outcome)
    BY <1>3 DEF StageFails, RollBack
  <2>2. CASE mode = "group"
    BY <2>1, <2>2 DEF Retried
  <2>3. CASE mode # "group"
    <3>1. outcome' = Append(outcome, Failed)
      BY <2>1, <2>3 DEF Retried
    <3>2. (i \in DOMAIN outcome /\ outcome'[i] = outcome[i]) \/ i = Len(outcome) + 1
      BY <1>1, <3>1
    <3>3. QED
      BY <1>1, <2>1, <3>2
  <2>4. QED
    BY <2>2, <2>3
<1>4. CASE PersistFails
  <2>1. InDoubt
    BY <1>4 DEF PersistFails, InDoubt
  <2>2. QED
    BY <1>4, <2>1, ReservationIsFree DEF PersistFails
<1>5. CASE Complete
  <2>1. outcome' = Tail(outcome) /\ batch' = Tail(batch)
    BY <1>5 DEF Complete
  <2>2. wpc = "complete" /\ Len(outcome) = Len(batch) /\ batch # <<>>
    BY <1>5 DEF Complete, IInv, IndInv, Phases
  <2>3. Len(outcome) \in Nat /\ Len(outcome) >= 1 /\ outcome # <<>>
    BY <1>1, <2>2
  <2>4. i \in 1..Len(outcome) - 1 /\ outcome'[i] = outcome[i + 1]
        /\ batch'[i] = batch[i + 1]
    BY <1>1, <2>1, <2>2, <2>3
  <2>5. i + 1 \in DOMAIN outcome
    BY <1>1, <2>3, <2>4
  <2>6. QED
    BY <1>1, <2>4, <2>5
<1>6. CASE UNCHANGED <<outcome, batch>>
  BY <1>1, <1>6
<1>7. QED
  BY <1>2, <1>3, <1>4, <1>5, <1>6, DecidingSteps

-----------------------------------------------------------------------------
(* What receivers are sent.                                                *)

\* The steps of the other threads leave the commit thread alone.
LEMMA OthersStep ==
  ASSUME Next, ~Work, ~Crash
  PROVE  UNCHANGED worker
<1>1. ASSUME NEW t \in Txns, Admit(t) PROVE UNCHANGED worker
  BY <1>1 DEF Admit
<1>2. ASSUME NEW m \in Maintainers, CaptureHistory(m) \/ StartPurge(m) \/ Rewrite(m)
      PROVE  UNCHANGED worker
  BY <1>2 DEF CaptureHistory, StartPurge, Rewrite, ClaimBarrier, EnterWindow,
     RewriteStore, AbandonRewrite, FinishRewrite, Leave
<1>3. QED
  BY <1>1, <1>2 DEF Next, Shutdown, Stopped, vars

LEMMA LoadStep ==
  ASSUME IInv, LoadIsLast, [Next]_vars
  PROVE  LoadIsLast'
<1> USE DEF LoadIsLast
<1>1. batch \in Seq(Txns) /\ staged \in Seq(Txns) /\ outcome \in Seq(Outcomes)
  BY DEF IInv, TypeOK, WorkerType, UnitType
<1>2. CASE UNCHANGED worker
  BY <1>2 DEF worker, unit
<1>3. CASE CommitInline
  BY <1>3 DEF CommitInline, BeginUnit
<1>4. CASE GatherFirst
  <2>1. \/ wpc' = "stopped" /\ batch' = batch
        \/ wpc' = "gather" /\ batch' = <<Head(queue)>>
    BY <1>4 DEF GatherFirst
  <2>2. \A i \in DOMAIN <<Head(queue)>> : i = Len(<<Head(queue)>>)
    OBVIOUS
  <2>3. QED
    BY <2>1, <2>2
<1>5. CASE GatherMore
  <2>1. wpc = "gather" /\ wpc' = "gather" /\ batch # <<>>
    BY <1>5 DEF GatherMore, IInv, IndInv, Phases
  <2>2. batch[Len(batch)] \notin Loads /\ Len(batch) \in 1..Len(batch)
    BY <1>1, <1>5, <2>1 DEF GatherMore, BatchOpen
  <2>3. \A i \in DOMAIN batch : batch[i] \notin Loads
    BY <2>2
  <2>4. batch' = batch \/ (batch' = Append(batch, Head(queue)) /\ Head(queue) \in Txns)
    <3>1. queue \in Seq(Requests) /\ queue # <<>>
      BY <1>5 DEF GatherMore, IInv, TypeOK, AdmissionType
    <3>2. Head(queue) \in Requests
      BY <3>1
    <3>3. QED
      BY <1>5, <3>2 DEF GatherMore, Requests
  <2>5. \A i \in DOMAIN batch' : batch'[i] \in Loads => i = Len(batch')
    BY <1>1, <2>3, <2>4
  <2>6. QED
    BY <2>1, <2>5
<1>6. CASE GatherDone
  BY <1>6 DEF GatherDone, BeginUnit
<1>7. CASE StageRequest
  <2> DEFINE t == batch[Len(outcome) + 1]
  <2>1. batch' = batch /\ wpc = "stage" /\ AfterCheck(staged')
        /\ (staged' = Append(staged, t) \/ staged' = staged)
    BY <1>7 DEF StageRequest
  <2>2. Len(outcome) + 1 \in 1..Len(batch)
    BY <2>1, CurrentRequest
  <2>3. t \in Loads => Len(outcome) + 1 = Len(batch)
    BY <1>1, <2>2
  <2>4. wpc' \in {"stage", "persist", "checkpoint"}
    BY <2>1 DEF AfterCheck
  <2> HIDE DEF t
  <2>5. CASE staged' = staged
    BY <2>1, <2>4, <2>5
  <2>6. CASE staged' = Append(staged, t)
    <3>1. Len(staged') = Len(staged) + 1 /\ staged'[Len(staged')] = t
          /\ \A j \in DOMAIN staged : staged'[j] = staged[j]
      BY <1>1, <2>6
    <3>2. \A j \in DOMAIN staged' : staged'[j] \in Loads =>
             j = Len(staged') /\ t \in Loads
      BY <1>1, <2>1, <2>6, <3>1
    <3>3. t \in Loads => wpc' # "stage"
      <4>1. staged' # <<>>
        BY <1>1, <2>6
      <4>2. QED
        BY <2>1, <2>3, <4>1 DEF AfterCheck
    <3>4. QED
      BY <2>1, <2>4, <3>2, <3>3
  <2>7. QED
    BY <2>1, <2>5, <2>6
<1>8. CASE StageFails \/ PersistFails
  BY <1>8 DEF StageFails, PersistFails, RollBack, BeginUnit
<1>9. CASE Persist
  BY <1>9 DEF Persist, unit
<1>10. CASE Publish
  BY <1>10 DEF Publish, unit, EndUnit, BeginUnit
<1>11. CASE PublishLoad \/ ReplayChildren
  BY <1>11 DEF PublishLoad, ReplayChildren, unit, EndUnit, BeginUnit
<1>12. CASE Checkpoint
  BY <1>12 DEF Checkpoint
<1>13. CASE Complete
  <2>1. batch' = Tail(batch) /\ wpc' \in {"complete", "stopped", "idle"} /\ batch # <<>>
    BY <1>13 DEF Complete, AfterBatch, IInv, IndInv, Phases
  <2>2. \A i \in DOMAIN batch' : batch'[i] = batch[i + 1] /\ i + 1 \in DOMAIN batch
    BY <1>1, <2>1
  <2>3. Len(batch') = Len(batch) - 1 /\ Len(batch) \in Nat /\ DOMAIN batch' \subseteq Nat
    BY <1>1, <2>1
  <2>4. \A i \in DOMAIN batch' : batch'[i] \in Loads => i = Len(batch')
    BY <2>2, <2>3
  <2>5. QED
    BY <2>1, <2>4
<1>14. CASE Crash
  BY <1>14 DEF Crash
<1>15. CASE Enqueue
  BY <1>2, <1>15 DEF Enqueue
<1>16. CASE UNCHANGED vars
  BY <1>2, <1>16 DEF vars
<1>17. QED
  BY <1>2, <1>3, <1>4, <1>5, <1>6, <1>7, <1>8, <1>9, <1>10, <1>11, <1>12, <1>13,
     <1>14, <1>15, <1>16, OthersStep DEF Work

LEMMA ReservedStep ==
  ASSUME IInv, Reserved, [Next]_vars
  PROVE  Reserved'
<1> USE DEF Reserved
<1>1. CASE wpc' \notin {"publish", "load"}
  BY <1>1
<1>2. CASE Persist
  BY <1>2 DEF Persist, unit, IInv, IndInv, Numbered, InDoubt
<1>3. CASE Publish
  BY <1>3 DEF Publish, EndUnit, unit, journal
<1>4. CASE UNCHANGED <<wpc, nextSeq, undoSeq, staged>>
  BY <1>4
<1>5. Work => Persist \/ Publish \/ wpc' \notin {"publish", "load"}
              \/ UNCHANGED <<wpc, nextSeq, undoSeq, staged>>
  <2>1. CASE StageRequest
    BY <2>1 DEF StageRequest, AfterCheck
  <2>2. CASE Complete
    BY <2>2 DEF Complete, AfterBatch
  <2>3. QED
    BY <2>1, <2>2 DEF Work, Enqueue, CommitInline, GatherFirst, GatherMore,
       GatherDone, StageFails, PersistFails, RollBack, PublishLoad, ReplayChildren,
       EndUnit, Checkpoint, worker, unit, journal
<1>6. ASSUME NEW m \in Maintainers, CaptureHistory(m) \/ StartPurge(m) \/ Rewrite(m)
      PROVE  wpc' \notin {"publish", "load"} \/ UNCHANGED <<wpc, nextSeq, undoSeq, staged>>
  <2>1. CASE FinishRewrite(m)
    <3>1. wpc \in {"idle", "stopped"} /\ wpc' = wpc
      BY <2>1, NoReaders DEF FinishRewrite, Leave, worker, IInv, IndInv, OneWriter
    <3>2. QED
      BY <3>1
  <2>2. QED
    BY <1>6, <2>1 DEF CaptureHistory, StartPurge, Rewrite, ClaimBarrier, EnterWindow,
       RewriteStore, AbandonRewrite, Leave, worker, unit, journal
<1>7. ASSUME NEW t \in Txns, Admit(t) PROVE UNCHANGED <<wpc, nextSeq, undoSeq, staged>>
  BY <1>7 DEF Admit, worker, unit, journal
<1>8. QED
  BY <1>1, <1>2, <1>3, <1>4, <1>5, <1>6, <1>7
  DEF Next, Shutdown, Crash, Stopped, vars, worker, unit, journal

\* The increasing enumeration of a finite set of sequence numbers.
LEMMA InOrderNat ==
  ASSUME NEW S, IsFiniteSet(S), S \subseteq Nat, NEW g \in InOrder(S)
  PROVE  /\ g \in Seq(Nat) /\ \A i \in DOMAIN g : g[i] \in S
         /\ \A i, j \in DOMAIN g : i < j => g[i] < g[j]
<1>1. Cardinality(S) \in Nat
  BY FS_CardinalityType
<1>2. g \in [1..Cardinality(S) -> S] /\ \A i, j \in DOMAIN g : i < j => g[i] < g[j]
  BY DEF InOrder
<1>3. g \in [1..Cardinality(S) -> Nat]
  BY <1>2
<1>4. QED
  BY <1>1, <1>2, <1>3

\* Sequences from b on go after the ones below b.
LEMMA AppendAbove ==
  ASSUME NEW f \in Seq(Nat), NEW g \in Seq(Nat), NEW b \in Nat, NEW c \in Nat,
         1 <= b, b <= c,
         \A i, j \in DOMAIN f : i < j => f[i] < f[j],
         \A i, j \in DOMAIN g : i < j => g[i] < g[j],
         \A i \in DOMAIN f : 1 <= f[i] /\ f[i] < b,
         \A i \in DOMAIN g : b <= g[i] /\ g[i] < c
  PROVE  /\ \A i, j \in DOMAIN (f \o g) : i < j => (f \o g)[i] < (f \o g)[j]
         /\ \A i \in DOMAIN (f \o g) : 1 <= (f \o g)[i] /\ (f \o g)[i] < c
<1> DEFINE h == f \o g
<1>1. /\ Len(h) = Len(f) + Len(g) /\ Len(f) \in Nat /\ Len(g) \in Nat
      /\ DOMAIN h = 1..Len(h) /\ DOMAIN f = 1..Len(f) /\ DOMAIN g = 1..Len(g)
      /\ \A i \in 1..Len(h) : h[i] = IF i <= Len(f) THEN f[i] ELSE g[i - Len(f)]
  OBVIOUS
<1> HIDE DEF h
<1>2. \A i \in DOMAIN h :
        \/ i \in DOMAIN f /\ h[i] = f[i]
        \/ i - Len(f) \in DOMAIN g /\ h[i] = g[i - Len(f)] /\ i > Len(f)
  BY <1>1
<1>3. \A i \in DOMAIN h : h[i] \in Nat /\ 1 <= h[i] /\ h[i] < c
  BY <1>2
<1>4. ASSUME NEW i \in DOMAIN h, NEW j \in DOMAIN h, i < j
      PROVE  h[i] < h[j]
  <2>1. i \in Nat /\ j \in Nat
    BY <1>1
  <2>2. CASE j \in DOMAIN f /\ h[j] = f[j]
    BY <1>1, <1>2, <1>4, <2>1, <2>2
  <2>3. CASE j - Len(f) \in DOMAIN g /\ h[j] = g[j - Len(f)] /\ j > Len(f)
    <3>1. CASE i \in DOMAIN f /\ h[i] = f[i]
      <4>1. h[i] < b /\ b <= h[j] /\ h[i] \in Nat /\ h[j] \in Nat
        BY <1>3, <2>3, <3>1
      <4>2. QED
        BY <4>1
    <3>2. CASE i - Len(f) \in DOMAIN g /\ h[i] = g[i - Len(f)] /\ i > Len(f)
      <4>1. i - Len(f) < j - Len(f)
        BY <1>1, <1>4, <2>1
      <4>2. QED
        BY <2>3, <3>2, <4>1
    <3>3. QED
      BY <1>2, <3>1, <3>2
  <2>4. QED
    BY <1>2, <2>2, <2>3
<1>5. QED
  BY <1>3, <1>4 DEF h

LEMMA SentType ==
  ASSUME IInv, Reserved, LoadIsLast
  PROVE  /\ Sent \in Nat /\ Sent >= 1 /\ nextSeq \in Nat /\ undoSeq \in Nat
         /\ wpc \in {"stage", "persist", "publish", "load"} => Sent <= nextSeq
         /\ Len(staged) \in Nat
<1>1. /\ nextSeq \in Nat \ {0} /\ undoSeq \in Nat \ {0} /\ Len(staged) \in Nat
      /\ staged \in Seq(Txns)
  BY DEF IInv, TypeOK, JournalType, UnitType
<1>2. CASE wpc = "load"
  <2>1. Len(staged) >= 1
    BY <1>1, <1>2 DEF LoadIsLast
  <2>2. nextSeq = undoSeq + Len(staged)
    BY <1>2 DEF Reserved
  <2>3. QED
    BY <1>1, <1>2, <2>1, <2>2 DEF Sent
<1>3. CASE wpc \in {"stage", "persist", "publish"}
  <2>1. nextSeq = undoSeq + Len(staged)
    BY <1>3 DEF Reserved, IInv, IndInv, Numbered, InDoubt
  <2>2. QED
    BY <1>1, <1>3, <2>1 DEF Sent
<1>4. QED
  BY <1>1, <1>2, <1>3 DEF Sent

\* A step that publishes nothing and does not lower the bound.
LEMMA NothingSent ==
  ASSUME IInv, Reserved, LoadIsLast, PublishedBelow, published' = published,
         ~Replacing' => ~Replacing /\ Sent' \in Nat /\ Sent <= Sent'
  PROVE  PublishedBelow'
<1>1. published \in Seq(Nat) /\ Sent \in Nat
  BY SentType DEF IInv, TypeOK, ToldType
<1>2. \A i \in DOMAIN published : published[i] \in Nat
  BY <1>1
<1>3. ~Replacing' => \A i \in DOMAIN published : 1 <= published[i] /\ published[i] < Sent'
  BY <1>1, <1>2 DEF PublishedBelow
<1>4. QED
  BY <1>3 DEF PublishedBelow

\* A step that publishes sequences from the bound on.
LEMMA MoreSent ==
  ASSUME IInv, Reserved, LoadIsLast, PublishedBelow, ~Replacing,
         NEW g \in Seq(Nat), published' = published \o g, Sent' \in Nat, Sent <= Sent',
         \A i, j \in DOMAIN g : i < j => g[i] < g[j],
         \A i \in DOMAIN g : Sent <= g[i] /\ g[i] < Sent'
  PROVE  PublishedBelow'
<1>1. published \in Seq(Nat) /\ Sent \in Nat /\ Sent >= 1
  BY SentType DEF IInv, TypeOK, ToldType
<1>2. /\ \A i, j \in DOMAIN published : i < j => published[i] < published[j]
      /\ \A i \in DOMAIN published : 1 <= published[i] /\ published[i] < Sent
  BY DEF PublishedBelow
<1>3. PICK f, b, c : f = published /\ b = Sent /\ c = Sent'
  OBVIOUS
<1>4. /\ \A i, j \in DOMAIN f : i < j => f[i] < f[j]
      /\ \A i \in DOMAIN f : 1 <= f[i] /\ f[i] < b
      /\ \A i \in DOMAIN g : b <= g[i] /\ g[i] < c
      /\ f \in Seq(Nat) /\ b \in Nat /\ c \in Nat /\ 1 <= b /\ b <= c
  BY <1>1, <1>2, <1>3
<1>5. /\ \A i, j \in DOMAIN (f \o g) : i < j => (f \o g)[i] < (f \o g)[j]
      /\ \A i \in DOMAIN (f \o g) : 1 <= (f \o g)[i] /\ (f \o g)[i] < c
  BY <1>4, AppendAbove
<1>6. QED
  BY <1>3, <1>5 DEF PublishedBelow

\* Only FinishRewrite and a crash end the replacement of the rows.
LEMMA ReplacingEnds ==
  ASSUME IInv, Next, ~Crash, \A m \in Maintainers : ~FinishRewrite(m)
  PROVE  ~Replacing' => ~Replacing
<1> SUFFICES ASSUME NEW n \in Maintainers, mpc[n] = "stored"
             PROVE  mpc'[n] = "stored"
  BY DEF Replacing
<1>1. mpc \in [Maintainers -> {"idle", "ready", "claimed", "window", "stored"}]
  BY DEF IInv, TypeOK, MaintenanceType
<1>2. ASSUME NEW t \in Txns, Admit(t) PROVE UNCHANGED mpc
  BY <1>2 DEF Admit, maintenance
<1>3. CASE Work
  BY <1>3 DEF Work, Enqueue, CommitInline, GatherFirst, GatherMore, GatherDone,
     StageRequest, StageFails, Persist, PersistFails, RollBack, Publish, PublishLoad,
     ReplayChildren, Checkpoint, Complete, maintenance
<1>4. ASSUME NEW m \in Maintainers, CaptureHistory(m) \/ StartPurge(m) \/ Rewrite(m)
      PROVE  mpc'[n] = "stored"
  BY <1>1, <1>4 DEF CaptureHistory, StartPurge, Rewrite, ClaimBarrier, EnterWindow,
     RewriteStore, AbandonRewrite, Leave
<1>5. QED
  BY <1>2, <1>3, <1>4 DEF Next, Shutdown, Stopped, vars, maintenance

\* Publication of the unit, its payload load left for later.
LEMMA PublishSent ==
  ASSUME IInv, LoadIsLast, Reserved, PublishedBelow, Publish, ~Replacing' => ~Replacing
  PROVE  PublishedBelow'
<1>1. /\ wpc = "publish" /\ Sent = undoSeq /\ nextSeq = undoSeq + Len(staged)
      /\ nextSeq' = nextSeq /\ staged \in Seq(Txns) /\ batch # <<>>
  BY DEF Publish, Sent, Reserved, journal, IInv, IndInv, Phases, TypeOK, UnitType
<1>2. nextSeq \in Nat /\ undoSeq \in Nat /\ Len(staged) \in Nat /\ ~Replacing
  BY <1>1, SentType, WorkExcludesRewrites
<1> DEFINE WithLoad == \E j \in DOMAIN staged : staged[j] \in Loads
<1>3. Sent' = IF WithLoad THEN nextSeq - 1 ELSE nextSeq
  <2>1. CASE WithLoad
    BY <1>1, <2>1 DEF Publish, Sent
  <2>2. CASE ~WithLoad
    <3>1. wpc' \in {"stage", "checkpoint"} /\ undoSeq' = nextSeq'
      BY <2>2 DEF Publish, EndUnit, BeginUnit
    <3>2. QED
      BY <1>1, <2>2, <3>1 DEF Sent
  <2>3. QED
    BY <2>1, <2>2
<1>4. WithLoad => Len(staged) >= 1 /\ staged[Len(staged)] \in Loads
  BY <1>1 DEF LoadIsLast
<1>5. Sent' \in Nat /\ Sent <= Sent'
  BY <1>1, <1>2, <1>3, <1>4
<1>6. CASE published' = published
  BY <1>2, <1>5, <1>6, NothingSent
<1>7. ASSUME NEW g \in InOrder(StagedSeqs(Txns \ Loads)), published' = published \o g
      PROVE  PublishedBelow'
  <2> DEFINE S == StagedSeqs(Txns \ Loads)
  <2>1. IsFiniteSet(S) /\ S \subseteq Nat
    BY StagedSeqsAreFinite
  <2>2. /\ g \in Seq(Nat) /\ \A i \in DOMAIN g : g[i] \in S
        /\ \A i, j \in DOMAIN g : i < j => g[i] < g[j]
    BY <1>7, <2>1, InOrderNat
  <2>4. ASSUME NEW s \in S PROVE Sent <= s /\ s < Sent'
    <3>1. s \in undoSeq .. undoSeq + Len(staged) - 1 /\ staged[s - undoSeq + 1] \notin Loads
      BY DEF StagedSeqs
    <3>2. WithLoad => s - undoSeq + 1 # Len(staged)
      BY <1>4, <3>1
    <3>3. s \in Nat /\ undoSeq <= s /\ s < nextSeq
      BY <1>1, <1>2, <3>1
    <3>4. WithLoad => s < nextSeq - 1
      BY <1>1, <1>2, <3>2, <3>3
    <3>5. QED
      BY <1>1, <1>3, <3>3, <3>4
  <2> HIDE DEF S
  <2>5. \A i \in DOMAIN g : Sent <= g[i] /\ g[i] < Sent'
    BY <2>2, <2>4
  <2>6. QED
    BY <1>2, <1>5, <1>7, <2>2, <2>5, MoreSent
<1>8. QED
  BY <1>6, <1>7 DEF Publish

\* Publication of the payload load, which has the unit's last sequence.
LEMMA PublishLoadSent ==
  ASSUME IInv, LoadIsLast, Reserved, PublishedBelow, PublishLoad, ~Replacing' => ~Replacing
  PROVE  PublishedBelow'
<1>1. /\ wpc = "load" /\ Sent = nextSeq - 1 /\ nextSeq = undoSeq + Len(staged)
      /\ nextSeq' = nextSeq /\ batch # <<>> /\ staged \in Seq(Txns)
  BY DEF PublishLoad, Sent, Reserved, journal, IInv, IndInv, Phases, TypeOK, UnitType
<1>2. nextSeq \in Nat /\ undoSeq \in Nat /\ Len(staged) \in Nat /\ ~Replacing
      /\ Sent \in Nat
  BY <1>1, SentType, WorkExcludesRewrites
<1>3. Sent' = nextSeq
  <2>1. wpc' = "children" \/ (wpc' \in {"stage", "checkpoint"} /\ undoSeq' = nextSeq')
    BY DEF PublishLoad, EndUnit, BeginUnit
  <2>2. QED
    BY <1>1, <2>1 DEF Sent
<1>4. Sent' \in Nat /\ Sent <= Sent'
  BY <1>1, <1>2, <1>3
<1>5. CASE published' = published
  BY <1>2, <1>4, <1>5, NothingSent
<1>6. ASSUME NEW g \in InOrder(StagedSeqs(Loads)), published' = published \o g
      PROVE  PublishedBelow'
  <2> DEFINE S == StagedSeqs(Loads)
  <2>1. IsFiniteSet(S) /\ S \subseteq Nat
    BY StagedSeqsAreFinite
  <2>2. /\ g \in Seq(Nat) /\ \A i \in DOMAIN g : g[i] \in S
        /\ \A i, j \in DOMAIN g : i < j => g[i] < g[j]
    BY <1>6, <2>1, InOrderNat
  <2>4. ASSUME NEW s \in S PROVE Sent <= s /\ s < Sent'
    <3>1. s \in undoSeq .. undoSeq + Len(staged) - 1 /\ staged[s - undoSeq + 1] \in Loads
      BY DEF StagedSeqs
    <3>2. s - undoSeq + 1 \in DOMAIN staged
      BY <1>1, <1>2, <3>1
    <3>3. s - undoSeq + 1 = Len(staged)
      BY <1>1, <3>1, <3>2 DEF LoadIsLast
    <3>4. QED
      BY <1>1, <1>2, <1>3, <3>1, <3>3
  <2> HIDE DEF S
  <2>5. \A i \in DOMAIN g : Sent <= g[i] /\ g[i] < Sent'
    BY <2>2, <2>4
  <2>6. QED
    BY <1>2, <1>4, <1>6, <2>2, <2>5, MoreSent
<1>7. QED
  BY <1>5, <1>6 DEF PublishLoad

\* Child replay publishes at new sequences.
LEMMA ReplayChildrenSent ==
  ASSUME IInv, LoadIsLast, Reserved, PublishedBelow, ReplayChildren,
         ~Replacing' => ~Replacing
  PROVE  PublishedBelow'
<1>1. /\ wpc = "children" /\ Sent = nextSeq /\ batch # <<>>
  BY DEF ReplayChildren, Sent, IInv, IndInv, Phases
<1>2. nextSeq \in Nat /\ ~Replacing
  BY <1>1, SentType, WorkExcludesRewrites
<1>3. Sent' = nextSeq'
  <2>1. wpc' \in {"stage", "checkpoint"} /\ undoSeq' = nextSeq'
    BY DEF ReplayChildren, EndUnit, BeginUnit
  <2>2. QED
    BY <2>1 DEF Sent
<1>4. CASE published' = published /\ nextSeq' = nextSeq
  BY <1>1, <1>2, <1>3, <1>4, NothingSent
<1>5. ASSUME NEW g \in InOrder(ChildWrites(rows)), nextSeq' = nextSeq + Len(g),
             published' = published \o [j \in 1..Len(g) |-> nextSeq + j - 1]
      PROVE  PublishedBelow'
  <2>1. IsTable(rows)
    BY DEF IInv, TypeOK, DurableType
  <2>2. IsFiniteSet(ChildWrites(rows))
    BY <2>1, FS_Subset DEF ChildWrites, LastWrites, IsTable
  <2>3. Len(g) \in Nat
    BY <2>2, InOrderIsSequence
  <2> DEFINE h == [j \in 1..Len(g) |-> nextSeq + j - 1]
  <2>4. h \in Seq(Nat) /\ DOMAIN h = 1..Len(g) /\ \A j \in 1..Len(g) : h[j] = nextSeq + j - 1
    BY <1>2, <2>3
  <2> HIDE DEF h
  <2>5. \A i, j \in DOMAIN h : i < j => h[i] < h[j]
    BY <1>2, <2>3, <2>4
  <2>6. \A i \in DOMAIN h : Sent <= h[i] /\ h[i] < Sent'
    BY <1>1, <1>2, <1>3, <1>5, <2>3, <2>4
  <2>7. Sent' \in Nat /\ Sent <= Sent'
    BY <1>1, <1>2, <1>3, <1>5, <2>3
  <2>8. published' = published \o h
    BY <1>5 DEF h
  <2>9. QED
    BY <1>2, <2>4, <2>5, <2>6, <2>7, <2>8, MoreSent
<1>6. QED
  BY <1>4, <1>5 DEF ReplayChildren

LEMMA PublishedStep ==
  ASSUME IInv, IInv', LoadIsLast, LoadIsLast', Reserved, Reserved',
         PublishedBelow, [Next]_vars
  PROVE  PublishedBelow'
<1>1. /\ Sent \in Nat /\ nextSeq \in Nat /\ undoSeq \in Nat
      /\ Sent' \in Nat /\ nextSeq' \in Nat /\ undoSeq' \in Nat
  <2>1. nextSeq' \in Nat \ {0} /\ undoSeq' \in Nat \ {0}
    BY DEF IInv, TypeOK, JournalType, UnitType
  <2>3. Sent' = undoSeq' \/ Sent' = nextSeq' - 1 \/ Sent' = nextSeq'
    BY DEF Sent
  <2>2. QED
    BY <2>1, <2>3, SentType
<1>2. CASE Crash
  BY <1>2 DEF Crash, PublishedBelow
<1>3. ASSUME NEW m \in Maintainers, FinishRewrite(m) PROVE PublishedBelow'
  <2>1. readers = 0
    BY <1>3 DEF FinishRewrite, IInv, IndInv, OneWriter
  <2>2. wpc \in {"idle", "stopped"} /\ wpc' = wpc
    BY <1>3, <2>1, NoReaders DEF FinishRewrite, Leave, worker
  <2>3. Sent' = nextSeq'
    BY <2>2 DEF Sent
  <2>4. PICK n : n = Cardinality(DOMAIN rows)
    OBVIOUS
  <2>5. published' = [i \in 1..n |-> i] /\ nextSeq' = n + 1
    BY <1>3, <2>4 DEF FinishRewrite
  <2>6. n \in Nat
    BY <2>4, FS_CardinalityType DEF IInv, TypeOK, DurableType, IsTable
  <2>7. QED
    BY <2>3, <2>5, <2>6 DEF PublishedBelow
<1>4. ASSUME ~Crash, \A m \in Maintainers : ~FinishRewrite(m), Next
      PROVE  PublishedBelow'
  <2>1. ~Replacing' => ~Replacing
    BY <1>4, ReplacingEnds
  <2>2. CASE Publish \/ PublishLoad \/ ReplayChildren
    BY <2>1, <2>2, PublishSent, PublishLoadSent, ReplayChildrenSent
  <2>3. CASE published' = published /\ Sent' = Sent
    BY <1>1, <2>1, <2>3, NothingSent
  <2>4. CASE CommitInline \/ GatherDone
    <3>1. published' = published /\ wpc \in {"idle", "gather"} /\ wpc' = "stage"
          /\ undoSeq' = nextSeq' /\ nextSeq' = nextSeq
      BY <2>4 DEF CommitInline, GatherDone, BeginUnit, told, journal
    <3>2. QED
      BY <3>1, <2>3 DEF Sent
  <2>5. CASE StageRequest
    <3>1. /\ wpc = "stage" /\ wpc' \in {"stage", "persist", "checkpoint"}
          /\ undoSeq' = undoSeq /\ published' = published
      BY <2>5 DEF StageRequest, AfterCheck, told
    <3>2. nextSeq' = nextSeq \/ nextSeq' = nextSeq + 1
      BY <2>5 DEF StageRequest
    <3>3. Sent = undoSeq /\ undoSeq <= nextSeq
      BY <3>1, SentType DEF Sent
    <3>4. Sent <= Sent'
      <4>1. Sent' = undoSeq' \/ Sent' = nextSeq'
        BY <3>1 DEF Sent
      <4>2. QED
        BY <1>1, <3>1, <3>2, <3>3, <4>1
    <3>5. QED
      BY <1>1, <2>1, <3>1, <3>4, NothingSent
  <2>6. CASE StageFails \/ PersistFails
    <3>1. /\ wpc \in {"stage", "persist"} /\ wpc' \in {"stage", "checkpoint"}
          /\ nextSeq' = undoSeq /\ undoSeq' = nextSeq' /\ published' = published
      BY <2>6 DEF StageFails, PersistFails, RollBack, ReturnSequences, BeginUnit, told
    <3>2. QED
      BY <3>1, <2>3 DEF Sent
  <2>7. CASE Persist
    BY <2>3, <2>7 DEF Persist, unit, Sent
  <2>8. CASE GatherFirst \/ GatherMore \/ Checkpoint
    BY <2>3, <2>8 DEF GatherFirst, GatherMore, Checkpoint, told, journal, Sent
  <2>9. CASE Complete
    BY <2>3, <2>9 DEF Complete, AfterBatch, journal, Sent
  <2>10. CASE UNCHANGED <<worker, nextSeq, published>>
    BY <2>3, <2>10 DEF worker, unit, Sent
  <2>11. CASE Enqueue
    BY <2>10, <2>11 DEF Enqueue, journal, told
  <2>12. ASSUME NEW t \in Txns, Admit(t) PROVE UNCHANGED <<worker, nextSeq, published>>
    BY <2>12 DEF Admit, journal, told
  <2>13. ASSUME NEW m \in Maintainers, CaptureHistory(m) \/ StartPurge(m) \/ Rewrite(m)
         PROVE  UNCHANGED <<worker, nextSeq, published>>
    BY <1>4, <2>13 DEF CaptureHistory, StartPurge, Rewrite, ClaimBarrier, EnterWindow,
       RewriteStore, AbandonRewrite, Leave, journal, told
  <2>14. QED
    BY <1>4, <2>2, <2>4, <2>5, <2>6, <2>7, <2>8, <2>9, <2>10, <2>11, <2>12, <2>13
    DEF Next, Work, Shutdown, Stopped, vars, journal, told
<1>5. CASE UNCHANGED vars
  <2>1. UNCHANGED <<published, wpc, undoSeq, nextSeq, mpc>>
    BY <1>5 DEF vars, told, worker, unit, journal, maintenance
  <2>2. QED
    BY <2>1 DEF PublishedBelow, Sent, Replacing
<1>6. QED
  BY <1>2, <1>3, <1>4, <1>5

-----------------------------------------------------------------------------
(* What rows replay to.                                                    *)

\* An increasing enumeration reaches every element of the set.
LEMMA InOrderOnto ==
  ASSUME NEW S, IsFiniteSet(S), S \subseteq Nat, NEW g \in InOrder(S), NEW s \in S
  PROVE  \E i \in DOMAIN g : g[i] = s
<1>1. PICK n : n = Cardinality(S)
  OBVIOUS
<1>2. n \in Nat /\ IsFiniteSet(1..n) /\ Cardinality(1..n) = n
  BY <1>1, FS_CardinalityType, IntervalLength
<1>3. /\ g \in [1..n -> S] /\ DOMAIN g = 1..n
      /\ \A i, j \in 1..n : i < j => g[i] < g[j]
  BY <1>1 DEF InOrder
<1>4. ASSUME NEW i \in 1..n, NEW j \in 1..n, g[i] = g[j] PROVE i = j
  <2>1. g[i] \in Nat /\ g[j] \in Nat /\ i \in Nat /\ j \in Nat
    <3>1. g[i] \in S /\ g[j] \in S
      BY <1>3
    <3>2. i \in Nat /\ j \in Nat
      BY <1>2
    <3>3. QED
      BY <3>1, <3>2
  <2>2. ~(i < j) /\ ~(j < i)
    BY <1>3, <1>4, <2>1
  <2>3. QED
    BY <2>1, <2>2
<1>5. g \in Injection(1..n, S)
  BY <1>3, <1>4 DEF Injection, IsInjective
<1>6. g \in Surjection(1..n, S)
  BY <1>1, <1>2, <1>5, FS_Injection
<1>7. QED
  BY <1>3, <1>6 DEF Surjection

\* The last write of a slot is what replay leaves there.
LEMMA ReplayLast ==
  ASSUME NEW f, DOMAIN f \subseteq Nat, NEW k \in Keys,
         NEW s \in LastWrites(f), KeyOf[f[s]] = k
  PROVE  Replay(f)[k] = f[s]
<1> DEFINE last == {t \in LastWrites(f) : KeyOf[f[t]] = k}
<1>1. \A t \in last : t = s
  BY DEF LastWrites
<1>2. last = {s}
  BY <1>1
<1>3. (CHOOSE t \in last : TRUE) = s
  BY <1>2
<1>4. QED
  BY <1>2, <1>3 DEF Replay

\* A slot without a last write stays empty.
LEMMA ReplayNone ==
  ASSUME NEW f, NEW k \in Keys, \A s \in LastWrites(f) : KeyOf[f[s]] # k
  PROVE  Replay(f)[k] = None
  BY DEF Replay

\* Two logs whose last writes of a slot have the same record replay alike there.
LEMMA ReplaySame ==
  ASSUME NEW f, DOMAIN f \subseteq Nat, NEW h, DOMAIN h \subseteq Nat, NEW k \in Keys,
         \A s \in LastWrites(f) : KeyOf[f[s]] = k => \E t \in LastWrites(h) : h[t] = f[s],
         \A t \in LastWrites(h) : KeyOf[h[t]] = k => \E s \in LastWrites(f) : KeyOf[f[s]] = k
  PROVE  Replay(h)[k] = Replay(f)[k]
<1>1. CASE \E s \in LastWrites(f) : KeyOf[f[s]] = k
  <2>1. PICK s \in LastWrites(f) : KeyOf[f[s]] = k
    BY <1>1
  <2>2. PICK t \in LastWrites(h) : h[t] = f[s]
    BY <2>1
  <2>3. Replay(f)[k] = f[s] /\ Replay(h)[k] = h[t]
    BY <2>1, <2>2, ReplayLast
  <2>4. QED
    BY <2>2, <2>3
<1>2. CASE ~ \E s \in LastWrites(f) : KeyOf[f[s]] = k
  BY <1>2, ReplayNone
<1>3. QED
  BY <1>1, <1>2

\* The old and the new records of an extended log.
LEMMA ExtendRecords ==
  ASSUME NEW f, NEW first \in Nat \ {0}, NEW new \in Seq(Txns), DOMAIN f = 1..first - 1
  PROVE  /\ DOMAIN Extend(f, first, new) = 1..first + Len(new) - 1
         /\ \A s \in 1..first - 1 : Extend(f, first, new)[s] = f[s]
         /\ \A j \in 1..Len(new) : /\ first + j - 1 \in DOMAIN Extend(f, first, new)
                                   /\ Extend(f, first, new)[first + j - 1] = new[j]
         /\ \A s \in DOMAIN Extend(f, first, new) :
               \/ s \in 1..first - 1
               \/ \E j \in 1..Len(new) : s = first + j - 1
<1>1. PICK n : n = Len(new) /\ n \in Nat
  OBVIOUS
<1>2. DOMAIN f \cup (first .. first + n - 1) = 1..first + n - 1
  BY <1>1
<1> DEFINE h == Extend(f, first, new)
<1>3. h = [s \in DOMAIN f \cup (first .. first + n - 1) |->
             IF s \in DOMAIN f THEN f[s] ELSE new[s - first + 1]]
  BY <1>1 DEF Extend
<1>4. DOMAIN h = 1..first + n - 1
      /\ \A s \in 1..first + n - 1 : h[s] = IF s \in DOMAIN f THEN f[s] ELSE new[s - first + 1]
  BY <1>2, <1>3
<1> HIDE DEF h
<1>5. \A s \in 1..first - 1 : s \in 1..first + n - 1 /\ s \in DOMAIN f
  BY <1>1
<1>6. ASSUME NEW j \in 1..n PROVE first + j - 1 \in DOMAIN h /\ h[first + j - 1] = new[j]
  <2>1. PICK s : s = first + j - 1 /\ s \in 1..first + n - 1 /\ s \notin DOMAIN f
                 /\ s - first + 1 = j
    BY <1>1
  <2>2. QED
    BY <1>4, <2>1
<1>7. ASSUME NEW s \in 1..first + n - 1, s \notin 1..first - 1
      PROVE  \E j \in 1..n : s = first + j - 1
  <2>1. s - first + 1 \in 1..n /\ s = first + (s - first + 1) - 1
    BY <1>1, <1>7
  <2>2. QED
    BY <2>1
<1>8. QED
  BY <1>1, <1>4, <1>5, <1>6, <1>7 DEF h

\* Every new record is in the extended log.
LEMMA ExtendHolds ==
  ASSUME NEW f, NEW first \in Nat \ {0}, NEW new \in Seq(Txns), DOMAIN f = 1..first - 1,
         NEW j \in DOMAIN new
  PROVE  \E s \in DOMAIN Extend(f, first, new) : Extend(f, first, new)[s] = new[j]
<1>1. j \in 1..Len(new)
  OBVIOUS
<1>2. /\ first + j - 1 \in DOMAIN Extend(f, first, new)
      /\ Extend(f, first, new)[first + j - 1] = new[j]
  BY <1>1, ExtendRecords
<1>3. QED
  BY <1>2

\* A slot without a new record keeps its last write.
LEMMA ExtendOther ==
  ASSUME NEW f, NEW first \in Nat \ {0}, NEW new \in Seq(Txns), DOMAIN f = 1..first - 1,
         NEW k \in Keys, \A j \in DOMAIN new : KeyOf[new[j]] # k
  PROVE  Replay(Extend(f, first, new))[k] = Replay(f)[k]
<1>1. PICK h : h = Extend(f, first, new)
  OBVIOUS
<1>2. /\ DOMAIN h = 1..first + Len(new) - 1 /\ Len(new) \in Nat
      /\ \A s \in DOMAIN f : s \in DOMAIN h /\ h[s] = f[s]
  BY <1>1, ExtendRecords
<1>3. \A s \in DOMAIN h : s \in DOMAIN f \/ KeyOf[h[s]] # k
  BY <1>1, ExtendRecords
<1>4. DOMAIN h \subseteq Nat /\ DOMAIN f \subseteq Nat
  BY <1>2
<1>5. \A s \in LastWrites(f) : KeyOf[f[s]] = k => s \in LastWrites(h) /\ h[s] = f[s]
  BY <1>2, <1>3 DEF LastWrites
<1>6. \A t \in LastWrites(h) : KeyOf[h[t]] = k => t \in LastWrites(f) /\ KeyOf[f[t]] = k
  BY <1>2, <1>3 DEF LastWrites
<1>7. Replay(h)[k] = Replay(f)[k]
  BY <1>4, <1>5, <1>6, ReplaySame
<1>8. QED
  BY <1>1, <1>7

\* A slot's last new record is what the extended log replays to.
LEMMA ExtendLast ==
  ASSUME NEW f, NEW first \in Nat \ {0}, NEW new \in Seq(Txns), DOMAIN f = 1..first - 1,
         NEW k \in Keys, NEW j \in DOMAIN new, KeyOf[new[j]] = k,
         \A i \in DOMAIN new : i > j => KeyOf[new[i]] # k
  PROVE  Replay(Extend(f, first, new))[k] = new[j]
<1>1. PICK h : h = Extend(f, first, new)
  OBVIOUS
<1>2. PICK s : s = first + j - 1
  OBVIOUS
<1>3. s \in DOMAIN h /\ h[s] = new[j] /\ DOMAIN h = 1..first + Len(new) - 1
      /\ Len(new) \in Nat
  BY <1>1, <1>2, ExtendRecords
<1>4. ASSUME NEW t \in DOMAIN h, t > s PROVE KeyOf[h[t]] # k
  <2>1. PICK i \in 1..Len(new) : t = first + i - 1 /\ h[t] = new[i]
    <3>1. t \notin 1..first - 1
      BY <1>2, <1>3, <1>4
    <3>2. QED
      BY <1>1, <3>1, ExtendRecords
  <2>2. i > j
    BY <1>2, <1>3, <1>4, <2>1
  <2>3. QED
    BY <2>1, <2>2
<1>5. s \in LastWrites(h)
  BY <1>3, <1>4 DEF LastWrites
<1>6. DOMAIN h \subseteq Nat
  BY <1>3
<1>7. Replay(h)[k] = h[s]
  BY <1>3, <1>5, <1>6, ReplayLast
<1>8. QED
  BY <1>1, <1>3, <1>7

\* Compaction keeps what the rows replay to.
LEMMA CompactionReplay ==
  ASSUME NEW f, IsTable(f), NEW g \in InOrder(LastWrites(f)), NEW k \in Keys
  PROVE  Replay([i \in DOMAIN g |-> f[g[i]]])[k] = Replay(f)[k]
<1>1. PICK h : h = [i \in DOMAIN g |-> f[g[i]]]
  OBVIOUS
<1>2. PICK S : S = LastWrites(f)
  OBVIOUS
<1>3. DOMAIN f \subseteq Nat /\ IsFiniteSet(S) /\ S \subseteq Nat /\ S \subseteq DOMAIN f
  BY <1>2, FS_Subset DEF IsTable, LastWrites
<1>4. /\ g \in Seq(Nat) /\ \A i \in DOMAIN g : g[i] \in S
      /\ \A i, j \in DOMAIN g : i < j => g[i] < g[j]
  BY <1>2, <1>3, InOrderNat
<1>5. DOMAIN h = DOMAIN g /\ DOMAIN h \subseteq Nat /\ \A i \in DOMAIN g : h[i] = f[g[i]]
  BY <1>1, <1>4
<1>6. ASSUME NEW s \in LastWrites(f), KeyOf[f[s]] = k
      PROVE  \E t \in LastWrites(h) : h[t] = f[s]
  <2>1. PICK i \in DOMAIN g : g[i] = s
    BY <1>2, <1>3, <1>6, InOrderOnto
  <2>2. ASSUME NEW t \in DOMAIN h, t > i, KeyOf[h[t]] = KeyOf[h[i]] PROVE FALSE
    <3>1. g[t] > g[i] /\ g[t] \in DOMAIN f /\ KeyOf[f[g[t]]] = KeyOf[f[g[i]]]
      <4>1. t \in DOMAIN g /\ i < t /\ g[t] \in DOMAIN f
        BY <1>3, <1>4, <1>5, <2>2
      <4>2. g[i] < g[t] /\ g[i] \in Nat /\ g[t] \in Nat
        BY <1>4, <4>1
      <4>3. QED
        BY <1>5, <2>2, <4>1, <4>2
    <3>2. QED
      BY <2>1, <3>1 DEF LastWrites
  <2>3. i \in LastWrites(h)
    BY <1>5, <2>2 DEF LastWrites
  <2>4. QED
    BY <1>5, <2>1, <2>3
<1>7. ASSUME NEW t \in LastWrites(h), KeyOf[h[t]] = k
      PROVE  \E s \in LastWrites(f) : KeyOf[f[s]] = k
  <2>1. t \in DOMAIN g
    BY <1>5 DEF LastWrites
  <2>2. g[t] \in LastWrites(f) /\ KeyOf[f[g[t]]] = k
    BY <1>2, <1>4, <1>5, <1>7, <2>1
  <2>3. QED
    BY <2>2
<1>8. Replay(h)[k] = Replay(f)[k]
  BY <1>3, <1>5, <1>6, <1>7, ReplaySame
<1>9. QED
  BY <1>1, <1>8

\* Child replay appends the records that are the last of their slots already.
LEMMA ChildReplay ==
  ASSUME NEW f, IsTable(f), NEW n \in Nat \ {0}, DOMAIN f = 1..n - 1,
         NEW g \in InOrder(ChildWrites(f)), NEW k \in Keys
  PROVE  /\ [j \in 1..Len(g) |-> f[g[j]]] \in Seq(Txns)
         /\ Replay(Extend(f, n, [j \in 1..Len(g) |-> f[g[j]]]))[k] = Replay(f)[k]
<1>1. PICK h : h = [j \in 1..Len(g) |-> f[g[j]]]
  OBVIOUS
<1>2. PICK S : S = ChildWrites(f)
  OBVIOUS
<1>3. /\ DOMAIN f \subseteq Nat /\ IsFiniteSet(S) /\ S \subseteq Nat
      /\ S \subseteq DOMAIN f /\ S \subseteq LastWrites(f)
  BY <1>2, FS_Subset DEF IsTable, LastWrites, ChildWrites
<1>4. /\ g \in Seq(Nat) /\ \A i \in DOMAIN g : g[i] \in S
      /\ \A i, j \in DOMAIN g : i < j => g[i] < g[j]
  BY <1>2, <1>3, InOrderNat
<1>5. /\ Len(g) \in Nat /\ DOMAIN g = 1..Len(g) /\ DOMAIN h = 1..Len(g)
      /\ \A j \in DOMAIN h : h[j] = f[g[j]] /\ h[j] \in Txns
  BY <1>1, <1>3, <1>4 DEF IsTable
<1>6. h \in Seq(Txns)
  BY <1>1, <1>5
<1>7. CASE \E j \in DOMAIN h : KeyOf[h[j]] = k
  <2>1. PICK j \in DOMAIN h : KeyOf[h[j]] = k
    BY <1>7
  <2>2. g[j] \in LastWrites(f) /\ KeyOf[f[g[j]]] = k
    BY <1>3, <1>4, <1>5, <2>1
  <2>3. Replay(f)[k] = h[j]
    BY <1>3, <1>5, <2>1, <2>2, ReplayLast
  <2>4. ASSUME NEW i \in DOMAIN h, i > j PROVE KeyOf[h[i]] # k
    <3>1. g[i] \in DOMAIN f /\ g[i] \in Nat /\ g[j] \in Nat /\ j < i
      BY <1>3, <1>4, <1>5, <2>1, <2>4
    <3>2. g[i] > g[j]
      BY <1>4, <1>5, <2>1, <3>1
    <3>3. QED
      BY <1>5, <2>1, <2>2, <3>1, <3>2 DEF LastWrites
  <2>5. Replay(Extend(f, n, h))[k] = h[j]
    BY <1>6, <2>1, <2>4, ExtendLast
  <2>6. QED
    BY <1>1, <1>6, <2>3, <2>5
<1>8. CASE \A j \in DOMAIN h : KeyOf[h[j]] # k
  BY <1>1, <1>6, <1>8, ExtendOther
<1>9. QED
  BY <1>7, <1>8

\* Merging a captured prefix with what followed it gives the log.
LEMMA MergedIsLog ==
  ASSUME IInv, CapturesArePrefixes, ~Replacing,
         NEW m \in Maintainers, cap[m] # None, CaptureIsCurrent(m)
  PROVE  Merged(m) = rows
<1>1. PICK old : old = cap[m].rows
  OBVIOUS
<1>2. /\ DOMAIN old = 1..Cardinality(DOMAIN old) /\ IsTable(old)
      /\ \A s \in DOMAIN old : s \in DOMAIN rows /\ rows[s] = old[s]
  BY <1>1 DEF CapturesArePrefixes, CaptureIsCurrent, IInv, TypeOK, MaintenanceType
<1>3. PICK c : c = Cardinality(DOMAIN old)
  OBVIOUS
<1>4. c \in Nat /\ DOMAIN old = 1..c
  BY <1>2, <1>3, FS_CardinalityType DEF IsTable
<1>5. MaxSeq(old) = c
  <2>1. PICK n : n = c + 1
    OBVIOUS
  <2>2. n \in Nat \ {0} /\ n - 1 = c
    BY <1>4, <2>1
  <2>3. QED
    BY <1>4, <2>2, MaxSeqType
<1>6. IsTable(rows) /\ DOMAIN rows \subseteq Nat \ {0} /\ rows = [s \in DOMAIN rows |-> rows[s]]
  BY DEF IInv, TypeOK, DurableType, IsTable
<1>7. DOMAIN old \cup {t \in DOMAIN rows : t > MaxSeq(old)} = DOMAIN rows
  <2>1. ASSUME NEW t \in DOMAIN rows, t \notin DOMAIN old PROVE t > c
    BY <1>4, <1>6, <2>1
  <2>2. \A t \in DOMAIN rows : t \in DOMAIN old \/ t > MaxSeq(old)
    BY <1>5, <2>1
  <2>3. QED
    BY <1>2, <2>2
<1>8. Merged(m) = [s \in DOMAIN rows |-> IF s \in DOMAIN old THEN old[s] ELSE rows[s]]
  BY <1>1, <1>7 DEF Merged
<1>9. QED
  BY <1>2, <1>6, <1>8

-----------------------------------------------------------------------------
(* The authoritative stage.                                                *)

\* The steps that begin a unit of commit, or end one.
LEMMA UnitBegins ==
  ASSUME CommitInline \/ GatherDone \/ StageFails \/ PersistFails
         \/ ReplayChildren \/ ((Publish \/ PublishLoad) /\ EndUnit)
  PROVE  staged' = <<>> /\ undoScene' = scene'
  BY DEF CommitInline, GatherDone, StageFails, PersistFails, RollBack, ReplayChildren,
     EndUnit, BeginUnit

\* Steps after which no unit is in doubt, or whose unit is the one before.
LEMMA StagedScope ==
  ASSUME IInv, [Next]_vars
  PROVE  \/ staged' = <<>> /\ undoScene' = scene'
         \/ ~InDoubt'
         \/ StageRequest
         \/ InDoubt /\ UNCHANGED <<staged, scene, undoScene>>
<1>1. CASE CommitInline \/ GatherDone \/ StageFails \/ PersistFails \/ ReplayChildren
  BY <1>1, UnitBegins
<1>2. CASE Publish \/ PublishLoad
  <2>1. EndUnit \/ wpc' \in {"load", "children"}
    BY <1>2 DEF Publish, PublishLoad
  <2>2. QED
    BY <1>2, <2>1, UnitBegins DEF InDoubt
<1>3. CASE Persist \/ Checkpoint \/ GatherFirst \/ GatherMore
  BY <1>3 DEF Persist, Checkpoint, GatherFirst, GatherMore, InDoubt
<1>4. CASE Complete
  BY <1>4 DEF Complete, AfterBatch, InDoubt
<1>5. CASE UNCHANGED <<wpc, staged, scene, undoScene>>
  BY <1>5 DEF InDoubt
<1>6. CASE Enqueue
  BY <1>5, <1>6 DEF Enqueue, worker, unit, journal
<1>7. ASSUME NEW t \in Txns, Admit(t) PROVE UNCHANGED <<wpc, staged, scene, undoScene>>
  BY <1>7 DEF Admit, worker, unit, journal
<1>8. ASSUME NEW m \in Maintainers, CaptureHistory(m) \/ StartPurge(m) \/ Rewrite(m)
      PROVE  ~InDoubt' \/ UNCHANGED <<wpc, staged, scene, undoScene>>
  <2>1. CASE FinishRewrite(m)
    <3>1. wpc \in {"idle", "stopped"} /\ wpc' = wpc
      BY <2>1, NoReaders DEF FinishRewrite, Leave, worker, IInv, IndInv, OneWriter
    <3>2. QED
      BY <3>1 DEF InDoubt
  <2>2. QED
    BY <1>8, <2>1 DEF CaptureHistory, StartPurge, Rewrite, ClaimBarrier, EnterWindow,
       RewriteStore, AbandonRewrite, Leave, worker, unit, journal
<1>9. CASE Crash
  BY <1>9 DEF Crash, InDoubt
<1>10. QED
  BY <1>1, <1>2, <1>3, <1>4, <1>5, <1>6, <1>7, <1>8, <1>9
  DEF Next, Work, Shutdown, Stopped, vars, worker, unit, journal

LEMMA StagedStep ==
  ASSUME IInv, SceneIsStaged, [Next]_vars
  PROVE  SceneIsStaged'
<1>1. CASE staged' = <<>> /\ undoScene' = scene'
  BY <1>1 DEF SceneIsStaged
<1>2. CASE ~InDoubt'
  BY <1>2 DEF SceneIsStaged
<1>3. CASE InDoubt /\ UNCHANGED <<staged, scene, undoScene>>
  BY <1>3 DEF SceneIsStaged
<1>4. CASE StageRequest
  <2> DEFINE t == batch[Len(outcome) + 1]
  <2>1. wpc = "stage" /\ InDoubt /\ undoScene' = undoScene
        /\ \/ UNCHANGED <<staged, scene>>
           \/ staged' = Append(staged, t) /\ scene' = [scene EXCEPT ![KeyOf[t]] = t]
    BY <1>4 DEF StageRequest, InDoubt
  <2>2. t \in Txns /\ staged \in Seq(Txns) /\ scene \in [Keys -> Txns \cup {None}]
    BY <2>1, CurrentRequest DEF IInv, TypeOK, UnitType, JournalType
  <2> HIDE DEF t
  <2>3. CASE UNCHANGED <<staged, scene>>
    BY <2>1, <2>3 DEF SceneIsStaged
  <2>4. CASE staged' = Append(staged, t) /\ scene' = [scene EXCEPT ![KeyOf[t]] = t]
    <3> DEFINE n == Len(staged) + 1
    <3>1. /\ DOMAIN staged' = 1..n /\ DOMAIN staged = 1..Len(staged) /\ Len(staged) \in Nat
          /\ staged'[n] = t /\ \A j \in DOMAIN staged : staged'[j] = staged[j]
      BY <2>2, <2>4
    <3>2. n \in DOMAIN staged' /\ \A j \in DOMAIN staged' : j \in DOMAIN staged \/ j = n
      BY <3>1
    <3>3. \A j \in DOMAIN staged' : ~(j > n)
      BY <3>1
    <3> HIDE DEF n
    <3>4. SUFFICES ASSUME NEW k \in Keys
                   PROVE  \/ \E j \in DOMAIN staged' :
                                /\ KeyOf[staged'[j]] = k /\ scene'[k] = staged'[j]
                                /\ \A i \in DOMAIN staged' : i > j => KeyOf[staged'[i]] # k
                          \/ /\ \A j \in DOMAIN staged' : KeyOf[staged'[j]] # k
                             /\ scene'[k] = undoScene'[k]
      BY DEF SceneIsStaged
    <3>5. CASE KeyOf[t] = k
      <4>1. scene'[k] = t
        BY <2>2, <2>4, <3>5
      <4>2. QED
        BY <3>1, <3>2, <3>3, <3>5, <4>1
    <3>6. CASE KeyOf[t] # k
      <4>1. scene'[k] = scene[k]
        BY <2>2, <2>4, <3>6
      <4>2. QED
        BY <2>1, <3>1, <3>2, <3>6, <4>1 DEF SceneIsStaged
    <3>7. QED
      BY <3>5, <3>6
  <2>5. QED
    BY <2>1, <2>3, <2>4
<1>5. QED
  BY <1>1, <1>2, <1>3, <1>4, StagedScope

\* A step that leaves the rows and shows the same stage.
LEMMA SameScene ==
  ASSUME SceneIsReplay, rows' = rows, ~Replacing' => ~Replacing,
         (IF InDoubt' THEN undoScene' ELSE scene') = IF InDoubt THEN undoScene ELSE scene
  PROVE  SceneIsReplay'
  BY DEF SceneIsReplay

\* Persisting the accepted requests makes the stage that shows them durable.
LEMMA PersistScene ==
  ASSUME IInv, SceneIsStaged, SceneIsReplay, Persist
  PROVE  SceneIsReplay'
<1>1. /\ wpc = "persist" /\ InDoubt /\ ~InDoubt' /\ scene' = scene /\ batch # <<>>
      /\ rows' = Extend(rows, undoSeq, staged)
  BY DEF Persist, InDoubt, IInv, IndInv, Phases
<1>2. ~Replacing /\ DOMAIN rows = 1..undoSeq - 1 /\ undoSeq \in Nat \ {0}
      /\ staged \in Seq(Txns)
  BY <1>1, WorkExcludesRewrites
  DEF IInv, IndInv, Numbered, LogHasNoHoles, TypeOK, UnitType
<1>3. SUFFICES ASSUME NEW k \in Keys
               PROVE  \/ scene[k] = Replay(rows')[k]
                      \/ k \in SessionKeys /\ Replay(rows')[k] = None
  BY <1>1 DEF SceneIsReplay
<1>4. ASSUME NEW j \in DOMAIN staged, KeyOf[staged[j]] = k, scene[k] = staged[j],
             \A i \in DOMAIN staged : i > j => KeyOf[staged[i]] # k
      PROVE  scene[k] = Replay(rows')[k]
  <2>1. PICK f, first, new : f = rows /\ first = undoSeq /\ new = staged
    OBVIOUS
  <2>2. Replay(Extend(f, first, new))[k] = new[j]
    <3>1. /\ first \in Nat \ {0} /\ new \in Seq(Txns) /\ DOMAIN f = 1..first - 1
          /\ j \in DOMAIN new /\ KeyOf[new[j]] = k
          /\ \A i \in DOMAIN new : i > j => KeyOf[new[i]] # k
      BY <1>2, <1>4, <2>1
    <3>2. QED
      BY <3>1, ExtendLast
  <2>3. QED
    BY <1>1, <1>4, <2>1, <2>2
<1>5. ASSUME \A j \in DOMAIN staged : KeyOf[staged[j]] # k, scene[k] = undoScene[k]
      PROVE  \/ scene[k] = Replay(rows')[k]
             \/ k \in SessionKeys /\ Replay(rows')[k] = None
  <2>1. PICK f, first, new : f = rows /\ first = undoSeq /\ new = staged
    OBVIOUS
  <2>2. Replay(Extend(f, first, new))[k] = Replay(f)[k]
    BY <1>2, <1>5, <2>1, ExtendOther
  <2>3. Replay(rows')[k] = Replay(rows)[k]
    BY <1>1, <2>1, <2>2
  <2>4. undoScene[k] = Replay(rows)[k] \/ (k \in SessionKeys /\ Replay(rows)[k] = None)
    BY <1>1, <1>2 DEF SceneIsReplay
  <2>5. QED
    BY <1>5, <2>3, <2>4
<1>6. QED
  BY <1>1, <1>4, <1>5 DEF SceneIsStaged

\* Child replay shows what was shown.
LEMMA ChildrenScene ==
  ASSUME IInv, SceneIsReplay, ReplayChildren
  PROVE  SceneIsReplay'
<1>1. /\ wpc = "children" /\ ~InDoubt /\ scene' = scene /\ batch # <<>>
      /\ undoScene' = scene'
  BY UnitBegins DEF ReplayChildren, InDoubt, IInv, IndInv, Phases
<1>2. /\ ~Replacing /\ DOMAIN rows = 1..nextSeq - 1 /\ nextSeq \in Nat \ {0}
      /\ IsTable(rows)
  BY <1>1, WorkExcludesRewrites, SettledLog
<1>3. ASSUME NEW k \in Keys PROVE Replay(rows')[k] = Replay(rows)[k]
  <2>1. CASE rows' = rows
    BY <2>1
  <2>2. ASSUME NEW g \in InOrder(ChildWrites(rows)),
               rows' = Extend(rows, nextSeq, [j \in 1..Len(g) |-> rows[g[j]]])
        PROVE  Replay(rows')[k] = Replay(rows)[k]
    <3>1. PICK f, n : f = rows /\ n = nextSeq
      OBVIOUS
    <3>2. Replay(Extend(f, n, [j \in 1..Len(g) |-> f[g[j]]]))[k] = Replay(f)[k]
      BY <1>2, <3>1, ChildReplay
    <3>3. QED
      BY <2>2, <3>1, <3>2
  <2>3. QED
    BY <2>1, <2>2 DEF ReplayChildren
<1>4. QED
  BY <1>1, <1>2, <1>3 DEF SceneIsReplay

LEMMA SceneStep ==
  ASSUME IInv, SceneIsStaged, SceneIsReplay, RewriteKeepsScene, [Next]_vars
  PROVE  SceneIsReplay'
<1>1. CASE Crash
  <2>1. scene' = Replay(rows) /\ rows' = rows /\ ~InDoubt'
    BY <1>1 DEF Crash, durable, InDoubt
  <2>2. QED
    BY <2>1 DEF SceneIsReplay
<1>2. ASSUME NEW m \in Maintainers, FinishRewrite(m) PROVE SceneIsReplay'
  <2>1. /\ mpc[m] = "stored" /\ rows' = rows /\ wpc' = wpc
        /\ scene' = IF cap[m] # None THEN scene
                    ELSE [k \in Keys |-> IF k \in SessionKeys THEN scene[k] ELSE None]
    BY <1>2 DEF FinishRewrite, ClearScene, Leave, worker, durable
  <2>2. wpc \in {"idle", "stopped"}
    BY <2>1, NoReaders DEF IInv, IndInv, OneWriter
  <2>3. ~InDoubt'
    BY <2>1, <2>2 DEF InDoubt
  <2>4. CASE cap[m] # None
    BY <2>1, <2>3, <2>4 DEF RewriteKeepsScene, SceneIsReplay, Agrees
  <2>5. CASE cap[m] = None
    <3>1. rows = EmptyRows
      BY <2>1, <2>5 DEF RewriteKeepsScene
    <3>2. LastWrites(EmptyRows) = {}
      BY DEF LastWrites, EmptyRows
    <3>3. \A k \in Keys : Replay(EmptyRows)[k] = None
      BY <3>2, ReplayNone
    <3>4. QED
      BY <2>1, <2>3, <2>5, <3>1, <3>3 DEF SceneIsReplay
  <2>6. QED
    BY <2>4, <2>5
<1>3. ASSUME Next, ~Crash, \A m \in Maintainers : ~FinishRewrite(m)
      PROVE  SceneIsReplay'
  <2>1. ~Replacing' => ~Replacing
    BY <1>3, ReplacingEnds
  <2>2. CASE Persist \/ ReplayChildren
    BY <2>2, PersistScene, ChildrenScene
  <2>3. CASE CommitInline \/ GatherDone
    <3>1. rows' = rows /\ scene' = scene /\ undoScene' = scene' /\ wpc \in {"idle", "gather"}
      BY <2>3, UnitBegins DEF CommitInline, GatherDone, durable, journal
    <3>2. QED
      BY <2>1, <3>1, SameScene DEF InDoubt
  <2>4. CASE StageFails \/ PersistFails
    <3>1. rows' = rows /\ scene' = undoScene /\ undoScene' = scene' /\ wpc \in {"stage", "persist"}
      BY <2>4, UnitBegins DEF StageFails, PersistFails, RollBack, RestoreScene
    <3>2. QED
      BY <2>1, <3>1, SameScene DEF InDoubt
  <2>5. CASE StageRequest
    <3>1. /\ wpc = "stage" /\ InDoubt /\ rows' = rows /\ undoScene' = undoScene
          /\ AfterCheck(staged')
      BY <2>5 DEF StageRequest, InDoubt, durable
    <3>2. CASE InDoubt'
      BY <2>1, <3>1, <3>2, SameScene
    <3>3. CASE ~InDoubt'
      <4>1. staged' = <<>>
        BY <3>1, <3>3 DEF AfterCheck, InDoubt
      <4>2. staged \in Seq(Txns)
        BY DEF IInv, TypeOK, UnitType
      <4>3. UNCHANGED <<staged, scene>>
        BY <2>5, <4>1, <4>2 DEF StageRequest
      <4>4. \A k \in Keys : scene[k] = undoScene[k]
        BY <3>1, <4>1, <4>3 DEF SceneIsStaged
      <4>5. scene = undoScene
        BY <4>4 DEF IInv, TypeOK, JournalType, UnitType
      <4>6. QED
        BY <2>1, <3>1, <3>3, <4>3, <4>5, SameScene
    <3>4. QED
      BY <3>2, <3>3
  <2>6. CASE Publish \/ PublishLoad
    <3>1. rows' = rows /\ scene' = scene /\ wpc \in {"publish", "load"}
          /\ (undoScene' = scene' \/ wpc' \in {"load", "children"})
      BY <2>6, UnitBegins DEF Publish, PublishLoad, durable, journal
    <3>2. QED
      BY <2>1, <3>1, SameScene DEF InDoubt
  <2>7. CASE GatherFirst \/ GatherMore \/ Checkpoint
    <3>1. rows' = rows /\ scene' = scene /\ ~InDoubt /\ ~InDoubt'
      BY <2>7 DEF GatherFirst, GatherMore, Checkpoint, durable, journal, InDoubt
    <3>2. QED
      BY <2>1, <3>1, SameScene
  <2>8. CASE Complete
    <3>1. rows' = rows /\ scene' = scene /\ ~InDoubt /\ ~InDoubt'
      BY <2>8 DEF Complete, AfterBatch, durable, journal, InDoubt
    <3>2. QED
      BY <2>1, <3>1, SameScene
  <2>9. CASE UNCHANGED <<rows, wpc, scene, undoScene>>
    BY <2>1, <2>9, SameScene DEF InDoubt
  <2>10. CASE Enqueue
    BY <2>9, <2>10 DEF Enqueue, worker, unit, journal, durable
  <2>11. ASSUME NEW t \in Txns, Admit(t) PROVE UNCHANGED <<rows, wpc, scene, undoScene>>
    BY <2>11 DEF Admit, worker, unit, journal, durable
  <2>12. ASSUME NEW m \in Maintainers, CaptureHistory(m) \/ StartPurge(m) \/ Rewrite(m)
         PROVE  SceneIsReplay'
    <3>1. CASE RewriteStore(m)
      <4>1. mpc[m] = "window" /\ mpc' = [mpc EXCEPT ![m] = "stored"]
        BY <3>1 DEF RewriteStore
      <4>2. mpc'[m] = "stored"
        BY <4>1 DEF IInv, TypeOK, MaintenanceType
      <4>3. QED
        BY <4>2 DEF SceneIsReplay, Replacing
    <3>2. CASE ~RewriteStore(m)
      <4>1. UNCHANGED <<rows, wpc, scene, undoScene>>
        BY <1>3, <2>12, <3>2 DEF CaptureHistory, StartPurge, Rewrite, ClaimBarrier,
           EnterWindow, AbandonRewrite, Leave, worker, unit, journal, durable
      <4>2. QED
        BY <2>9, <4>1
    <3>3. QED
      BY <3>1, <3>2
  <2>13. QED
    BY <1>3, <2>2, <2>3, <2>4, <2>5, <2>6, <2>7, <2>8, <2>9, <2>10, <2>11, <2>12
    DEF Next, Work, Shutdown, Stopped, vars, worker, unit, journal, durable
<1>4. CASE UNCHANGED vars
  <2>1. UNCHANGED <<rows, wpc, scene, undoScene, mpc>>
    BY <1>4 DEF vars, worker, unit, journal, durable, maintenance
  <2>2. QED
    BY <2>1, SameScene DEF InDoubt, Replacing
<1>5. QED
  BY <1>1, <1>2, <1>3, <1>4

-----------------------------------------------------------------------------
(* History rewrites.                                                       *)

\* Only these steps write rows.
LEMMA RowsWritten ==
  ASSUME [Next]_vars
  PROVE  \/ Persist \/ ReplayChildren \/ \E m \in Maintainers : RewriteStore(m)
         \/ UNCHANGED rows
<1>1. ASSUME NEW t \in Txns, Admit(t) PROVE UNCHANGED rows
  BY <1>1 DEF Admit, durable
<1>2. CASE Work
  BY <1>2 DEF Work, Enqueue, CommitInline, GatherFirst, GatherMore, GatherDone,
     StageRequest, StageFails, PersistFails, RollBack, Publish, PublishLoad,
     Checkpoint, Complete, durable
<1>3. ASSUME NEW m \in Maintainers, CaptureHistory(m) \/ StartPurge(m) \/ Rewrite(m)
      PROVE  RewriteStore(m) \/ UNCHANGED rows
  BY <1>3 DEF CaptureHistory, StartPurge, Rewrite, ClaimBarrier, EnterWindow,
     AbandonRewrite, FinishRewrite, durable
<1>4. QED
  BY <1>1, <1>2, <1>3 DEF Next, Shutdown, Crash, Stopped, vars, durable

\* A commit or a child replay only adds rows.
LEMMA RowsGrow ==
  ASSUME IInv, Persist \/ ReplayChildren
  PROVE  /\ ~Replacing
         /\ \A s \in DOMAIN rows : s \in DOMAIN rows' /\ rows'[s] = rows[s]
<1>1. batch # <<>>
  BY DEF Persist, ReplayChildren, IInv, IndInv, Phases
<1>2. ~Replacing
  BY <1>1, WorkExcludesRewrites
<1>3. \A first, new : \A s \in DOMAIN rows :
         s \in DOMAIN Extend(rows, first, new) /\ Extend(rows, first, new)[s] = rows[s]
  BY DEF Extend
<1>4. \/ rows' = rows \/ \E first, new : rows' = Extend(rows, first, new)
  <2>1. CASE Persist
    BY <2>1 DEF Persist
  <2>2. CASE ReplayChildren
    BY <2>2 DEF ReplayChildren
  <2>3. QED
    BY <2>1, <2>2
<1>5. QED
  BY <1>2, <1>3, <1>4

\* What a thread captured stays while others work.
LEMMA CaptureSteps ==
  ASSUME IInv, Next, ~Crash, NEW n \in Maintainers, cap'[n] # None
  PROVE  cap'[n] = cap[n] \/ CaptureHistory(n)
<1>1. DOMAIN cap = Maintainers
  BY DEF IInv, TypeOK, MaintenanceType
<1>2. ASSUME NEW t \in Txns, Admit(t) PROVE UNCHANGED cap
  BY <1>2 DEF Admit, maintenance
<1>3. CASE Work
  BY <1>3 DEF Work, Enqueue, CommitInline, GatherFirst, GatherMore, GatherDone,
     StageRequest, StageFails, Persist, PersistFails, RollBack, Publish, PublishLoad,
     ReplayChildren, Checkpoint, Complete, maintenance
<1>4. ASSUME NEW m \in Maintainers, CaptureHistory(m) PROVE cap'[n] = cap[n] \/ m = n
  BY <1>1, <1>4 DEF CaptureHistory
<1>5. ASSUME NEW m \in Maintainers, AbandonRewrite(m) \/ FinishRewrite(m)
      PROVE  cap'[n] = cap[n]
  BY <1>1, <1>5 DEF AbandonRewrite, FinishRewrite, Leave
<1>6. ASSUME NEW m \in Maintainers, CaptureHistory(m) \/ StartPurge(m) \/ Rewrite(m)
      PROVE  cap'[n] = cap[n] \/ CaptureHistory(n)
  BY <1>4, <1>5, <1>6 DEF StartPurge, Rewrite, ClaimBarrier, EnterWindow, RewriteStore
<1>7. QED
  BY <1>2, <1>3, <1>6 DEF Next, Shutdown, Stopped, vars, maintenance

\* Epochs only grow until a crash, and stay while the rows are replaced.
LEMMA EpochSteps ==
  ASSUME IInv, [Next]_vars, ~Crash
  PROVE  \/ \E m \in Maintainers : FinishRewrite(m) /\ epoch' = epoch + 1
         \/ UNCHANGED epoch /\ \A m \in Maintainers : ~FinishRewrite(m)
<1>1. ASSUME NEW t \in Txns, Admit(t) PROVE UNCHANGED epoch
  BY <1>1 DEF Admit, journal
<1>2. ASSUME Work PROVE UNCHANGED epoch
  BY <1>2 DEF Work, Enqueue, CommitInline, GatherFirst, GatherMore, GatherDone,
     StageRequest, StageFails, Persist, PersistFails, RollBack, Publish, PublishLoad,
     ReplayChildren, Checkpoint, Complete, journal
<1>3. ASSUME NEW m \in Maintainers, FinishRewrite(m) PROVE epoch' = epoch + 1
  BY <1>3 DEF FinishRewrite, NewEpoch
<1>4. ASSUME NEW m \in Maintainers, CaptureHistory(m) \/ StartPurge(m) \/ Rewrite(m)
      PROVE  FinishRewrite(m) \/ UNCHANGED epoch
  BY <1>4 DEF CaptureHistory, StartPurge, Rewrite, ClaimBarrier, EnterWindow,
     RewriteStore, AbandonRewrite, journal
<1>5. QED
  BY <1>1, <1>2, <1>3, <1>4 DEF Next, Shutdown, Stopped, vars, journal

LEMMA CapturesStep ==
  ASSUME IInv, CapturesArePrefixes, [Next]_vars
  PROVE  CapturesArePrefixes'
<1>1. CASE Crash
  BY <1>1 DEF Crash, CapturesArePrefixes
<1>2. CASE UNCHANGED vars
  <2>1. UNCHANGED <<cap, epoch, rows, mpc>>
    BY <1>2 DEF vars, maintenance, journal, durable
  <2>2. QED
    BY <2>1 DEF CapturesArePrefixes, Replacing
<1>3. ASSUME Next, ~Crash, NEW n \in Maintainers, cap'[n] # None
      PROVE  /\ cap'[n].epoch <= epoch'
             /\ DOMAIN cap'[n].rows = 1..Cardinality(DOMAIN cap'[n].rows)
             /\ cap'[n].epoch = epoch' /\ ~Replacing' =>
                   \A s \in DOMAIN cap'[n].rows :
                       s \in DOMAIN rows' /\ rows'[s] = cap'[n].rows[s]
  <2>1. epoch \in Nat
    BY DEF IInv, TypeOK, JournalType
  <2>2. CASE CaptureHistory(n)
    <3>1. /\ cap'[n] = [epoch |-> epoch, rows |-> rows]
          /\ rows' = rows /\ epoch' = epoch
      BY <2>2 DEF CaptureHistory, durable, journal, IInv, TypeOK, MaintenanceType
    <3>2. DOMAIN rows = 1..Cardinality(DOMAIN rows)
      BY DEF IInv, IndInv, Numbered
    <3>3. cap'[n].epoch = epoch /\ cap'[n].rows = rows
      BY <3>1
    <3>4. QED
      BY <2>1, <3>1, <3>2, <3>3
  <2>3. CASE cap'[n] = cap[n]
    <3>1. /\ cap[n].epoch <= epoch /\ cap[n].epoch \in Nat
          /\ DOMAIN cap[n].rows = 1..Cardinality(DOMAIN cap[n].rows)
      BY <1>3, <2>3 DEF CapturesArePrefixes, IInv, TypeOK, MaintenanceType
    <3>2. CASE \E m \in Maintainers : FinishRewrite(m) /\ epoch' = epoch + 1
      BY <2>1, <2>3, <3>1, <3>2
    <3>3. CASE UNCHANGED epoch /\ \A m \in Maintainers : ~FinishRewrite(m)
      <4>1. ~Replacing' => ~Replacing
        BY <1>3, <3>3, ReplacingEnds
      <4>2. SUFFICES ASSUME cap[n].epoch = epoch, ~Replacing', NEW s \in DOMAIN cap[n].rows
                     PROVE  s \in DOMAIN rows' /\ rows'[s] = cap[n].rows[s]
        BY <2>3, <3>1, <3>3
      <4>3. s \in DOMAIN rows /\ rows[s] = cap[n].rows[s]
        BY <1>3, <2>3, <4>1, <4>2 DEF CapturesArePrefixes
      <4>4. \A m \in Maintainers : ~RewriteStore(m)
        <5>1. ASSUME NEW m \in Maintainers, RewriteStore(m) PROVE mpc'[m] = "stored"
          BY <5>1 DEF RewriteStore, IInv, TypeOK, MaintenanceType
        <5>2. QED
          BY <4>2, <5>1 DEF Replacing
      <4>5. QED
        BY <4>3, <4>4, RowsWritten, RowsGrow
    <3>4. QED
      BY <1>3, <3>2, <3>3, EpochSteps
  <2>4. QED
    BY <1>3, <2>2, <2>3, CaptureSteps
<1>4. QED
  BY <1>1, <1>2, <1>3 DEF CapturesArePrefixes

\* While the rows are replaced the commit thread has nothing to work on.
LEMMA ReplacingIsQuiet ==
  ASSUME IInv, Replacing
  PROVE  admitting = None /\ batch = <<>> /\ wpc \in {"idle", "stopped"}
<1>1. readers = 0
  BY DEF Replacing, IInv, IndInv, OneWriter
<1>2. QED
  BY <1>1, NoReaders

LEMMA RewriteSceneStep ==
  ASSUME IInv, SceneIsReplay, CapturesArePrefixes, RewriteKeepsScene, [Next]_vars
  PROVE  RewriteKeepsScene'
<1> SUFFICES ASSUME NEW n \in Maintainers, mpc'[n] = "stored"
             PROVE  IF cap'[n] = None THEN rows' = EmptyRows
                    ELSE \A k \in Keys : \/ scene'[k] = Replay(rows')[k]
                                         \/ k \in SessionKeys /\ Replay(rows')[k] = None
  BY DEF RewriteKeepsScene, Agrees
<1>1. mpc \in [Maintainers -> {"idle", "ready", "claimed", "window", "stored"}]
      /\ DOMAIN cap = Maintainers
  BY DEF IInv, TypeOK, MaintenanceType
<1>2. CASE RewriteStore(n)
  <2>1. /\ mpc[n] = "window" /\ scene' = scene /\ cap' = cap
        /\ cap[n] # None => CaptureIsCurrent(n)
    BY <1>2 DEF RewriteStore, journal
  <2>2. readers = 0 /\ ~Replacing
    BY <2>1 DEF IInv, IndInv, OneWriter, Holding, Replacing
  <2>3. ~InDoubt
    BY <2>2, NoReaders DEF InDoubt
  <2>4. CASE cap[n] = None
    BY <1>2, <2>1, <2>4 DEF RewriteStore
  <2>5. CASE cap[n] # None
    <3>1. Merged(n) = rows
      BY <2>1, <2>2, <2>5, MergedIsLog
    <3>2. PICK g \in InOrder(LastWrites(rows)) : rows' = [i \in DOMAIN g |-> rows[g[i]]]
      BY <1>2, <2>5, <3>1 DEF RewriteStore
    <3>3. ASSUME NEW k \in Keys PROVE Replay(rows')[k] = Replay(rows)[k]
      <4>1. PICK f : f = rows
        OBVIOUS
      <4>2. IsTable(f)
        BY <4>1 DEF IInv, TypeOK, DurableType
      <4>3. Replay([i \in DOMAIN g |-> f[g[i]]])[k] = Replay(f)[k]
        BY <4>1, <4>2, CompactionReplay
      <4>4. QED
        BY <3>2, <4>1, <4>3
    <3>4. \A k \in Keys : \/ scene[k] = Replay(rows)[k]
                          \/ k \in SessionKeys /\ Replay(rows)[k] = None
      BY <2>2, <2>3 DEF SceneIsReplay
    <3>5. QED
      BY <2>1, <2>5, <3>3, <3>4
  <2>6. QED
    BY <2>4, <2>5
<1>3. CASE ~RewriteStore(n) /\ mpc[n] = "stored" /\ UNCHANGED <<rows, scene>> /\ cap'[n] = cap[n]
  BY <1>3 DEF RewriteKeepsScene, Agrees
<1>4. ASSUME mpc[n] = "stored" PROVE Replacing
  BY <1>4 DEF Replacing
<1>5. CASE UNCHANGED vars
  BY <1>3, <1>5 DEF vars, durable, journal, maintenance, RewriteStore
<1>6. CASE Crash
  BY <1>6 DEF Crash
<1>7. CASE Work
  <2>1. mpc[n] = "stored" /\ UNCHANGED cap
    BY <1>7 DEF Work, Enqueue, CommitInline, GatherFirst, GatherMore, GatherDone,
       StageRequest, StageFails, Persist, PersistFails, RollBack, Publish, PublishLoad,
       ReplayChildren, Checkpoint, Complete, maintenance
  <2>2. GatherFirst
    BY <1>4, <1>7, <2>1, ReplacingIsQuiet DEF Work, Enqueue, CommitInline, GatherMore,
       GatherDone, StageRequest, StageFails, Persist, PersistFails, Publish,
       PublishLoad, ReplayChildren, Checkpoint, Complete
  <2>3. QED
    BY <1>2, <1>3, <2>1, <2>2 DEF GatherFirst, durable, journal
<1>8. ASSUME NEW t \in Txns, Admit(t) PROVE UNCHANGED <<rows, scene, mpc, cap>>
  BY <1>8 DEF Admit, durable, journal, maintenance
<1>9. ASSUME NEW m \in Maintainers, CaptureHistory(m) \/ StartPurge(m) \/ Rewrite(m)
      PROVE  RewriteStore(n) \/ (mpc[n] = "stored" /\ UNCHANGED <<rows, scene>> /\ cap'[n] = cap[n])
  <2>1. CASE FinishRewrite(m)
    <3>1. mpc[m] = "stored" /\ mpc' = [mpc EXCEPT ![m] = "idle"]
      BY <2>1 DEF FinishRewrite, Leave
    <3>2. n # m /\ mpc[n] = "stored"
      BY <1>1, <3>1
    <3>3. QED
      BY <3>1, <3>2 DEF IInv, IndInv, OneWriter, Holding
  <2>2. CASE RewriteStore(m)
    <3>1. mpc[m] = "window" /\ mpc' = [mpc EXCEPT ![m] = "stored"]
      BY <2>2 DEF RewriteStore
    <3>2. n # m => mpc[n] = "stored"
      BY <1>1, <3>1
    <3>3. n = m
      BY <3>1, <3>2 DEF IInv, IndInv, OneWriter, Holding
    <3>4. QED
      BY <2>2, <3>3
  <2>3. CASE CaptureHistory(m)
    BY <1>1, <2>3 DEF CaptureHistory, durable, journal
  <2>4. CASE StartPurge(m) \/ ClaimBarrier(m) \/ EnterWindow(m)
    BY <1>1, <2>4 DEF StartPurge, ClaimBarrier, EnterWindow, durable, journal
  <2>5. CASE AbandonRewrite(m)
    BY <1>1, <2>5 DEF AbandonRewrite, Leave, durable, journal
  <2>6. QED
    BY <1>9, <2>1, <2>2, <2>3, <2>4, <2>5 DEF Rewrite
<1>10. CASE Next
  BY <1>2, <1>3, <1>6, <1>7, <1>8, <1>9, <1>10
  DEF Next, Shutdown, Stopped, vars, durable, journal, maintenance
<1>11. QED
  BY <1>5, <1>10

-----------------------------------------------------------------------------
(* Checkpoints.                                                            *)

\* A step that decides nothing, after the unit's outcome is settled.
LEMMA SettledStep ==
  ASSUME CommitsAreLogged, ~InDoubt, wpc' # "persist", UNCHANGED <<outcome, batch>>,
         \A s \in DOMAIN rows : s \in DOMAIN rows' /\ rows'[s] = rows[s]
  PROVE  CommitsAreLogged'
<1>1. ASSUME NEW i \in DOMAIN outcome, Commits(i) PROVE Logged(batch[i])'
  <2>1. Logged(batch[i])
    BY <1>1 DEF CommitsAreLogged
  <2>2. \E s \in DOMAIN rows' : rows'[s] = batch[i]
    BY <2>1 DEF Logged
  <2>3. QED
    BY <2>2 DEF Logged
<1>2. \A i \in DOMAIN outcome' : Commits(i)' => Commits(i) /\ i \in DOMAIN outcome
  BY DEF Commits
<1>3. QED
  BY <1>1, <1>2 DEF CommitsAreLogged

\* The check of one request.
LEMMA StageLogged ==
  ASSUME IInv, CommitsAreLogged, StageRequest
  PROVE  CommitsAreLogged'
<1> DEFINE n == Len(outcome) + 1
           t == batch[n]
           result == Check(t, nextBy[t.p])
<1>1. /\ wpc = "stage" /\ InDoubt /\ rows' = rows /\ batch' = batch /\ mode' = mode
      /\ outcome' = Append(outcome, result) /\ AfterCheck(staged')
      /\ IF result.status = "committed" THEN staged' = Append(staged, t)
         ELSE staged' = staged
  BY DEF StageRequest, durable, InDoubt
<1>2. /\ t \in Txns /\ staged \in Seq(Txns) /\ outcome \in Seq(Outcomes)
      /\ nextBy[t.p] \in Nat
  BY <1>1, CurrentRequest, TxnFields DEF IInv, TypeOK, UnitType
<1>3. result \in Outcomes
  BY <1>2, CheckFacts
<1> HIDE DEF t, result
<1>4. /\ DOMAIN outcome' = 1..n /\ Len(outcome) \in Nat /\ outcome'[n] = result
      /\ Len(outcome') = n /\ DOMAIN outcome = 1..Len(outcome)
      /\ \A i \in 1..Len(outcome) : outcome'[i] = outcome[i]
  BY <1>1, <1>2, <1>3
<1>5. \A j \in DOMAIN staged : j \in DOMAIN staged' /\ staged'[j] = staged[j]
  BY <1>1, <1>2
<1>6. result.status = "committed" => \E j \in DOMAIN staged' : staged'[j] = t
  <2>1. SUFFICES ASSUME result.status = "committed"
                 PROVE  \E j \in DOMAIN staged' : staged'[j] = t
    OBVIOUS
  <2>2. Len(staged) + 1 \in DOMAIN staged' /\ staged'[Len(staged) + 1] = t
    BY <1>1, <1>2, <2>1
  <2>3. QED
    BY <2>2
<1> DEFINE Kept(i) == Logged(batch[i]) \/ \E j \in DOMAIN staged : staged[j] = batch[i]
<1>7. \A i \in DOMAIN outcome : outcome[i].status = "committed" => Kept(i)
  BY <1>1 DEF CommitsAreLogged, Commits
<1>8. mode = "single" => staged = <<>>
  BY <1>1 DEF IInv, IndInv, Phases
<1>9. \A i \in 1..n : i \in DOMAIN outcome \/ i = n
  BY <1>4
<1>10. ASSUME InDoubt', NEW i \in DOMAIN outcome', Commits(i)'
       PROVE  Logged(batch[i])' \/ \E j \in DOMAIN staged' : staged'[j] = batch'[i]
  <2>1. CASE i = n
    <3>1. result.status = "committed" /\ batch'[i] = t
      BY <1>1, <1>4, <1>10, <2>1 DEF Commits, t
    <3>2. QED
      BY <1>6, <3>1
  <2>2. CASE i \in DOMAIN outcome
    <3>1. outcome[i].status = "committed"
      BY <1>4, <1>10, <2>2 DEF Commits
    <3>2. Kept(i)
      BY <1>7, <2>2, <3>1
    <3>3. QED
      BY <1>1, <1>5, <3>2 DEF Logged
  <2>3. QED
    BY <1>4, <1>9, <1>10, <2>1, <2>2
<1>11. ASSUME mode = "single" \/ staged' = <<>>, NEW i \in DOMAIN outcome,
              outcome[i].status = "committed"
       PROVE  Logged(batch[i])'
  <2>1. staged = <<>>
    BY <1>1, <1>2, <1>8, <1>11
  <2>2. Logged(batch[i])
    BY <1>7, <1>11, <2>1
  <2>3. QED
    BY <1>1, <2>2 DEF Logged
<1>12. ASSUME wpc' = "persist", mode' = "single", NEW i \in DOMAIN outcome', Commits(i)',
              i < Len(outcome')
       PROVE  Logged(batch[i])'
  <2>1. i \in DOMAIN outcome /\ outcome[i].status = "committed"
    BY <1>4, <1>12 DEF Commits
  <2>2. QED
    BY <1>1, <1>11, <1>12, <2>1
<1>13. ASSUME ~InDoubt', NEW i \in DOMAIN outcome', Commits(i)'
       PROVE  Logged(batch[i])'
  <2>1. staged' = <<>>
    BY <1>1, <1>13 DEF AfterCheck, InDoubt
  <2>2. result.status # "committed"
    BY <1>1, <1>2, <2>1
  <2>3. i \in DOMAIN outcome /\ outcome[i].status = "committed"
    BY <1>4, <1>9, <1>13, <2>2 DEF Commits
  <2>4. QED
    BY <1>11, <2>1, <2>3
<1>14. QED
  BY <1>10, <1>12, <1>13 DEF CommitsAreLogged

\* A unit that is rolled back keeps the outcomes of the units before it.
LEMMA RollBackLogged ==
  ASSUME IInv, NEW decided \in Seq(Outcomes), RollBack(decided),
         mode = "single" => \A i \in DOMAIN decided :
                               decided[i].status = "committed" => Logged(batch[i])
  PROVE  CommitsAreLogged'
<1>1. /\ outcome' = Retried(decided) /\ rows' = rows /\ batch' = batch
      /\ wpc' \in {"stage", "checkpoint"}
  BY DEF RollBack
<1>2. CASE mode = "group"
  BY <1>1, <1>2 DEF Retried, CommitsAreLogged
<1>3. CASE mode # "group"
  <2>1. outcome' = Append(decided, Failed) /\ mode = "single" /\ Failed.status = "error"
    BY <1>1, <1>3 DEF Retried, Failed, IInv, TypeOK, UnitType
  <2>2. \A i \in DOMAIN outcome' :
          outcome'[i].status = "committed" => i \in DOMAIN decided /\ outcome'[i] = decided[i]
    BY <2>1
  <2>3. ASSUME NEW i \in DOMAIN outcome', Commits(i)' PROVE Logged(batch[i])'
    <3>1. Logged(batch[i])
      BY <2>1, <2>2, <2>3 DEF Commits
    <3>2. QED
      BY <1>1, <3>1 DEF Logged
  <2>4. QED
    BY <1>1, <2>3 DEF CommitsAreLogged
<1>4. QED
  BY <1>2, <1>3

LEMMA LoggedStep ==
  ASSUME IInv, CommitsAreLogged, [Next]_vars
  PROVE  CommitsAreLogged'
<1>1. outcome \in Seq(Outcomes) /\ batch \in Seq(Txns) /\ staged \in Seq(Txns)
  BY DEF IInv, TypeOK, UnitType, WorkerType
<1>2. CASE outcome' = <<>>
  BY <1>2 DEF CommitsAreLogged
<1>3. CASE StageRequest
  BY <1>3, StageLogged
<1>4. CASE StageFails
  <2>1. wpc = "stage" /\ InDoubt /\ RollBack(outcome)
    BY <1>4 DEF StageFails, InDoubt
  <2>2. mode = "single" => staged = <<>>
    BY <2>1 DEF IInv, IndInv, Phases
  <2>3. mode = "single" => \A i \in DOMAIN outcome :
           outcome[i].status = "committed" => Logged(batch[i])
    BY <2>1, <2>2 DEF CommitsAreLogged, Commits
  <2>4. QED
    BY <1>1, <2>1, <2>3, RollBackLogged
<1>5. CASE PersistFails
  <2>1. PICK decided : decided = SubSeq(outcome, 1, Len(outcome) - 1)
    OBVIOUS
  <2>2. wpc = "persist" /\ RollBack(decided)
    BY <1>5, <2>1 DEF PersistFails
  <2>3. Len(outcome) \in Nat /\ Len(outcome) >= 1
    BY <1>1, <2>2 DEF IInv, IndInv, Phases
  <2>4. /\ decided \in Seq(Outcomes) /\ DOMAIN decided = 1..Len(outcome) - 1
        /\ \A i \in 1..Len(outcome) - 1 : decided[i] = outcome[i]
    BY <1>1, <2>1, <2>3
  <2>5. \A i \in DOMAIN decided : i \in DOMAIN outcome /\ i < Len(outcome)
    BY <1>1, <2>3, <2>4
  <2>6. mode = "single" => \A i \in DOMAIN decided :
           decided[i].status = "committed" => Logged(batch[i])
    BY <2>2, <2>4, <2>5 DEF CommitsAreLogged, Commits
  <2>7. QED
    BY <2>2, <2>4, <2>6, RollBackLogged
<1>6. CASE Complete
  <2>1. /\ outcome' = Tail(outcome) /\ batch' = Tail(batch) /\ rows' = rows
        /\ ~InDoubt /\ ~InDoubt' /\ wpc' # "persist"
    BY <1>6 DEF Complete, AfterBatch, durable, InDoubt
  <2>2. Len(outcome) = Len(batch) /\ batch # <<>> /\ wpc = "complete"
    BY <1>6 DEF Complete, IInv, IndInv, Phases
  <2>3. Len(outcome) \in Nat /\ Len(outcome) >= 1 /\ outcome # <<>>
    BY <1>1, <2>2
  <2>4. ASSUME NEW i \in DOMAIN outcome', Commits(i)' PROVE Logged(batch[i])'
    <3>1. i \in 1..Len(outcome) - 1 /\ outcome'[i] = outcome[i + 1]
          /\ batch'[i] = batch[i + 1]
      BY <1>1, <2>1, <2>2, <2>3
    <3>2. i + 1 \in DOMAIN outcome /\ Commits(i + 1)
      BY <1>1, <2>3, <2>4, <3>1 DEF Commits
    <3>3. Logged(batch[i + 1])
      BY <2>1, <3>2 DEF CommitsAreLogged
    <3>4. QED
      BY <2>1, <3>1, <3>3 DEF Logged
  <2>5. QED
    BY <2>1, <2>4 DEF CommitsAreLogged
<1>7. CASE Persist
  <2>1. /\ wpc = "persist" /\ InDoubt /\ ~InDoubt' /\ wpc' = "publish"
        /\ rows' = Extend(rows, undoSeq, staged) /\ UNCHANGED <<outcome, batch>>
    BY <1>7 DEF Persist, InDoubt, unit
  <2>2. batch # <<>> /\ ~Replacing /\ DOMAIN rows = 1..undoSeq - 1 /\ undoSeq \in Nat \ {0}
    BY <2>1, WorkExcludesRewrites
    DEF IInv, IndInv, Phases, Numbered, LogHasNoHoles, TypeOK, UnitType
  <2>3. \A j \in 1..Len(staged) : \E s \in DOMAIN rows' : rows'[s] = staged[j]
    <3>1. SUFFICES ASSUME NEW j \in 1..Len(staged)
                   PROVE  \E s \in DOMAIN rows' : rows'[s] = staged[j]
      OBVIOUS
    <3>2. PICK f, first, new : f = rows /\ first = undoSeq /\ new = staged
      OBVIOUS
    <3>3. first \in Nat \ {0} /\ new \in Seq(Txns) /\ DOMAIN f = 1..first - 1
          /\ j \in DOMAIN new
      BY <1>1, <2>2, <3>2
    <3>4. \E s \in DOMAIN Extend(f, first, new) : Extend(f, first, new)[s] = new[j]
      BY <3>3, ExtendHolds
    <3>5. QED
      BY <2>1, <3>2, <3>4
  <2>4. \A s \in DOMAIN rows : s \in DOMAIN rows' /\ rows'[s] = rows[s]
    BY <1>7, RowsGrow
  <2>5. ASSUME NEW i \in DOMAIN outcome', Commits(i)' PROVE Logged(batch[i])'
    <3>1. i \in DOMAIN outcome /\ Commits(i)
      BY <2>1, <2>5 DEF Commits
    <3>2. Logged(batch[i]) \/ \E j \in DOMAIN staged : staged[j] = batch[i]
      BY <2>1, <3>1 DEF CommitsAreLogged
    <3>3. \E s \in DOMAIN rows' : rows'[s] = batch[i]
      BY <1>1, <2>3, <2>4, <3>2 DEF Logged
    <3>4. QED
      BY <2>1, <3>3 DEF Logged
  <2>6. QED
    BY <2>1, <2>5 DEF CommitsAreLogged
<1>8. CASE (Publish \/ PublishLoad \/ ReplayChildren) /\ UNCHANGED <<outcome, batch>>
  <2>1. ~InDoubt /\ wpc' # "persist"
    BY <1>8 DEF Publish, PublishLoad, ReplayChildren, EndUnit, InDoubt
  <2>2. \A s \in DOMAIN rows : s \in DOMAIN rows' /\ rows'[s] = rows[s]
    BY <1>8, RowsGrow DEF Publish, PublishLoad, durable
  <2>3. QED
    BY <1>8, <2>1, <2>2, SettledStep
<1>9. CASE UNCHANGED <<outcome, batch, rows, wpc, mode, staged>>
  BY <1>9 DEF CommitsAreLogged, Commits, Logged, InDoubt
<1>10. CASE Checkpoint
  <2>1. ~InDoubt /\ wpc' # "persist" /\ UNCHANGED <<outcome, batch>> /\ rows' = rows
    BY <1>10 DEF Checkpoint, InDoubt, unit, durable
  <2>2. QED
    BY <2>1, SettledStep
<1>11. CASE Enqueue
  BY <1>9, <1>11 DEF Enqueue, worker, unit, durable
<1>12. CASE GatherFirst \/ GatherMore \/ GatherDone \/ CommitInline
  BY <1>2, <1>12 DEF GatherFirst, GatherMore, GatherDone, CommitInline, unit, IInv,
     IndInv, Phases
<1>13. ASSUME NEW m \in Maintainers, CaptureHistory(m) \/ StartPurge(m) \/ Rewrite(m)
       PROVE  outcome' = <<>> \/ UNCHANGED <<outcome, batch, rows, wpc, mode, staged>>
  <2>1. CASE RewriteStore(m)
    <3>1. readers = 0 /\ UNCHANGED worker
      BY <2>1 DEF RewriteStore, IInv, IndInv, OneWriter
    <3>2. wpc \in {"idle", "stopped"}
      BY <3>1, NoReaders
    <3>3. QED
      BY <3>1, <3>2 DEF worker, unit, IInv, IndInv, Phases
  <2>2. QED
    BY <1>13, <2>1 DEF CaptureHistory, StartPurge, Rewrite, ClaimBarrier, EnterWindow,
       AbandonRewrite, FinishRewrite, Leave, worker, unit, durable
<1>14. ASSUME NEW t \in Txns, Admit(t)
       PROVE  UNCHANGED <<outcome, batch, rows, wpc, mode, staged>>
  BY <1>14 DEF Admit, worker, unit, durable
<1>15. CASE Crash
  BY <1>2, <1>15 DEF Crash
<1>16. Publish \/ PublishLoad \/ ReplayChildren => UNCHANGED <<outcome, batch>>
  BY DEF Publish, PublishLoad, ReplayChildren, EndUnit, unit
<1>17. QED
  BY <1>2, <1>3, <1>4, <1>5, <1>6, <1>7, <1>8, <1>9, <1>10, <1>11, <1>12, <1>13,
     <1>14, <1>15, <1>16
  DEF Next, Work, Shutdown, Stopped, vars, worker, unit, durable

LEMMA HeadStep ==
  ASSUME IInv, CheckpointIsHead, [Next]_vars
  PROVE  CheckpointIsHead'
<1>1. CASE wpc' # "complete" \/ cpt' = None
  BY <1>1 DEF CheckpointIsHead
<1>2. CASE Checkpoint
  <2>1. wpc = "checkpoint" /\ UNCHANGED <<epoch, nextSeq>>
    BY <1>2 DEF Checkpoint, journal
  <2>2. DOMAIN rows = 1..nextSeq - 1 /\ nextSeq \in Nat \ {0}
    BY <2>1, SettledLog
  <2>3. MaxSeq(rows) = nextSeq - 1
    BY <2>2, MaxSeqType
  <2>4. cpt' = None \/ cpt' = [epoch |-> epoch, head |-> MaxSeq(rows)]
    BY <1>2 DEF Checkpoint
  <2>5. QED
    BY <2>1, <2>3, <2>4 DEF CheckpointIsHead
<1>3. CASE UNCHANGED <<wpc, cpt, epoch, nextSeq>>
  BY <1>3 DEF CheckpointIsHead
<1>4. CASE Complete
  <2>1. CASE Len(batch) > 1
    BY <1>3, <1>4, <2>1 DEF Complete, journal
  <2>2. CASE ~(Len(batch) > 1)
    BY <1>1, <1>4, <2>2 DEF Complete
  <2>3. QED
    BY <2>1, <2>2
<1>5. CASE StageRequest
  BY <1>1, <1>5 DEF StageRequest, AfterCheck
<1>6. CASE Work
  BY <1>1, <1>2, <1>3, <1>4, <1>5, <1>6 DEF Work, Enqueue, CommitInline, GatherFirst,
     GatherMore, GatherDone, StageFails, Persist, PersistFails, RollBack, Publish,
     PublishLoad, ReplayChildren, EndUnit, worker, journal
<1>7. ASSUME NEW m \in Maintainers, CaptureHistory(m) \/ StartPurge(m) \/ Rewrite(m)
      PROVE  wpc' # "complete" \/ UNCHANGED <<wpc, cpt, epoch, nextSeq>>
  <2>1. CASE FinishRewrite(m)
    <3>1. readers = 0 /\ wpc' = wpc
      BY <2>1 DEF FinishRewrite, Leave, worker, IInv, IndInv, OneWriter
    <3>2. QED
      BY <3>1, NoReaders
  <2>2. QED
    BY <1>7, <2>1 DEF CaptureHistory, StartPurge, Rewrite, ClaimBarrier, EnterWindow,
       RewriteStore, AbandonRewrite, Leave, worker, journal
<1>8. ASSUME NEW t \in Txns, Admit(t) PROVE UNCHANGED <<wpc, cpt, epoch, nextSeq>>
  BY <1>8 DEF Admit, worker, journal
<1>9. CASE Crash
  BY <1>1, <1>9 DEF Crash
<1>10. QED
  BY <1>1, <1>3, <1>6, <1>7, <1>8, <1>9
  DEF Next, Shutdown, Stopped, vars, worker, journal

\* Only a completion grants a checkpoint, and only a crash changes the process.
LEMMA GrantSteps ==
  ASSUME IInv, [Next]_vars
  PROVE  /\ Complete \/ UNCHANGED granted
         /\ (Crash /\ instance' = instance + 1) \/ UNCHANGED instance
<1>1. ASSUME NEW t \in Txns, Admit(t) PROVE UNCHANGED <<granted, instance>>
  BY <1>1 DEF Admit, told, journal
<1>2. ASSUME Work PROVE (Complete \/ UNCHANGED granted) /\ UNCHANGED instance
  BY <1>2 DEF Work, Enqueue, CommitInline, GatherFirst, GatherMore, GatherDone,
     StageRequest, StageFails, Persist, PersistFails, RollBack, Publish, PublishLoad,
     ReplayChildren, Checkpoint, Complete, told, journal
<1>3. ASSUME NEW m \in Maintainers, CaptureHistory(m) \/ StartPurge(m) \/ Rewrite(m)
      PROVE  UNCHANGED <<granted, instance>>
  BY <1>3 DEF CaptureHistory, StartPurge, Rewrite, ClaimBarrier, EnterWindow,
     RewriteStore, AbandonRewrite, FinishRewrite, told, journal
<1>4. CASE Crash
  BY <1>4 DEF Crash
<1>5. QED
  BY <1>1, <1>2, <1>3, <1>4 DEF Next, Shutdown, Stopped, vars, told, journal

\* What a completion tells a producer.
LEMMA CompleteGrants ==
  ASSUME IInv, CommitsAreLogged, CheckpointIsHead, Complete, NEW p \in Producers
  PROVE  /\ UNCHANGED <<rows, epoch, instance, mpc>>
         /\ \/ granted'[p] = granted[p]
            \/ /\ granted'[p].instance = instance /\ granted'[p].epoch = epoch
               /\ \E s \in DOMAIN rows : /\ s <= granted'[p].head
                                         /\ rows[s] = [p |-> p, id |-> granted'[p].id]
<1>1. wpc = "complete" /\ batch # <<>> /\ ~InDoubt /\ Len(outcome) = Len(batch)
  BY DEF Complete, IInv, IndInv, Phases, InDoubt
<1>2. batch \in Seq(Txns) /\ outcome \in Seq(Outcomes) /\ DOMAIN granted = Producers
  BY DEF IInv, TypeOK, WorkerType, UnitType, ToldType
<1>3. Head(batch) = batch[1] /\ Head(outcome) = outcome[1] /\ 1 \in DOMAIN outcome
      /\ batch[1] \in Txns
  BY <1>1, <1>2
<1>4. UNCHANGED <<rows, epoch, instance, mpc>>
  BY DEF Complete, durable, journal, maintenance
<1>5. PICK t : t = batch[1]
  OBVIOUS
<1>6. CASE outcome[1].status = "committed" /\ cpt # None /\ t.p = p
  <2>1. granted' = [granted EXCEPT ![t.p] = [id |-> t.id, instance |-> instance,
                                             epoch |-> cpt.epoch, head |-> cpt.head]]
    BY <1>3, <1>5, <1>6 DEF Complete
  <2>2. granted'[p] = [id |-> t.id, instance |-> instance,
                       epoch |-> cpt.epoch, head |-> cpt.head]
    BY <1>2, <1>6, <2>1
  <2>3. cpt.epoch = epoch /\ cpt.head = nextSeq - 1
    BY <1>1, <1>6 DEF CheckpointIsHead
  <2>4. PICK s \in DOMAIN rows : rows[s] = t
    BY <1>1, <1>3, <1>5, <1>6 DEF CommitsAreLogged, Commits, Logged
  <2>5. DOMAIN rows = 1..nextSeq - 1
    BY <1>1, SettledLog
  <2>6. s <= cpt.head
    BY <2>3, <2>4, <2>5
  <2>7. t = [p |-> p, id |-> t.id]
    BY <1>3, <1>5, <1>6 DEF Txns
  <2>8. granted'[p].instance = instance /\ granted'[p].epoch = cpt.epoch
        /\ granted'[p].head = cpt.head /\ granted'[p].id = t.id
    BY <2>2
  <2>9. QED
    BY <1>4, <2>3, <2>4, <2>6, <2>7, <2>8
<1>7. CASE ~(outcome[1].status = "committed" /\ cpt # None /\ t.p = p)
  <2>1. granted'[p] = granted[p]
    BY <1>2, <1>3, <1>5, <1>7 DEF Complete
  <2>2. QED
    BY <1>4, <2>1
<1>8. QED
  BY <1>6, <1>7

LEMMA GrantsStep ==
  ASSUME IInv, CommitsAreLogged, CheckpointIsHead, GrantsArePast, CheckpointCovers,
         [Next]_vars
  PROVE  GrantsArePast' /\ CheckpointCovers'
<1> SUFFICES ASSUME NEW p \in Producers, granted'[p] # None
             PROVE  /\ granted'[p].instance <= instance'
                    /\ granted'[p].instance = instance' => granted'[p].epoch <= epoch'
                    /\ granted'[p].instance = instance' /\ granted'[p].epoch = epoch'
                          /\ ~Replacing' =>
                       \E s \in DOMAIN rows' :
                          s <= granted'[p].head /\ rows'[s] = [p |-> p, id |-> granted'[p].id]
  BY DEF GrantsArePast, CheckpointCovers
<1>1. instance \in Nat /\ epoch \in Nat
  BY DEF IInv, TypeOK, JournalType
<1>2. ASSUME granted'[p] = granted[p]
      PROVE  /\ granted[p].instance <= instance /\ granted[p].instance \in Nat
             /\ granted[p].epoch \in Nat
             /\ granted[p].instance = instance => granted[p].epoch <= epoch
             /\ granted[p].instance = instance /\ granted[p].epoch = epoch /\ ~Replacing =>
                   \E s \in DOMAIN rows :
                      s <= granted[p].head /\ rows[s] = [p |-> p, id |-> granted[p].id]
  <2>1. granted[p] # None
    BY <1>2
  <2>2. granted[p] \in [id : Ids, instance : Nat, epoch : Nat, head : Nat]
    BY <2>1 DEF IInv, TypeOK, ToldType
  <2>3. QED
    BY <2>1, <2>2 DEF GrantsArePast, CheckpointCovers
<1>3. CASE Complete
  <2>1. UNCHANGED <<rows, epoch, instance, mpc>>
    BY <1>3, CompleteGrants
  <2>2. CASE granted'[p] = granted[p]
    BY <1>2, <2>1, <2>2 DEF Replacing
  <2>3. CASE granted'[p] # granted[p]
    BY <1>1, <1>3, <2>1, <2>3, CompleteGrants
  <2>4. QED
    BY <2>2, <2>3
<1>4. CASE Crash
  <2>1. instance' = instance + 1 /\ granted'[p] = granted[p]
    BY <1>4 DEF Crash
  <2>2. granted[p].instance <= instance /\ granted[p].instance \in Nat
    BY <1>2, <2>1
  <2>3. QED
    BY <1>1, <2>1, <2>2
<1>5. CASE ~Complete /\ ~Crash /\ Next
  <2>1. granted'[p] = granted[p] /\ instance' = instance
    BY <1>5, GrantSteps
  <2>2. CASE \E m \in Maintainers : FinishRewrite(m) /\ epoch' = epoch + 1
    BY <1>1, <1>2, <2>1, <2>2
  <2>3. CASE UNCHANGED epoch /\ \A m \in Maintainers : ~FinishRewrite(m)
    <3>1. ~Replacing' => ~Replacing
      BY <1>5, <2>3, ReplacingEnds
    <3>2. ~Replacing' => \A m \in Maintainers : ~RewriteStore(m)
      <4>1. ASSUME NEW m \in Maintainers, RewriteStore(m) PROVE mpc'[m] = "stored"
        BY <4>1 DEF RewriteStore, IInv, TypeOK, MaintenanceType
      <4>2. QED
        BY <4>1 DEF Replacing
    <3>3. ~Replacing' => \A s \in DOMAIN rows : s \in DOMAIN rows' /\ rows'[s] = rows[s]
      BY <3>2, RowsWritten, RowsGrow
    <3>4. QED
      BY <1>2, <2>1, <2>3, <3>1, <3>3
  <2>4. QED
    BY <1>5, <2>2, <2>3, EpochSteps
<1>6. CASE UNCHANGED vars
  <2>1. UNCHANGED <<granted, instance, epoch, rows, mpc>>
    BY <1>6 DEF vars, told, journal, durable, maintenance
  <2>2. QED
    BY <1>2, <2>1 DEF Replacing
<1>7. QED
  BY <1>3, <1>4, <1>5, <1>6

-----------------------------------------------------------------------------
(* Results.                                                                *)

LEMMA HistoryInit == Init => HistoryInv
<1> SUFFICES ASSUME Init PROVE HistoryInv
  OBVIOUS
<1> USE DEF Init
<1>1. NeighboursUnharmed /\ LoadIsLast /\ Reserved /\ PublishedBelow
  BY DEF NeighboursUnharmed, LoadIsLast, Reserved, PublishedBelow
<1>2. ~InDoubt /\ ~Replacing
  BY DEF InDoubt, Replacing
<1>3. SceneIsStaged /\ RewriteKeepsScene /\ CapturesArePrefixes
  BY <1>2 DEF SceneIsStaged, RewriteKeepsScene, CapturesArePrefixes
<1>4. SceneIsReplay
  <2>1. LastWrites(EmptyRows) = {}
    BY DEF LastWrites, EmptyRows
  <2>2. \A k \in Keys : Replay(EmptyRows)[k] = None
    BY <2>1, ReplayNone
  <2>3. QED
    BY <1>2, <2>2 DEF SceneIsReplay
<1>5. CommitsAreLogged /\ CheckpointIsHead
  BY <1>2 DEF CommitsAreLogged, CheckpointIsHead
<1>6. GrantsArePast /\ CheckpointCovers
  BY DEF GrantsArePast, CheckpointCovers
<1>7. QED
  BY <1>1, <1>3, <1>4, <1>5, <1>6 DEF HistoryInv

LEMMA HistoryNext == IInv /\ IInv' /\ HistoryInv /\ [Next]_vars => HistoryInv'
<1> SUFFICES ASSUME IInv, IInv', HistoryInv, [Next]_vars PROVE HistoryInv'
  OBVIOUS
<1> USE DEF HistoryInv
<1>1. NeighboursUnharmed' /\ LoadIsLast' /\ Reserved'
  BY NeighboursStep, LoadStep, ReservedStep
<1>2. PublishedBelow'
  BY <1>1, PublishedStep
<1>3. SceneIsStaged' /\ SceneIsReplay' /\ RewriteKeepsScene' /\ CapturesArePrefixes'
  BY StagedStep, SceneStep, RewriteSceneStep, CapturesStep
<1>4. CommitsAreLogged' /\ CheckpointIsHead'
  BY LoggedStep, HeadStep
<1>5. GrantsArePast' /\ CheckpointCovers'
  BY GrantsStep
<1>6. QED
  BY <1>1, <1>2, <1>3, <1>4, <1>5

\* The strengthened invariant holds in every reachable state.
THEOREM HistoryInvariance == Spec => []HistoryInv
<1>1. QED
  BY HistoryInit, HistoryNext, Invariance, PTL DEF Spec

\* Receivers are sent increasing sequences of durable rows (_publish_batch,
\* replay_children_after_load, _resync_receivers).
THEOREM ReceiversSeeOrder == Spec => []PublishedInOrder
<1>1. IInv /\ HistoryInv => PublishedInOrder
  <2> SUFFICES ASSUME IInv, HistoryInv, ~Replacing, NEW i \in DOMAIN published
               PROVE  published[i] \in DOMAIN rows
    BY DEF HistoryInv, PublishedBelow, PublishedInOrder
  <2>1. published[i] \in Nat /\ 1 <= published[i] /\ published[i] < Sent
    BY DEF HistoryInv, PublishedBelow, IInv, TypeOK, ToldType
  <2>2. DOMAIN rows = 1 .. (IF InDoubt THEN undoSeq ELSE nextSeq) - 1
    BY DEF IInv, IndInv, Numbered, LogHasNoHoles
  <2>3. /\ Sent \in Nat /\ nextSeq \in Nat /\ undoSeq \in Nat
        /\ wpc \in {"stage", "persist", "publish", "load"} => Sent <= nextSeq
    BY SentType DEF HistoryInv
  <2>4. CASE InDoubt
    BY <2>1, <2>2, <2>3, <2>4 DEF Sent, InDoubt
  <2>5. CASE ~InDoubt
    <3>1. Sent <= nextSeq
      BY <2>3, <2>5 DEF Sent, InDoubt
    <3>2. QED
      BY <2>1, <2>2, <2>3, <2>5, <3>1
  <2>6. QED
    BY <2>4, <2>5
<1>2. QED
  BY <1>1, Invariance, HistoryInvariance, PTL

\* The authoritative stage is what a restart would rebuild from the store,
\* through roll-back, child replay, compaction and purge (atomic_edit,
\* compact_log, clear_collaboration_layers).
THEOREM StageIsDurable == Spec => []SceneIsReplay
<1>1. HistoryInv => SceneIsReplay
  BY DEF HistoryInv
<1>2. QED
  BY <1>1, HistoryInvariance, PTL

\* The checkpoint of a "committed" answer covers the commit while its history
\* is current (durable_checkpoint).
THEOREM CheckpointsHold == Spec => []CheckpointCovers
<1>1. HistoryInv => CheckpointCovers
  BY DEF HistoryInv
<1>2. QED
  BY <1>1, HistoryInvariance, PTL

\* A request fails only for itself: a bad neighbour in its batch costs it
\* nothing (_execute).
THEOREM GroupFailuresContained == Spec => []NeighboursUnharmed
<1>1. HistoryInv => NeighboursUnharmed
  BY DEF HistoryInv
<1>2. QED
  BY <1>1, HistoryInvariance, PTL

=============================================================================
