------------------------- MODULE ServerCommitProofs -------------------------
(***************************************************************************)
(* For every value of the constants: ServerCommit is type correct, makes   *)
(* each transaction durable exactly once, acknowledges only what is        *)
(* durable, keeps the log without holes, and never rewrites history under  *)
(* a request.  The inductive invariant says, phase by phase, what the      *)
(* committing thread owes the store and what the barrier counts.           *)
(***************************************************************************)
EXTENDS ServerCommit, FiniteSetTheorems, SequenceTheorems, TLAPS

\* The stop marker can only be the last element, and nothing follows it.
MarkerIsLast ==
    /\ \A i \in DOMAIN queue : queue[i] = Stop => i = Len(queue) /\ stopping
    /\ stopping => admitting = None

\* Requests in the queue; the marker is none.
Queued ==
    IF queue # <<>> /\ queue[Len(queue)] = Stop
    THEN Len(queue) - 1 ELSE Len(queue)

\* Requests past acquire_shared: the submitter's own (the inline commit works
\* on it as its batch), the queued ones and those of the batch.
Submitting == IF admitting # None /\ (Threaded \/ batch = <<>>) THEN 1 ELSE 0

BarrierCounts == readers = Submitting + Queued + Len(batch)

Holding(m) == mpc[m] \in {"claimed", "window", "stored"}

OneWriter ==
    /\ \A m \in Maintainers : Holding(m) => exclusive
    /\ \A m, n \in Maintainers : Holding(m) /\ Holding(n) => m = n
    /\ \A m \in Maintainers : mpc[m] \in {"window", "stored"} => readers = 0

\* Where the thread is determines what it holds.
Phases ==
    /\ wpc \in {"idle", "stopped"} <=> batch = <<>>
    /\ ~Threaded /\ batch # <<>> => admitting # None
    /\ wpc \in {"idle", "stopped", "gather"} => outcome = <<>>
    /\ wpc = "stage" => Len(outcome) < Len(batch)
    /\ wpc \in {"persist", "publish", "load", "children"} =>
          Len(outcome) \in 1..Len(batch)
    /\ wpc \in {"checkpoint", "complete"} => Len(outcome) = Len(batch)
    /\ wpc \in {"persist", "publish", "load", "children"} /\ mode = "group" =>
          Len(outcome) = Len(batch)
    /\ wpc = "stage" /\ mode = "single" => staged = <<>>

\* The rows are numbered from 1, and where the next sequence is.
Numbered ==
    /\ DOMAIN rows = 1..Cardinality(DOMAIN rows)
    /\ LogHasNoHoles
    /\ InDoubt => nextSeq = undoSeq + Len(staged)

CacheIsFresh == \A p \in Producers : cache[p] \in {None, progress[p]}

\* While a unit is in doubt, the accepted requests are exactly the ids between
\* the durable progress and next_by_session, each accepted once.
StagedIsNext ==
    InDoubt =>
        /\ \A p \in Producers : nextBy[p] >= progress[p]
        /\ \A p \in Producers :
              (~ \E j \in DOMAIN staged : staged[j].p = p) => nextBy[p] = progress[p]
        /\ \A t \in Txns :
              (\E j \in DOMAIN staged : staged[j] = t)
                <=> progress[t.p] < t.id /\ t.id <= nextBy[t.p]
        /\ \A i, j \in DOMAIN staged : staged[i] = staged[j] => i = j

Positive(o) == o.status \in {"committed", "duplicate"}

\* What an outcome promises is durable, or staged for this unit.
OutcomesAreSafe ==
    /\ InDoubt => \A i \in DOMAIN outcome :
          Positive(outcome[i]) => outcome[i].through <= nextBy[batch[i].p]
    /\ wpc = "stage" /\ mode = "single" => \A i \in DOMAIN outcome :
          Positive(outcome[i]) => outcome[i].through <= progress[batch[i].p]
    /\ wpc = "persist" /\ mode = "single" => \A i \in DOMAIN outcome :
          Positive(outcome[i]) /\ i < Len(outcome) =>
              outcome[i].through <= progress[batch[i].p]
    /\ ~InDoubt => \A i \in DOMAIN outcome :
          Positive(outcome[i]) => outcome[i].through <= progress[batch[i].p]

IndInv ==
    /\ MarkerIsLast
    /\ BarrierCounts
    /\ OneWriter
    /\ Phases
    /\ Numbered
    /\ CacheIsFresh
    /\ StagedIsNext
    /\ OutcomesAreSafe
    /\ ExactlyOnce
    /\ AckIsDurable

IInv == TypeOK /\ IndInv

-----------------------------------------------------------------------------
LEMMA StopIsNoTxn == Stop \notin Txns
  BY ServerCommitAssumption DEF Stop, Txns

LEMMA TxnFields == \A t \in Txns : t.p \in Producers /\ t.id \in Nat /\ t.id >= 1
  BY ServerCommitAssumption DEF Txns, Ids

-----------------------------------------------------------------------------
(* Each part of the invariant depends on few variables.                    *)

LEMMA FrameTypes ==
  /\ DurableType /\ UNCHANGED durable => DurableType'
  /\ JournalType /\ UNCHANGED journal => JournalType'
  /\ AdmissionType /\ UNCHANGED <<barrier, admission>> => AdmissionType'
  /\ WorkerType /\ UNCHANGED <<wpc, batch, final, cpt>> => WorkerType'
  /\ UnitType /\ UNCHANGED unit => UnitType'
  /\ MaintenanceType /\ UNCHANGED <<mpc, cap>> => MaintenanceType'
  /\ ToldType /\ UNCHANGED told => ToldType'
  /\ CountersType /\ UNCHANGED <<rewrites, faults, crashes>> => CountersType'
<1>1. DurableType /\ UNCHANGED durable => DurableType'
  BY DEF DurableType, IsTable, durable
<1>2. JournalType /\ UNCHANGED journal => JournalType'
  BY DEF JournalType, journal
<1>3. AdmissionType /\ UNCHANGED <<barrier, admission>> => AdmissionType'
  BY DEF AdmissionType, barrier, admission
<1>4. WorkerType /\ UNCHANGED <<wpc, batch, final, cpt>> => WorkerType'
  BY DEF WorkerType
<1>5. UnitType /\ UNCHANGED unit => UnitType'
  BY DEF UnitType, unit
<1>6. MaintenanceType /\ UNCHANGED <<mpc, cap>> => MaintenanceType'
  BY DEF MaintenanceType, IsTable
<1>7. ToldType /\ UNCHANGED told => ToldType'
  BY DEF ToldType, told
<1>8. CountersType /\ UNCHANGED <<rewrites, faults, crashes>> => CountersType'
  BY DEF CountersType
<1>9. QED
  BY <1>1, <1>2, <1>3, <1>4, <1>5, <1>6, <1>7, <1>8

LEMMA FrameBarrier ==
  /\ MarkerIsLast /\ UNCHANGED admission => MarkerIsLast'
  /\ BarrierCounts /\ UNCHANGED <<readers, admission, batch, instance>> => BarrierCounts'
  /\ OneWriter /\ UNCHANGED <<barrier, mpc>> => OneWriter'
  /\ Phases /\ UNCHANGED <<wpc, batch, outcome, staged, mode, admitting, instance>>
        => Phases'
<1>1. MarkerIsLast /\ UNCHANGED admission => MarkerIsLast'
  BY DEF MarkerIsLast, admission
<1>2. BarrierCounts /\ UNCHANGED <<readers, admission, batch, instance>> => BarrierCounts'
  BY DEF BarrierCounts, Submitting, Queued, admission, Threaded
<1>3. OneWriter /\ UNCHANGED <<barrier, mpc>> => OneWriter'
  BY DEF OneWriter, Holding, barrier
<1>4. Phases /\ UNCHANGED <<wpc, batch, outcome, staged, mode, admitting, instance>>
        => Phases'
  BY DEF Phases, Threaded
<1>5. QED
  BY <1>1, <1>2, <1>3, <1>4

LEMMA FrameStore ==
  /\ Numbered /\ UNCHANGED <<rows, nextSeq, wpc, undoSeq, staged, mpc>> => Numbered'
  /\ CacheIsFresh /\ UNCHANGED <<cache, progress>> => CacheIsFresh'
  /\ StagedIsNext /\ UNCHANGED <<wpc, staged, nextBy, progress>> => StagedIsNext'
  /\ OutcomesAreSafe /\ UNCHANGED <<wpc, mode, outcome, batch, nextBy, progress>>
        => OutcomesAreSafe'
  /\ ExactlyOnce /\ UNCHANGED <<writes, progress>> => ExactlyOnce'
  /\ AckIsDurable /\ UNCHANGED <<acked, progress>> => AckIsDurable'
<1>1. Numbered /\ UNCHANGED <<rows, nextSeq, wpc, undoSeq, staged, mpc>> => Numbered'
  BY DEF Numbered, LogHasNoHoles, InDoubt, Replacing
<1>2. CacheIsFresh /\ UNCHANGED <<cache, progress>> => CacheIsFresh'
  BY DEF CacheIsFresh
<1>3. StagedIsNext /\ UNCHANGED <<wpc, staged, nextBy, progress>> => StagedIsNext'
  BY DEF StagedIsNext, InDoubt
<1>4. OutcomesAreSafe /\ UNCHANGED <<wpc, mode, outcome, batch, nextBy, progress>>
        => OutcomesAreSafe'
  BY DEF OutcomesAreSafe, InDoubt, Positive
<1>5. ExactlyOnce /\ UNCHANGED <<writes, progress>> => ExactlyOnce'
  BY DEF ExactlyOnce
<1>6. AckIsDurable /\ UNCHANGED <<acked, progress>> => AckIsDurable'
  BY DEF AckIsDurable
<1>7. QED
  BY <1>1, <1>2, <1>3, <1>4, <1>5, <1>6

-----------------------------------------------------------------------------
(* Admission.                                                              *)

LEMMA AdmitStep ==
  ASSUME IInv, NEW t \in Txns, Admit(t)
  PROVE  IInv'
<1> USE DEF IInv, IndInv, Admit, SubmissionLockFree, AcquireShared
<1>1. AdmissionType'
  BY DEF TypeOK, AdmissionType
<1>2. TypeOK'
  BY <1>1, FrameTypes DEF TypeOK, durable, journal, worker, maintenance, told
<1>3. MarkerIsLast'
  BY DEF MarkerIsLast
<1>4. BarrierCounts'
  <2>1. Submitting = 0
    BY DEF Submitting
  <2>2. Submitting' = 1
    BY ServerCommitAssumption DEF Submitting, Phases, worker, Threaded, journal
  <2>3. Queued' = Queued /\ Queued \in Int /\ Len(batch) \in Nat /\ readers \in Nat
        /\ Len(batch') = Len(batch)
    BY DEF Queued, TypeOK, AdmissionType, WorkerType, worker
  <2>4. QED
    BY <2>1, <2>2, <2>3 DEF BarrierCounts
<1>5. OneWriter'
  BY DEF OneWriter, Holding, TypeOK, AdmissionType, maintenance
<1>6. Phases'
  BY ServerCommitAssumption DEF Phases, worker, unit
<1>7. QED
  BY <1>2, <1>3, <1>4, <1>5, <1>6, FrameStore
  DEF durable, journal, worker, unit, maintenance, told

LEMMA EnqueueStep ==
  ASSUME IInv, Enqueue
  PROVE  IInv'
<1> USE DEF IInv, IndInv, Enqueue
<1>1. admitting \in Txns /\ admitting # Stop /\ queue \in Seq(Requests)
  BY StopIsNoTxn DEF TypeOK, AdmissionType
<1>2. AdmissionType'
  BY <1>1 DEF TypeOK, AdmissionType, Requests, barrier
<1>3. TypeOK'
  BY <1>2, FrameTypes DEF TypeOK, durable, journal, worker, maintenance, told
<1>4. Len(queue') = Len(queue) + 1 /\ queue'[Len(queue')] = admitting
      /\ \A i \in 1..Len(queue) : queue'[i] = queue[i]
  BY <1>1 DEF Requests
<1>5. ~stopping /\ \A i \in DOMAIN queue : queue[i] # Stop
  BY DEF MarkerIsLast
<1>6. MarkerIsLast'
  BY <1>1, <1>4, <1>5 DEF MarkerIsLast
<1>7. BarrierCounts'
  <2>1. Submitting = 1 /\ Submitting' = 0
    BY DEF Submitting, worker
  <2>2. Queued = Len(queue) /\ Len(queue) \in Nat
    BY <1>1, <1>5 DEF Queued, Requests
  <2>3. Queued' = Len(queue')
    BY <1>1, <1>4 DEF Queued
  <2>4. Len(batch) \in Nat /\ batch' = batch /\ readers' = readers /\ readers \in Nat
    BY DEF TypeOK, WorkerType, AdmissionType, worker, barrier
  <2>5. QED
    BY <1>4, <2>1, <2>2, <2>3, <2>4 DEF BarrierCounts
<1>8. Phases'
  BY DEF Phases, worker, unit, Threaded, journal
<1>9. QED
  BY <1>3, <1>6, <1>7, <1>8, FrameStore, FrameBarrier
  DEF durable, journal, worker, unit, maintenance, told

LEMMA ShutdownStep ==
  ASSUME IInv, Shutdown
  PROVE  IInv'
<1> USE DEF IInv, IndInv, Shutdown, SubmissionLockFree
<1>1. queue \in Seq(Requests) /\ Stop \in Requests
  BY DEF TypeOK, AdmissionType, Requests
<1>2. AdmissionType'
  BY <1>1 DEF TypeOK, AdmissionType, barrier
<1>3. TypeOK'
  BY <1>2, FrameTypes DEF TypeOK, durable, journal, worker, maintenance, told
<1>4. \A i \in DOMAIN queue : queue[i] # Stop
  BY DEF MarkerIsLast
<1>5. Threaded => Len(queue') = Len(queue) + 1 /\ queue'[Len(queue')] = Stop
                  /\ \A i \in 1..Len(queue) : queue'[i] = queue[i]
  BY <1>1
<1>6. MarkerIsLast'
  BY <1>1, <1>4, <1>5 DEF MarkerIsLast
<1>7. BarrierCounts'
  <2>1. Submitting' = Submitting
    BY DEF Submitting, worker
  <2>2. Queued = Len(queue) /\ Len(queue) \in Nat
    BY <1>1, <1>4 DEF Queued
  <2>3. Queued' = Len(queue)
    <3>1. CASE Threaded
      <4>1. queue' # <<>>
        BY <3>1, <1>1
      <4>2. QED
        BY <3>1, <4>1, <1>5, <2>2 DEF Queued
    <3>2. CASE ~Threaded
      BY <3>2, <2>2 DEF Queued
    <3>3. QED
      BY <3>1, <3>2
  <2>4. QED
    BY <2>1, <2>2, <2>3 DEF BarrierCounts, worker, barrier
<1>8. QED
  BY <1>3, <1>6, <1>7, FrameStore, FrameBarrier
  DEF durable, journal, barrier, worker, unit, maintenance, told

-----------------------------------------------------------------------------
(* What the beginning of a unit of commit establishes.                     *)

LEMMA BeginUnitFacts ==
  ASSUME DurableType', JournalType', CacheIsFresh', BeginUnit
  PROVE  /\ staged' = <<>> /\ undoSeq' = nextSeq' /\ undoScene' = scene'
         /\ nextBy' = progress'
         /\ nextBy' \in [Producers -> Nat]
         /\ undoSeq' \in Nat \ {0}
         /\ undoScene' \in [Keys -> Txns \cup {None}]
         /\ StagedIsNext'
<1>1. nextBy' = progress' /\ progress' \in [Producers -> Nat]
  BY DEF BeginUnit, CacheIsFresh, DurableType
<1>2. staged' = <<>>
  BY DEF BeginUnit
<1>3. StagedIsNext'
  BY <1>1, <1>2, TxnFields DEF StagedIsNext
<1>4. QED
  BY <1>1, <1>2, <1>3 DEF BeginUnit, JournalType

LEMMA CommitInlineStep ==
  ASSUME IInv, CommitInline
  PROVE  IInv'
<1> USE DEF IInv, IndInv, CommitInline
<1>1. DurableType' /\ JournalType' /\ CacheIsFresh'
  BY FrameTypes, FrameStore DEF TypeOK, durable, journal
<1>2. staged' = <<>> /\ undoSeq' = nextSeq' /\ nextBy' = progress' /\ StagedIsNext'
      /\ nextBy' \in [Producers -> Nat] /\ undoSeq' \in Nat \ {0}
      /\ undoScene' \in [Keys -> Txns \cup {None}]
  BY <1>1, BeginUnitFacts
<1>3. admitting \in Txns /\ batch = <<>> /\ batch' = <<admitting>>
      /\ batch' \in Seq(Txns) /\ Len(batch') = 1 /\ outcome' = <<>>
      /\ batch' # <<>> /\ Len(outcome') = 0
  BY DEF TypeOK, AdmissionType, Phases
<1>4. WorkerType' /\ UnitType'
  BY <1>2, <1>3 DEF TypeOK, WorkerType, UnitType
<1>5. TypeOK'
  BY <1>1, <1>4, FrameTypes DEF TypeOK, barrier, admission, maintenance, told
<1>6. BarrierCounts'
  <2>1. Submitting = 1 /\ Submitting' = 0 /\ Len(batch) = 0
    BY <1>3 DEF Submitting, admission, Threaded, journal
  <2>2. Queued' = Queued /\ Queued \in Int
    BY DEF Queued, admission, TypeOK, AdmissionType
  <2>3. QED
    BY <1>3, <2>1, <2>2 DEF BarrierCounts, barrier
<1>7. Phases'
  BY <1>2, <1>3 DEF Phases, admission
<1>8. Numbered'
  BY <1>2, <1>3 DEF Numbered, LogHasNoHoles, InDoubt, Replacing, durable, journal,
     maintenance, TypeOK, JournalType
<1>9. OutcomesAreSafe'
  BY <1>3 DEF OutcomesAreSafe
<1>10. QED
  BY <1>1, <1>2, <1>5, <1>6, <1>7, <1>8, <1>9, FrameStore, FrameBarrier
  DEF durable, journal, barrier, admission, maintenance, told

-----------------------------------------------------------------------------
(* Gathering a batch.                                                      *)

\* What taking the head of the queue leaves.
LEMMA QueueHead ==
  ASSUME TypeOK, MarkerIsLast, queue # <<>>, queue' = Tail(queue),
         UNCHANGED <<stopping, admitting>>
  PROVE  /\ queue' \in Seq(Requests)
         /\ Head(queue) \in Requests
         /\ MarkerIsLast'
         /\ Head(queue) = Stop => Queued' = Queued
         /\ Head(queue) # Stop => Queued' = Queued - 1
         /\ Queued \in Int
<1>1. /\ queue \in Seq(Requests) /\ queue' \in Seq(Requests) /\ Head(queue) = queue[1]
      /\ Len(queue) \in Nat /\ Len(queue) >= 1 /\ Len(queue') = Len(queue) - 1
      /\ \A i \in 1..Len(queue') : queue'[i] = queue[i + 1]
  BY DEF TypeOK, AdmissionType
<1>2. queue[1] \in Requests
  BY <1>1
<1>3. MarkerIsLast'
  BY <1>1 DEF MarkerIsLast
<1>4. Queued \in Int
  BY <1>1 DEF Queued
<1>5. ASSUME queue[1] = Stop PROVE Queued' = Queued
  <2>1. Len(queue) = 1
    BY <1>1, <1>5 DEF MarkerIsLast
  <2>2. queue' = <<>> /\ Len(queue') = 0
    BY <1>1, <2>1
  <2>3. QED
    BY <1>5, <2>1, <2>2 DEF Queued
<1>6. ASSUME queue[1] # Stop PROVE Queued' = Queued - 1
  <2>1. CASE Len(queue) = 1
    <3>1. queue' = <<>> /\ Len(queue') = 0
      BY <1>1, <2>1
    <3>2. QED
      BY <1>6, <2>1, <3>1 DEF Queued
  <2>2. CASE Len(queue) > 1
    <3>1. queue' # <<>> /\ queue'[Len(queue')] = queue[Len(queue)]
      BY <1>1, <2>2
    <3>2. QED
      BY <1>1, <3>1 DEF Queued
  <2>3. QED
    BY <1>1, <2>1, <2>2
<1>7. QED
  BY <1>1, <1>2, <1>3, <1>4, <1>5, <1>6

LEMMA GatherFirstStep ==
  ASSUME IInv, GatherFirst
  PROVE  IInv'
<1> USE DEF IInv, IndInv, GatherFirst
<1>1. /\ queue' \in Seq(Requests) /\ Head(queue) \in Requests /\ MarkerIsLast'
      /\ Head(queue) = Stop => Queued' = Queued
      /\ Head(queue) # Stop => Queued' = Queued - 1
      /\ Queued \in Int
  BY QueueHead
<1>2. AdmissionType'
  BY <1>1 DEF TypeOK, AdmissionType, barrier
<1>3. batch = <<>> /\ outcome = <<>> /\ outcome' = <<>> /\ Len(batch) = 0
  BY DEF Phases, unit
<1>4. ASSUME Head(queue) # Stop
      PROVE  batch' \in Seq(Txns) /\ batch' # <<>> /\ Len(batch') = 1
  <2>1. Head(queue) \in Txns
    BY <1>1, <1>4 DEF Requests
  <2>2. PICK h \in Txns : h = Head(queue)
    BY <2>1
  <2>3. batch' = <<h>>
    BY <1>4, <2>2
  <2> HIDE DEF GatherFirst
  <2>4. QED
    BY <2>3
<1>5. WorkerType'
  <2>1. batch' \in Seq(Txns)
    BY <1>3, <1>4 DEF TypeOK, WorkerType
  <2>2. wpc' \in {"gather", "stopped"} /\ final' \in BOOLEAN
        /\ cpt' \in [epoch : Nat, head : Nat] \cup {None}
    BY DEF TypeOK, WorkerType
  <2>3. QED
    BY <2>1, <2>2 DEF WorkerType
<1>6. TypeOK'
  BY <1>2, <1>5, FrameTypes DEF TypeOK, durable, journal, maintenance, told, unit
<1>7. BarrierCounts'
  <2> admitting' = admitting /\ Threaded
    BY <1>3, <1>4
  <2>1. Submitting' = Submitting /\ Submitting \in Nat
    BY DEF Submitting, Threaded, journal
  <2>2. CASE Head(queue) = Stop
    BY <1>1, <1>3, <2>1, <2>2 DEF BarrierCounts, barrier
  <2>3. CASE Head(queue) # Stop
    <3>1. readers' = readers
      BY DEF barrier
    <3>2. Queued' = Queued - 1 /\ Len(batch') = Len(batch) + 1 /\ Len(batch) \in Nat
      BY <1>1, <1>3, <1>4, <2>3
    <3> HIDE DEF GatherFirst
    <3>3. QED
      BY <1>1, <2>1, <3>1, <3>2 DEF BarrierCounts
  <2>4. QED
    BY <2>2, <2>3
<1>8. Phases'
  BY <1>3, <1>4 DEF Phases, unit, Threaded, journal
<1>9. Numbered' /\ StagedIsNext'
  BY DEF Numbered, LogHasNoHoles, StagedIsNext, InDoubt, Replacing, durable, journal,
     maintenance, unit
<1>10. OutcomesAreSafe'
  BY <1>3 DEF OutcomesAreSafe
<1>11. QED
  BY <1>1, <1>6, <1>7, <1>8, <1>9, <1>10, FrameStore, FrameBarrier
  DEF durable, journal, barrier, maintenance, told

LEMMA GatherMoreStep ==
  ASSUME IInv, GatherMore
  PROVE  IInv'
<1> USE DEF IInv, IndInv, GatherMore
<1>1. /\ queue' \in Seq(Requests) /\ Head(queue) \in Requests /\ MarkerIsLast'
      /\ Head(queue) = Stop => Queued' = Queued
      /\ Head(queue) # Stop => Queued' = Queued - 1
      /\ Queued \in Int
  BY QueueHead
<1>2. AdmissionType'
  BY <1>1 DEF TypeOK, AdmissionType, barrier
<1>3. batch # <<>> /\ outcome = <<>> /\ outcome' = <<>> /\ Len(batch) \in Nat
      /\ batch \in Seq(Txns)
  BY DEF Phases, unit, TypeOK, WorkerType
<1>4. ASSUME Head(queue) # Stop
      PROVE  batch' \in Seq(Txns) /\ batch' # <<>> /\ Len(batch') = Len(batch) + 1
  <2>1. Head(queue) \in Txns
    BY <1>1, <1>4 DEF Requests
  <2>2. PICK h \in Txns : h = Head(queue)
    BY <2>1
  <2>3. batch' = Append(batch, h)
    BY <1>4, <2>2
  <2> HIDE DEF GatherMore
  <2>4. QED
    BY <1>3, <2>3
<1>5. WorkerType'
  <2>1. batch' \in Seq(Txns)
    BY <1>3, <1>4 DEF TypeOK, WorkerType
  <2>2. wpc' = "gather" /\ final' \in BOOLEAN
        /\ cpt' \in [epoch : Nat, head : Nat] \cup {None}
    BY DEF TypeOK, WorkerType
  <2>3. QED
    BY <2>1, <2>2 DEF WorkerType
<1>6. TypeOK'
  BY <1>2, <1>5, FrameTypes DEF TypeOK, durable, journal, maintenance, told, unit
<1>7. BarrierCounts'
  <2> admitting' = admitting /\ batch # <<>> /\ batch' # <<>>
    BY <1>3, <1>4
  <2>1. Submitting' = Submitting /\ Submitting \in Nat
    BY DEF Submitting, Threaded, journal
  <2>2. CASE Head(queue) = Stop
    BY <1>1, <1>3, <2>1, <2>2 DEF BarrierCounts, barrier
  <2>3. CASE Head(queue) # Stop
    <3>1. readers' = readers
      BY DEF barrier
    <3>2. Queued' = Queued - 1 /\ Len(batch') = Len(batch) + 1 /\ Len(batch) \in Nat
      BY <1>1, <1>3, <1>4, <2>3
    <3> HIDE DEF GatherMore
    <3>3. QED
      BY <1>1, <2>1, <3>1, <3>2 DEF BarrierCounts
  <2>4. QED
    BY <2>2, <2>3
<1>8. Phases'
  BY <1>3, <1>4 DEF Phases, unit, Threaded, journal
<1>9. OutcomesAreSafe'
  BY <1>3 DEF OutcomesAreSafe
<1>10. QED
  BY <1>1, <1>6, <1>7, <1>8, <1>9, FrameStore, FrameBarrier
  DEF durable, journal, barrier, maintenance, told, unit

LEMMA GatherDoneStep ==
  ASSUME IInv, GatherDone
  PROVE  IInv'
<1> USE DEF IInv, IndInv, GatherDone
<1>1. DurableType' /\ JournalType' /\ CacheIsFresh'
  BY FrameTypes, FrameStore DEF TypeOK, durable, journal
<1>2. staged' = <<>> /\ undoSeq' = nextSeq' /\ nextBy' = progress' /\ StagedIsNext'
      /\ nextBy' \in [Producers -> Nat] /\ undoSeq' \in Nat \ {0}
      /\ undoScene' \in [Keys -> Txns \cup {None}]
  BY <1>1, BeginUnitFacts
<1>3. batch # <<>> /\ batch \in Seq(Txns) /\ Len(batch) > 0 /\ outcome' = <<>>
      /\ Len(outcome') = 0
  BY DEF Phases, TypeOK, WorkerType
<1>4. WorkerType' /\ UnitType'
  BY <1>2, <1>3 DEF TypeOK, WorkerType, UnitType
<1>5. TypeOK'
  BY <1>1, <1>4, FrameTypes DEF TypeOK, barrier, admission, maintenance, told
<1>6. Phases'
  BY <1>2, <1>3 DEF Phases, admission, Threaded, journal
<1>7. Numbered'
  BY <1>2 DEF Numbered, LogHasNoHoles, InDoubt, Replacing, durable, journal,
     maintenance, TypeOK, JournalType
<1>8. OutcomesAreSafe'
  BY <1>3 DEF OutcomesAreSafe
<1>9. QED
  BY <1>1, <1>2, <1>5, <1>6, <1>7, <1>8, FrameStore, FrameBarrier
  DEF durable, journal, barrier, admission, maintenance, told

-----------------------------------------------------------------------------
(* The unit of commit.                                                     *)

\* The request being checked, and what the cache tells about it.
LEMMA CurrentRequest ==
  ASSUME IInv, wpc = "stage"
  PROVE  /\ Len(outcome) \in Nat /\ Len(outcome) + 1 \in 1..Len(batch)
         /\ batch[Len(outcome) + 1] \in Txns
         /\ batch \in Seq(Txns) /\ Len(batch) \in Nat /\ Len(batch) >= 1
         /\ batch # <<>>
  BY DEF IInv, IndInv, TypeOK, WorkerType, UnitType, Phases

LEMMA CheckFacts ==
  ASSUME NEW t \in Txns, NEW through \in Nat
  PROVE  /\ Check(t, through) \in Outcomes
         /\ Check(t, through).status = "committed" =>
              t.id = through + 1 /\ Check(t, through).through = t.id
         /\ Check(t, through).status = "duplicate" =>
              Check(t, through).through = through
  BY TxnFields DEF Check, Outcomes

LEMMA StageRejected ==
  ASSUME IInv, StageRequest,
         Check(batch[Len(outcome) + 1], nextBy[batch[Len(outcome) + 1].p]).status
            # "committed"
  PROVE  IInv'
<1> USE DEF IInv, IndInv
<1> DEFINE t == batch[Len(outcome) + 1]
           result == Check(t, nextBy[t.p])
<1>1. wpc = "stage"
  BY DEF StageRequest
<1>2. /\ t \in Txns /\ t.p \in Producers /\ Len(outcome) \in Nat
      /\ Len(outcome) + 1 \in 1..Len(batch) /\ Len(batch) \in Nat /\ batch # <<>>
  BY <1>1, CurrentRequest, TxnFields
<1>3. nextBy[t.p] \in Nat
  BY <1>2 DEF TypeOK, UnitType
<1>4. /\ result \in Outcomes /\ result.status # "committed"
      /\ result.status = "duplicate" => result.through = nextBy[t.p]
  BY <1>2, <1>3, CheckFacts
<1>5. /\ outcome' = Append(outcome, result)
      /\ cache' = [cache EXCEPT ![t.p] = CommittedThrough(t.p)]
      /\ UNCHANGED <<staged, nextBy, nextSeq, scene>>
      /\ wpc' = IF mode = "single" /\ staged # <<>> THEN "persist"
                ELSE IF Len(outcome) + 1 < Len(batch) THEN "stage"
                ELSE IF staged # <<>> THEN "persist" ELSE "checkpoint"
      /\ UNCHANGED <<durable, epoch, instance, barrier, admission, batch, final,
                     mode, undoSeq, undoScene, cpt, maintenance, told, faults,
                     crashes>>
  BY <1>4 DEF StageRequest, AfterCheck
<1>6. CommittedThrough(t.p) \in Nat /\ CommittedThrough(t.p) = progress[t.p]
  BY <1>2 DEF CommittedThrough, CacheIsFresh, TypeOK, DurableType
<1>7. CacheIsFresh' /\ JournalType'
  BY <1>2, <1>5, <1>6 DEF CacheIsFresh, TypeOK, JournalType, durable
<1>8. /\ outcome' \in Seq(Outcomes) /\ Len(outcome') = Len(outcome) + 1
      /\ \A i \in 1..Len(outcome) : outcome'[i] = outcome[i]
      /\ outcome'[Len(outcome) + 1] = result
  BY <1>2, <1>4, <1>5 DEF TypeOK, UnitType
<1>9. UnitType' /\ WorkerType'
  BY <1>5, <1>8 DEF TypeOK, UnitType, WorkerType
<1>10. TypeOK'
  BY <1>5, <1>7, <1>9, FrameTypes DEF TypeOK, barrier, admission, maintenance, told
<1>11. Phases'
  BY <1>1, <1>2, <1>5, <1>8 DEF Phases, admission, Threaded, journal
<1>12. Numbered'
  <2>1. InDoubt /\ (~InDoubt' => staged = <<>>)
    BY <1>1, <1>5 DEF InDoubt
  <2>2. ~InDoubt' => nextSeq = undoSeq
    BY <2>1 DEF Numbered, TypeOK, JournalType, UnitType
  <2>3. QED
    BY <1>5, <2>1, <2>2 DEF Numbered, LogHasNoHoles, Replacing, durable, maintenance
<1>13. StagedIsNext'
  BY <1>1, <1>5 DEF StagedIsNext, InDoubt, durable
<1>14. OutcomesAreSafe'
  <2>1. InDoubt /\ \A p \in Producers :
           (\A j \in DOMAIN staged : staged[j].p # p) => nextBy[p] = progress[p]
    BY <1>1 DEF InDoubt, StagedIsNext
  <2>2. staged = <<>> => \A p \in Producers : nextBy[p] = progress[p]
    BY <2>1
  <2>3. mode = "single" => staged = <<>>
    BY <1>1 DEF Phases
  <2>4. \A i \in 1..Len(outcome) : Positive(outcome[i]) =>
            outcome[i].through <= nextBy[batch[i].p]
    BY <1>1 DEF OutcomesAreSafe, InDoubt, TypeOK, UnitType
  <2>5. Positive(result) => result.through <= nextBy[t.p]
    BY <1>3, <1>4 DEF Positive, Outcomes
  <2>6. \A i \in 1..Len(outcome') : batch[i] \in Txns /\ batch[i].p \in Producers
    BY <1>2, <1>8, TxnFields DEF TypeOK, WorkerType
  <2>7. \A i \in 1..Len(outcome') : Positive(outcome'[i]) =>
            outcome'[i].through <= nextBy[batch[i].p]
    BY <1>2, <1>8, <2>4, <2>5
  <2>8. staged = <<>> => \A i \in 1..Len(outcome') : Positive(outcome'[i]) =>
            outcome'[i].through <= progress[batch[i].p]
    BY <2>2, <2>6, <2>7
  <2>9. mode' = mode /\ batch' = batch /\ nextBy' = nextBy /\ progress' = progress
        /\ DOMAIN outcome' = 1..Len(outcome')
    BY <1>5, <1>8 DEF durable
  <2>10. wpc' = "stage" /\ mode = "single" => staged = <<>>
    BY <2>3
  <2>11. wpc' = "persist" => mode # "single"
    BY <1>5, <2>3
  <2>12. ~InDoubt' => staged = <<>>
    BY <1>5 DEF InDoubt
  <2>13. QED
    BY <2>7, <2>8, <2>9, <2>10, <2>11, <2>12 DEF OutcomesAreSafe, Positive
<1>15. QED
  BY <1>5, <1>7, <1>10, <1>11, <1>12, <1>13, <1>14, FrameStore, FrameBarrier
  DEF durable, barrier, admission, maintenance, told

LEMMA TxnEquality ==
  \A t, u \in Txns : t.p = u.p /\ t.id = u.id => t = u
  BY DEF Txns

LEMMA StageAccepted ==
  ASSUME IInv, StageRequest,
         Check(batch[Len(outcome) + 1], nextBy[batch[Len(outcome) + 1].p]).status
            = "committed"
  PROVE  IInv'
<1> USE DEF IInv, IndInv
<1> DEFINE t == batch[Len(outcome) + 1]
           result == Check(t, nextBy[t.p])
<1>1. wpc = "stage" /\ InDoubt
  BY DEF StageRequest, InDoubt
<1>2. /\ t = batch[Len(outcome) + 1] /\ t \in Txns /\ t.p \in Producers /\ t.id \in Nat /\ Len(outcome) \in Nat
      /\ Len(outcome) + 1 \in 1..Len(batch) /\ Len(batch) \in Nat /\ batch # <<>>
  BY <1>1, CurrentRequest, TxnFields
<1>3. nextBy \in [Producers -> Nat] /\ nextBy[t.p] \in Nat
      /\ progress \in [Producers -> Nat] /\ staged \in Seq(Txns)
  BY <1>2 DEF TypeOK, UnitType, DurableType
<1>4. /\ result \in Outcomes /\ result.through = t.id /\ t.id = nextBy[t.p] + 1
  BY <1>2, <1>3, CheckFacts
<1>5. /\ outcome' = Append(outcome, result)
      /\ cache' = [cache EXCEPT ![t.p] = CommittedThrough(t.p)]
      /\ staged' = Append(staged, t)
      /\ nextBy' = [nextBy EXCEPT ![t.p] = t.id]
      /\ nextSeq' = nextSeq + 1
      /\ scene' = [scene EXCEPT ![KeyOf[t]] = t]
      /\ UNCHANGED <<durable, epoch, instance, barrier, admission, batch, final,
                     mode, undoSeq, undoScene, cpt, maintenance, told, faults,
                     crashes>>
  BY DEF StageRequest
<1>6. staged' # <<>> /\ staged' \in Seq(Txns) /\ Len(staged') = Len(staged) + 1
      /\ (\A j \in 1..Len(staged) : staged'[j] = staged[j])
      /\ staged'[Len(staged) + 1] = t /\ Len(staged) \in Nat
  BY <1>2, <1>3, <1>5
<1>7. wpc' = IF mode = "single" THEN "persist"
             ELSE IF Len(outcome) + 1 < Len(batch) THEN "stage" ELSE "persist"
  BY <1>6 DEF StageRequest, AfterCheck
<1> HIDE DEF t, result
<1>8. CommittedThrough(t.p) \in Nat /\ CommittedThrough(t.p) = progress[t.p]
  BY <1>2 DEF CommittedThrough, CacheIsFresh, TypeOK, DurableType
<1>9. CacheIsFresh'
  BY <1>2, <1>5, <1>8 DEF CacheIsFresh, durable
<1>10. JournalType'
  BY <1>2, <1>5, <1>8, ServerCommitAssumption DEF TypeOK, JournalType
<1>11. /\ outcome' \in Seq(Outcomes) /\ Len(outcome') = Len(outcome) + 1
       /\ \A i \in 1..Len(outcome) : outcome'[i] = outcome[i]
       /\ outcome'[Len(outcome) + 1] = result
  BY <1>2, <1>4, <1>5 DEF TypeOK, UnitType
<1>12. nextBy' \in [Producers -> Nat]
  BY <1>2, <1>3, <1>5
<1>13. UnitType' /\ WorkerType'
  BY <1>5, <1>6, <1>7, <1>11, <1>12 DEF TypeOK, UnitType, WorkerType
<1>14. TypeOK'
  BY <1>5, <1>10, <1>13, FrameTypes DEF TypeOK, barrier, admission, maintenance, told
<1>15. Phases'
  BY <1>1, <1>2, <1>5, <1>7, <1>11 DEF Phases, admission, Threaded, journal
<1>16. InDoubt'
  BY <1>7 DEF InDoubt
<1>17. Numbered'
  BY <1>1, <1>5, <1>6, <1>16 DEF Numbered, LogHasNoHoles, Replacing, durable,
     maintenance, TypeOK, JournalType, UnitType
<1>18. StagedIsNext'
  <2>1. \A p \in Producers : nextBy'[p] = IF p = t.p THEN t.id ELSE nextBy[p]
    BY <1>2, <1>3, <1>5
  <2>2. progress' = progress
    BY <1>5 DEF durable
  <2>3. \A p \in Producers : nextBy'[p] >= progress'[p]
    <3>1. \A p \in Producers : nextBy[p] >= progress[p]
      BY <1>1 DEF StagedIsNext
    <3>2. QED
      BY <1>2, <1>3, <1>4, <2>1, <2>2, <3>1
  <2>4. \A p \in Producers :
          (~ \E j \in DOMAIN staged' : staged'[j].p = p) => nextBy'[p] = progress'[p]
    <3>1. SUFFICES ASSUME NEW p \in Producers,
                          \A j \in DOMAIN staged' : staged'[j].p # p
                   PROVE  nextBy'[p] = progress'[p]
      OBVIOUS
    <3> DOMAIN staged' = 1..Len(staged) + 1 /\ DOMAIN staged = 1..Len(staged)
      BY <1>3, <1>6
    <3>2. p # t.p
      <4>1. Len(staged) + 1 \in DOMAIN staged'
        BY <1>6
      <4>2. QED
        BY <1>6, <3>1, <4>1
    <3>3. \A j \in DOMAIN staged : staged[j].p # p
      <4>1. \A j \in DOMAIN staged : j \in DOMAIN staged' /\ staged'[j] = staged[j]
        BY <1>6
      <4>2. QED
        BY <3>1, <4>1
    <3>4. QED
      BY <1>1, <2>1, <2>2, <3>2, <3>3 DEF StagedIsNext
  <2>5. ASSUME NEW u \in Txns
        PROVE  (\E j \in DOMAIN staged' : staged'[j] = u)
                 <=> progress'[u.p] < u.id /\ u.id <= nextBy'[u.p]
    <3>1. (\E j \in DOMAIN staged' : staged'[j] = u)
             <=> u = t \/ \E j \in DOMAIN staged : staged[j] = u
      <4>1. DOMAIN staged' = DOMAIN staged \cup {Len(staged) + 1}
        BY <1>3, <1>6
      <4>2. \A j \in DOMAIN staged : staged'[j] = staged[j]
        BY <1>3, <1>6
      <4>3. QED
        BY <1>6, <4>1, <4>2
    <3>2. u.p \in Producers /\ u.id \in Nat
      BY TxnFields
    <3>3. (\E j \in DOMAIN staged : staged[j] = u)
             <=> progress[u.p] < u.id /\ u.id <= nextBy[u.p]
      BY <1>1 DEF StagedIsNext
    <3>4. progress[u.p] \in Nat /\ nextBy[u.p] \in Nat /\ nextBy[u.p] >= progress[u.p]
      BY <1>1, <1>3, <3>2 DEF StagedIsNext
    <3>5. u = t <=> u.p = t.p /\ u.id = t.id
      BY <1>2, TxnEquality
    <3>6. QED
      BY <1>2, <1>4, <2>1, <2>2, <3>1, <3>2, <3>3, <3>4, <3>5
  <2>6. \A j \in DOMAIN staged : staged[j] # t
    <3>1. ~(progress[t.p] < t.id /\ t.id <= nextBy[t.p])
      BY <1>2, <1>3, <1>4
    <3>2. QED
      BY <1>1, <1>2, <3>1 DEF StagedIsNext
  <2>7. \A i, j \in DOMAIN staged' : staged'[i] = staged'[j] => i = j
    <3>1. \A i, j \in 1..Len(staged) : staged[i] = staged[j] => i = j
      BY <1>1, <1>3 DEF StagedIsNext
    <3>2. DOMAIN staged' = 1..Len(staged') /\ DOMAIN staged = 1..Len(staged)
      BY <1>3, <1>6
    <3>3. QED
      BY <1>6, <2>6, <3>1, <3>2
  <2>8. QED
    BY <2>3, <2>4, <2>5, <2>7 DEF StagedIsNext
<1>19. OutcomesAreSafe'
  <2>1. \A i \in 1..Len(outcome) : Positive(outcome[i]) =>
            outcome[i].through <= nextBy[batch[i].p]
    BY <1>1 DEF OutcomesAreSafe, TypeOK, UnitType
  <2>2. mode = "single" => \A i \in 1..Len(outcome) : Positive(outcome[i]) =>
            outcome[i].through <= progress[batch[i].p]
    BY <1>1 DEF OutcomesAreSafe, TypeOK, UnitType
  <2>3. \A i \in 1..Len(outcome') : batch[i] \in Txns /\ batch[i].p \in Producers
            /\ outcome'[i].through \in Nat
    <3>1. \A i \in 1..Len(batch) : batch[i] \in Txns
      BY DEF TypeOK, WorkerType
    <3>2. \A i \in 1..Len(outcome') : outcome'[i] \in Outcomes
      BY <1>11
    <3>3. \A i \in 1..Len(outcome') : i \in 1..Len(batch)
      BY <1>2, <1>11
    <3>4. \A i \in 1..Len(outcome') : outcome'[i].through \in Nat
      BY <3>2 DEF Outcomes
    <3>5. QED
      BY <3>1, <3>3, <3>4, TxnFields
  <2>4. \A p \in Producers : nextBy'[p] >= nextBy[p] /\ nextBy'[p] \in Nat
            /\ nextBy[p] \in Nat
    BY <1>2, <1>3, <1>4, <1>5
  <2>5. nextBy'[t.p] = t.id
    BY <1>2, <1>3, <1>5
  <2>6. \A i \in 1..Len(outcome') : Positive(outcome'[i]) =>
            outcome'[i].through <= nextBy'[batch[i].p]
    <3>1. ASSUME NEW i \in 1..Len(outcome), Positive(outcome'[i])
          PROVE  outcome'[i].through <= nextBy'[batch[i].p]
      <4>1. i \in 1..Len(outcome') /\ outcome'[i] = outcome[i]
        BY <1>2, <1>11
      <4>2. outcome[i].through <= nextBy[batch[i].p]
        BY <2>1, <3>1, <4>1
      <4>3. QED
        BY <2>3, <2>4, <4>1, <4>2
    <3>2. outcome'[Len(outcome) + 1].through <= nextBy'[batch[Len(outcome) + 1].p]
      BY <1>2, <1>4, <1>11, <2>5
    <3>3. QED
      BY <1>2, <1>11, <3>1, <3>2
  <2>7. mode' = mode /\ batch' = batch /\ progress' = progress
        /\ DOMAIN outcome' = 1..Len(outcome')
    BY <1>5, <1>11 DEF durable
  <2>8. wpc' = "stage" => mode # "single"
    BY <1>7
  <2>9. mode = "single" => \A i \in 1..Len(outcome') :
           Positive(outcome'[i]) /\ i < Len(outcome')
             => outcome'[i].through <= progress[batch[i].p]
    BY <1>2, <1>11, <2>2
  <2>10. QED
    BY <1>16, <2>6, <2>7, <2>8, <2>9 DEF OutcomesAreSafe, Positive
<1>20. QED
  BY <1>5, <1>9, <1>14, <1>15, <1>17, <1>18, <1>19, FrameStore, FrameBarrier
  DEF durable, barrier, admission, maintenance, told

LEMMA StageRequestStep ==
  ASSUME IInv, StageRequest
  PROVE  IInv'
  BY StageRejected, StageAccepted

\* A thread that works on requests keeps every rewrite out.
LEMMA WorkExcludesRewrites ==
  ASSUME IInv, batch # <<>>
  PROVE  /\ \A m \in Maintainers : mpc[m] \notin {"window", "stored"}
         /\ ~Replacing
<1>1. Len(batch) \in Nat /\ Len(batch) > 0 /\ readers \in Nat
  BY DEF IInv, TypeOK, WorkerType, AdmissionType
<1>2. Submitting \in Nat /\ Queued \in Nat
  BY DEF Submitting, Queued, IInv, TypeOK, AdmissionType
<1>3. readers > 0
  BY <1>1, <1>2 DEF IInv, IndInv, BarrierCounts
<1>4. QED
  BY <1>3 DEF IInv, IndInv, OneWriter, Replacing

LEMMA RollBackStep ==
  ASSUME IInv, InDoubt,
         NEW decided \in Seq(Outcomes), Len(decided) < Len(batch),
         mode = "single" => \A i \in DOMAIN decided : Positive(decided[i]) =>
                               decided[i].through <= progress[batch[i].p],
         RollBack(decided), faults' \in Nat
  PROVE  IInv'
<1> USE DEF IInv, IndInv
<1>1. /\ UNCHANGED <<rows, progress, epoch, instance, cache>>
      /\ nextSeq' = undoSeq /\ scene' = undoScene /\ mode' = "single"
      /\ outcome' = Retried(decided) /\ BeginUnit
      /\ wpc' = IF Len(outcome') < Len(batch) THEN "stage" ELSE "checkpoint"
      /\ UNCHANGED <<barrier, admission, batch, final, cpt, maintenance, told, crashes>>
  BY DEF RollBack, ReturnSequences, RestoreScene
<1>2. DurableType' /\ JournalType' /\ CacheIsFresh'
  BY <1>1, FrameTypes, FrameStore DEF TypeOK, durable, JournalType, UnitType
<1>3. staged' = <<>> /\ undoSeq' = undoSeq /\ nextBy' = progress' /\ StagedIsNext'
      /\ nextBy' \in [Producers -> Nat] /\ undoSeq' \in Nat \ {0}
      /\ undoScene' \in [Keys -> Txns \cup {None}] /\ Len(staged') = 0
  BY <1>1, <1>2, BeginUnitFacts
<1>4. batch # <<>> /\ Len(batch) \in Nat /\ Len(batch) > 0 /\ batch \in Seq(Txns)
  BY DEF InDoubt, Phases, TypeOK, WorkerType
<1>5. Failed \in Outcomes /\ ~Positive(Failed)
  BY DEF Failed, Outcomes, Positive
<1>6. /\ outcome' \in Seq(Outcomes) /\ Len(outcome') \in 0..Len(batch)
      /\ \A i \in 1..Len(outcome') : Positive(outcome'[i]) =>
             outcome'[i].through <= progress[batch[i].p]
  <2>1. CASE mode = "group"
    BY <1>1, <1>4, <2>1 DEF Retried
  <2>2. CASE mode = "single"
    <3>1. outcome' = Append(decided, Failed)
      BY <1>1, <2>2 DEF Retried
    <3>2. /\ Len(outcome') = Len(decided) + 1 /\ outcome' \in Seq(Outcomes)
          /\ \A i \in 1..Len(decided) : outcome'[i] = decided[i]
          /\ outcome'[Len(decided) + 1] = Failed /\ Len(decided) \in Nat
      BY <1>5, <3>1
    <3>3. \A i \in 1..Len(decided) : Positive(decided[i]) =>
             decided[i].through <= progress[batch[i].p]
      BY <2>2
    <3>4. QED
      BY <1>4, <1>5, <3>2, <3>3
  <2>3. QED
    BY <2>1, <2>2 DEF TypeOK, UnitType
<1>7. WorkerType' /\ UnitType'
  BY <1>1, <1>3, <1>6 DEF TypeOK, WorkerType, UnitType
<1>8. CountersType'
  BY <1>1 DEF TypeOK, CountersType, maintenance
<1>9. TypeOK'
  BY <1>1, <1>2, <1>7, <1>8, FrameTypes DEF TypeOK, barrier, admission, maintenance, told
<1>10. Phases'
  BY <1>1, <1>3, <1>4, <1>6 DEF Phases, admission, InDoubt, Threaded, journal
<1>11. Numbered'
  <2>1. ~Replacing /\ DOMAIN rows = 1..undoSeq - 1
    BY <1>4, WorkExcludesRewrites DEF Numbered, LogHasNoHoles
  <2>2. DOMAIN rows' = 1..(IF InDoubt' THEN undoSeq' ELSE nextSeq') - 1
    BY <1>1, <1>3, <2>1
  <2>3. QED
    BY <1>1, <1>2, <1>3, <2>2 DEF Numbered, LogHasNoHoles, JournalType
<1>12. OutcomesAreSafe'
  <2>1. DOMAIN outcome' = 1..Len(outcome') /\ batch' = batch /\ progress' = progress
    BY <1>1, <1>6
  <2>2. wpc' # "persist"
    BY <1>1
  <2>3. QED
    BY <1>3, <1>6, <2>1, <2>2 DEF OutcomesAreSafe, Positive
<1>13. QED
  BY <1>1, <1>2, <1>3, <1>9, <1>10, <1>11, <1>12, FrameStore, FrameBarrier
  DEF durable, barrier, admission, maintenance, told

LEMMA StageFailsStep ==
  ASSUME IInv, StageFails
  PROVE  IInv'
<1>1. wpc = "stage" /\ InDoubt /\ RollBack(outcome) /\ faults' \in Nat
  BY DEF StageFails, InDoubt, IInv, TypeOK, CountersType
<1>2. outcome \in Seq(Outcomes) /\ Len(outcome) < Len(batch)
  BY <1>1 DEF IInv, IndInv, TypeOK, UnitType, Phases
<1>3. mode = "single" => \A i \in DOMAIN outcome : Positive(outcome[i]) =>
         outcome[i].through <= progress[batch[i].p]
  BY <1>1 DEF IInv, IndInv, OutcomesAreSafe
<1>4. QED
  BY <1>1, <1>2, <1>3, RollBackStep

LEMMA PersistFailsStep ==
  ASSUME IInv, PersistFails
  PROVE  IInv'
<1> DEFINE decided == SubSeq(outcome, 1, Len(outcome) - 1)
<1>1. wpc = "persist" /\ InDoubt /\ RollBack(decided) /\ faults' \in Nat
  BY DEF PersistFails, InDoubt, IInv, TypeOK, CountersType
<1>2. outcome \in Seq(Outcomes) /\ Len(outcome) \in 1..Len(batch) /\ Len(batch) \in Nat
  BY <1>1 DEF IInv, IndInv, TypeOK, UnitType, WorkerType, Phases
<1>3. decided \in Seq(Outcomes) /\ Len(decided) = Len(outcome) - 1
      /\ \A i \in 1..Len(decided) : decided[i] = outcome[i]
  <2>1. \A i \in 1..Len(outcome) - 1 : outcome[i] \in Outcomes
    BY <1>2
  <2>2. Len(outcome) - 1 \in Int /\ 1 \in Int
    BY <1>2
  <2>3. /\ decided \in Seq(Outcomes)
        /\ Len(decided) = IF 1 <= Len(outcome) - 1 THEN Len(outcome) - 1 - 1 + 1 ELSE 0
        /\ \A i \in 1..Len(outcome) - 1 - 1 + 1 : decided[i] = outcome[1 + i - 1]
    BY <2>1, <2>2, SubSeqProperties
  <2> HIDE DEF decided
  <2>4. Len(decided) = Len(outcome) - 1
    <3>1. PICK n \in Nat \ {0} : n = Len(outcome)
      BY <1>2
    <3>2. Len(decided) = IF 1 <= n - 1 THEN n - 1 - 1 + 1 ELSE 0
      BY <2>3, <3>1
    <3>3. Len(decided) = n - 1
      BY <3>2
    <3>4. QED
      BY <3>1, <3>3
  <2>5. ASSUME NEW i \in 1..Len(decided) PROVE decided[i] = outcome[i]
    <3>1. i \in 1..Len(outcome) - 1 - 1 + 1 /\ 1 + i - 1 = i
      BY <1>2, <2>4
    <3>2. QED
      BY <2>3, <3>1
  <2>6. QED
    BY <2>3, <2>4, <2>5
<1>4. mode = "single" => \A i \in 1..Len(outcome) :
         Positive(outcome[i]) /\ i < Len(outcome) =>
            outcome[i].through <= progress[batch[i].p]
  BY <1>1, <1>2 DEF IInv, IndInv, OutcomesAreSafe
<1>5. mode = "single" => \A i \in DOMAIN decided : Positive(decided[i]) =>
         decided[i].through <= progress[batch[i].p]
  BY <1>2, <1>3, <1>4
<1> HIDE DEF decided
<1>6. QED
  BY <1>1, <1>2, <1>3, <1>5, RollBackStep

\* Appending rows right after a log without holes leaves none.
LEMMA AppendRows ==
  ASSUME NEW f, IsTable(f), NEW first \in Nat \ {0}, NEW new \in Seq(Txns),
         DOMAIN f = 1..first - 1
  PROVE  /\ IsTable(Extend(f, first, new))
         /\ DOMAIN Extend(f, first, new) = 1..first + Len(new) - 1
<1> DEFINE g == Extend(f, first, new)
<1>1. Len(new) \in Nat
  OBVIOUS
<1>2. DOMAIN g = DOMAIN f \cup (first .. first + Len(new) - 1)
  BY DEF Extend
<1>3. DOMAIN g = 1..first + Len(new) - 1
  BY <1>1, <1>2
<1>4. IsFiniteSet(DOMAIN g)
  BY <1>1, <1>3, FS_Interval
<1>5. ASSUME NEW s \in DOMAIN g PROVE g[s] \in Txns
  <2>1. g[s] = IF s \in DOMAIN f THEN f[s] ELSE new[s - first + 1]
    BY DEF Extend
  <2>2. CASE s \in DOMAIN f
    BY <2>1, <2>2 DEF IsTable
  <2>3. CASE s \notin DOMAIN f
    <3>1. s - first + 1 \in 1..Len(new)
      BY <1>1, <1>3, <2>3
    <3>2. QED
      BY <2>1, <2>3, <3>1
  <2>4. QED
    BY <2>2, <2>3
<1>6. g = [s \in DOMAIN g |-> g[s]]
  BY DEF Extend
<1>7. DOMAIN g \subseteq Nat \ {0}
  BY <1>1, <1>3
<1> HIDE DEF g
<1>8. g \in [DOMAIN g -> Txns]
  BY <1>5, <1>6
<1>9. IsTable(g)
  BY <1>4, <1>7, <1>8 DEF IsTable
<1>10. QED
  BY <1>3, <1>9 DEF g

\* The cardinality of a log without holes.
LEMMA IntervalLength ==
  ASSUME NEW k \in Nat
  PROVE  IsFiniteSet(1..k) /\ Cardinality(1..k) = k
<1>1. IsFiniteSet(1..k) /\ Cardinality(1..k) = IF 1 > k THEN 0 ELSE k - 1 + 1
  BY FS_Interval
<1>2. QED
  BY <1>1

LEMMA LogLength ==
  ASSUME NEW n \in Nat \ {0}
  PROVE  IsFiniteSet(1..n - 1) /\ Cardinality(1..n - 1) = n - 1
<1>1. IsFiniteSet(1..n - 1)
      /\ Cardinality(1..n - 1) = IF 1 > n - 1 THEN 0 ELSE n - 1 - 1 + 1
  BY FS_Interval
<1>2. QED
  BY <1>1

\* Each producer's progress moves to what its staged requests reach.
LEMMA PersistProgress ==
  ASSUME IInv, Persist
  PROVE  /\ progress' = nextBy
         /\ progress' \in [Producers -> Nat]
         /\ \A p \in Producers : progress'[p] >= progress[p]
<1>1. nextBy \in [Producers -> Nat] /\ progress \in [Producers -> Nat]
  BY DEF IInv, TypeOK, UnitType, DurableType
<1>2. \A p \in Producers : nextBy[p] >= progress[p]
  BY DEF IInv, IndInv, StagedIsNext, InDoubt, Persist
<1>3. progress' = [p \in Producers |->
                     IF nextBy[p] > progress[p] THEN nextBy[p] ELSE progress[p]]
  BY DEF Persist
<1>4. \A p \in Producers : progress'[p] = nextBy[p]
  BY <1>1, <1>2, <1>3
<1>5. progress' = nextBy
  BY <1>1, <1>3, <1>4
<1>6. QED
  BY <1>1, <1>2, <1>5

LEMMA PersistStep ==
  ASSUME IInv, Persist
  PROVE  IInv'
<1> USE DEF IInv, IndInv
<1>1. wpc = "persist" /\ InDoubt /\ wpc' = "publish" /\ ~InDoubt'
  BY DEF Persist, InDoubt
<1>2. /\ UNCHANGED <<nextSeq, epoch, scene, instance, barrier, admission, batch,
                     final, unit, cpt, maintenance, acked, granted, published,
                     faults, crashes>>
      /\ rows' = Extend(rows, undoSeq, staged)
  BY DEF Persist
<1>3. /\ progress' = nextBy /\ progress' \in [Producers -> Nat]
      /\ \A p \in Producers : progress'[p] >= progress[p]
  BY PersistProgress
<1>4. /\ staged \in Seq(Txns) /\ Len(staged) \in Nat /\ undoSeq \in Nat \ {0}
      /\ nextSeq = undoSeq + Len(staged) /\ progress \in [Producers -> Nat]
      /\ nextBy \in [Producers -> Nat]
  BY <1>1 DEF TypeOK, UnitType, Numbered, DurableType
<1>5. batch # <<>> /\ batch \in Seq(Txns) /\ Len(outcome) \in 1..Len(batch)
  BY <1>1 DEF Phases, TypeOK, WorkerType
<1>6. ~Replacing /\ DOMAIN rows = 1..undoSeq - 1
  BY <1>1, <1>5, WorkExcludesRewrites DEF Numbered, LogHasNoHoles
<1>7. IsTable(rows') /\ DOMAIN rows' = 1..undoSeq + Len(staged) - 1
  BY <1>2, <1>4, <1>6, AppendRows DEF TypeOK, DurableType
<1>8. DOMAIN rows' = 1..nextSeq - 1 /\ nextSeq \in Nat \ {0}
  BY <1>4, <1>7
<1>9. Cardinality(DOMAIN rows') = nextSeq - 1
  BY <1>8, LogLength
<1>10. IsTable(rows)'
  BY <1>7 DEF IsTable
<1>11. DurableType'
  BY <1>3, <1>10 DEF DurableType
<1>12. cache' \in [Producers -> Nat \cup {None}] /\ CacheIsFresh'
  <2>1. \A p \in Producers : cache'[p] =
          IF \E j \in DOMAIN staged : staged[j].p = p THEN nextBy[p] ELSE cache[p]
    BY DEF Persist
  <2>2. \A p \in Producers : (~ \E j \in DOMAIN staged : staged[j].p = p)
           => nextBy[p] = progress[p]
    BY <1>1 DEF StagedIsNext
  <2>3. \A p \in Producers : cache[p] \in {None, progress[p]}
    BY DEF CacheIsFresh
  <2>4. \A p \in Producers : cache'[p] \in {None, nextBy[p]}
    BY <2>1, <2>2, <2>3
  <2>5. CacheIsFresh'
    BY <1>3, <2>4 DEF CacheIsFresh
  <2>6. cache' = [p \in Producers |-> cache'[p]]
    BY DEF Persist
  <2>7. QED
    BY <1>4, <2>4, <2>5, <2>6
<1>13. JournalType'
  BY <1>2, <1>12 DEF TypeOK, JournalType
<1>14. \A t \in Txns : writes'[t] = writes[t]
          + (IF \E j \in DOMAIN staged : staged[j] = t THEN 1 ELSE 0)
       /\ writes[t] \in Nat
  <2>1. SUFFICES ASSUME NEW t \in Txns
                 PROVE  Cardinality({j \in DOMAIN staged : staged[j] = t})
                          = IF \E j \in DOMAIN staged : staged[j] = t THEN 1 ELSE 0
    BY DEF Persist, TypeOK, ToldType
  <2>2. CASE \E j \in DOMAIN staged : staged[j] = t
    <3>1. PICK j \in DOMAIN staged : staged[j] = t
      BY <2>2
    <3>2. {i \in DOMAIN staged : staged[i] = t} = {j}
      BY <1>1, <3>1 DEF StagedIsNext
    <3>3. QED
      BY <2>2, <3>2, FS_Singleton
  <2>3. CASE ~ \E j \in DOMAIN staged : staged[j] = t
    <3>1. {i \in DOMAIN staged : staged[i] = t} = {}
      BY <2>3
    <3>2. QED
      BY <2>3, <3>1, FS_EmptySet
  <2>4. QED
    BY <2>2, <2>3
<1>15. ExactlyOnce'
  <2>1. SUFFICES ASSUME NEW t \in Txns
                 PROVE  writes'[t] = IF t.id <= progress'[t.p] THEN 1 ELSE 0
    BY DEF ExactlyOnce
  <2>2. t.p \in Producers /\ t.id \in Nat
    BY TxnFields
  <2>3. progress[t.p] \in Nat /\ nextBy[t.p] \in Nat /\ nextBy[t.p] >= progress[t.p]
        /\ progress'[t.p] = nextBy[t.p]
    BY <1>3, <1>4, <2>2
  <2>4. (\E j \in DOMAIN staged : staged[j] = t)
           <=> progress[t.p] < t.id /\ t.id <= nextBy[t.p]
    BY <1>1 DEF StagedIsNext
  <2>5. writes[t] = IF t.id <= progress[t.p] THEN 1 ELSE 0
    BY DEF ExactlyOnce
  <2>6. QED
    BY <1>14, <2>2, <2>3, <2>4, <2>5
<1>16. ToldType'
  <2>1. writes' = [t \in Txns |-> writes'[t]]
    BY DEF Persist
  <2>2. \A t \in Txns : writes'[t] \in Nat
    BY <1>14
  <2>3. writes' \in [Txns -> Nat]
    BY <2>1, <2>2
  <2>4. QED
    BY <1>2, <2>3 DEF TypeOK, ToldType
<1>17. WorkerType'
  BY <1>1, <1>2 DEF TypeOK, WorkerType
<1>18. TypeOK'
  BY <1>2, <1>11, <1>13, <1>16, <1>17, FrameTypes
  DEF TypeOK, barrier, admission, maintenance, unit
<1>19. AckIsDurable'
  <2>1. \A p \in Producers : acked[p] <= progress[p] /\ acked[p] \in Nat
    BY DEF AckIsDurable, TypeOK, ToldType
  <2>2. \A p \in Producers : progress[p] \in Nat /\ progress'[p] \in Nat
    BY <1>3, <1>4
  <2>3. \A p \in Producers : acked[p] <= progress'[p]
    BY <1>3, <2>1, <2>2
  <2>4. QED
    BY <1>2, <2>3 DEF AckIsDurable
<1>20. Phases'
  BY <1>1, <1>2, <1>5 DEF Phases, unit, admission, Threaded, journal
<1>21. Numbered'
  BY <1>1, <1>2, <1>8, <1>9 DEF Numbered, LogHasNoHoles
<1>22. StagedIsNext'
  BY <1>1 DEF StagedIsNext
<1>23. OutcomesAreSafe'
  BY <1>1, <1>2, <1>3 DEF OutcomesAreSafe, unit, Positive
<1>24. QED
  BY <1>2, <1>12, <1>15, <1>18, <1>19, <1>20, <1>21, <1>22, <1>23, FrameBarrier
  DEF barrier, admission, maintenance

-----------------------------------------------------------------------------
(* Publication and child replay.                                           *)

\* The increasing enumeration of a finite set is a sequence over it.
LEMMA InOrderIsSequence ==
  ASSUME NEW S, IsFiniteSet(S), NEW g \in InOrder(S)
  PROVE  g \in Seq(S) /\ Len(g) = Cardinality(S) /\ Len(g) \in Nat
<1>1. Cardinality(S) \in Nat
  BY FS_CardinalityType
<1>2. g \in [1..Cardinality(S) -> S]
  BY DEF InOrder
<1>3. QED
  BY <1>1, <1>2

LEMMA StagedSeqsAreFinite ==
  ASSUME IInv, NEW T
  PROVE  IsFiniteSet(StagedSeqs(T)) /\ StagedSeqs(T) \subseteq Nat
<1>1. undoSeq \in Nat /\ Len(staged) \in Nat
  BY DEF IInv, TypeOK, UnitType
<1>2. StagedSeqs(T) \subseteq undoSeq .. undoSeq + Len(staged) - 1
  BY DEF StagedSeqs
<1>3. IsFiniteSet(undoSeq .. undoSeq + Len(staged) - 1)
  BY <1>1, FS_Interval
<1>4. QED
  BY <1>1, <1>2, <1>3, FS_Subset

LEMMA PlusZero == \A n \in Nat \ {0} : n + 0 = n
  OBVIOUS

\* What the end of a unit needs of the rows that publication may have added.
LEMMA EndUnitStep ==
  ASSUME IInv, wpc \in {"publish", "load", "children"},
         UNCHANGED <<progress, epoch, cache, scene, instance>>,
         IsTable(rows'), nextSeq' \in Nat \ {0}, DOMAIN rows' = 1..nextSeq' - 1,
         EndUnit, faults' \in Nat, published' \in Seq(Nat),
         UNCHANGED <<barrier, admission, batch, final, cpt, maintenance, writes,
                     acked, granted, crashes>>
  PROVE  IInv'
<1> USE DEF IInv, IndInv
<1>1. /\ UNCHANGED <<outcome, mode>> /\ BeginUnit
      /\ wpc' = IF Len(outcome) < Len(batch) THEN "stage" ELSE "checkpoint"
  BY DEF EndUnit
<1>2. DurableType' /\ JournalType' /\ CacheIsFresh'
  BY FrameStore DEF TypeOK, DurableType, IsTable, JournalType
<1>3. staged' = <<>> /\ undoSeq' = nextSeq' /\ nextBy' = progress' /\ StagedIsNext'
      /\ nextBy' \in [Producers -> Nat] /\ undoSeq' \in Nat \ {0}
      /\ undoScene' \in [Keys -> Txns \cup {None}] /\ Len(staged') = 0
  BY <1>1, <1>2, BeginUnitFacts
<1>4. /\ batch # <<>> /\ Len(batch) \in Nat /\ Len(outcome) \in 1..Len(batch)
      /\ mode = "group" => Len(outcome) = Len(batch)
  BY DEF Phases, TypeOK, WorkerType
<1>5. WorkerType' /\ UnitType'
  BY <1>1, <1>3 DEF TypeOK, WorkerType, UnitType
<1>6. ToldType' /\ CountersType'
  BY DEF TypeOK, ToldType, CountersType, maintenance
<1>7. TypeOK'
  BY <1>2, <1>5, <1>6, FrameTypes DEF TypeOK, barrier, admission, maintenance
<1>8. Phases'
  BY <1>1, <1>3, <1>4 DEF Phases, admission, Threaded, journal
<1>9. Numbered'
  <2>1. Cardinality(DOMAIN rows') = nextSeq' - 1
    BY LogLength
  <2>2. nextSeq' = undoSeq' + Len(staged')
    <3>1. undoSeq' = nextSeq' /\ Len(staged') = 0
      BY <1>3
    <3>2. QED
      BY <3>1, PlusZero
  <2>3. LogHasNoHoles'
    BY <1>3 DEF LogHasNoHoles
  <2>4. QED
    BY <2>1, <2>2, <2>3 DEF Numbered
<1>10. OutcomesAreSafe'
  <2>1. ~InDoubt /\ wpc' # "persist"
    BY <1>1 DEF InDoubt
  <2>2. QED
    BY <1>1, <1>3, <2>1 DEF OutcomesAreSafe, Positive
<1>11. QED
  BY <1>2, <1>3, <1>7, <1>8, <1>9, <1>10, FrameStore, FrameBarrier
  DEF barrier, admission, maintenance

\* The log when no commit is undecided: no rewrite can be under way.
LEMMA SettledLog ==
  ASSUME IInv, wpc \in {"publish", "load", "children", "checkpoint", "complete"}
  PROVE  /\ DOMAIN rows = 1..nextSeq - 1 /\ nextSeq \in Nat \ {0} /\ IsTable(rows)
         /\ batch # <<>> /\ ~InDoubt
  BY WorkExcludesRewrites DEF IInv, IndInv, Phases, Numbered, LogHasNoHoles, InDoubt,
     TypeOK, JournalType, DurableType

LEMMA PublishStep ==
  ASSUME IInv, Publish
  PROVE  IInv'
<1>1. published' \in Seq(Nat)
  <2>1. published \in Seq(Nat)
    BY DEF IInv, TypeOK, ToldType
  <2>2. CASE \E g \in InOrder(StagedSeqs(Txns \ Loads)) : published' = published \o g
    <3>1. PICK g \in InOrder(StagedSeqs(Txns \ Loads)) : published' = published \o g
      BY <2>2
    <3>2. g \in Seq(Nat)
      BY StagedSeqsAreFinite, InOrderIsSequence
    <3>3. QED
      BY <2>1, <3>1, <3>2
  <2>3. CASE UNCHANGED published
    BY <2>1, <2>3
  <2>4. QED
    BY <2>2, <2>3 DEF Publish
<1>2. faults' \in Nat
  BY DEF Publish, IInv, TypeOK, CountersType
<1>3. /\ wpc = "publish" /\ UNCHANGED <<durable, journal>>
      /\ UNCHANGED <<barrier, admission, batch, final, cpt, maintenance, writes,
                     acked, granted, crashes>>
  BY DEF Publish
<1>4. CASE EndUnit
  <2>1. /\ DOMAIN rows = 1..nextSeq - 1 /\ nextSeq \in Nat \ {0} /\ IsTable(rows)
    BY <1>3, SettledLog
  <2>2. QED
    BY <1>1, <1>2, <1>3, <1>4, <2>1, EndUnitStep DEF durable, journal
<1>5. CASE wpc' = "load" /\ UNCHANGED unit
  <2> USE DEF IInv, IndInv
  <2>1. WorkerType' /\ ToldType' /\ CountersType'
    BY <1>1, <1>2, <1>3, <1>5 DEF TypeOK, WorkerType, ToldType, CountersType, maintenance
  <2>2. TypeOK'
    BY <1>3, <1>5, <2>1, FrameTypes DEF TypeOK, barrier, admission, maintenance
  <2>3. Phases'
    BY <1>3, <1>5 DEF Phases, unit, admission, Threaded, journal
  <2>4. ~InDoubt /\ ~InDoubt'
    BY <1>3, <1>5 DEF InDoubt
  <2>5. Numbered' /\ StagedIsNext'
    BY <1>3, <2>4 DEF Numbered, LogHasNoHoles, StagedIsNext, Replacing, durable,
       journal, maintenance
  <2>6. OutcomesAreSafe'
    BY <1>3, <1>5, <2>4 DEF OutcomesAreSafe, unit, durable, Positive, InDoubt
  <2>7. QED
    BY <1>3, <2>2, <2>3, <2>5, <2>6, FrameStore, FrameBarrier
    DEF durable, journal, barrier, admission, maintenance
<1>6. QED
  BY <1>4, <1>5 DEF Publish

LEMMA PublishLoadStep ==
  ASSUME IInv, PublishLoad
  PROVE  IInv'
<1>1. published' \in Seq(Nat)
  <2>1. published \in Seq(Nat)
    BY DEF IInv, TypeOK, ToldType
  <2>2. CASE \E g \in InOrder(StagedSeqs(Loads)) : published' = published \o g
    <3>1. PICK g \in InOrder(StagedSeqs(Loads)) : published' = published \o g
      BY <2>2
    <3>2. g \in Seq(Nat)
      BY StagedSeqsAreFinite, InOrderIsSequence
    <3>3. QED
      BY <2>1, <3>1, <3>2
  <2>3. CASE UNCHANGED published
    BY <2>1, <2>3
  <2>4. QED
    BY <2>2, <2>3 DEF PublishLoad
<1>2. faults' \in Nat
  BY DEF PublishLoad, IInv, TypeOK, CountersType
<1>3. /\ wpc = "load" /\ UNCHANGED <<durable, journal>>
      /\ UNCHANGED <<barrier, admission, batch, final, cpt, maintenance, writes,
                     acked, granted, crashes>>
  BY DEF PublishLoad
<1>4. CASE EndUnit
  <2>1. /\ DOMAIN rows = 1..nextSeq - 1 /\ nextSeq \in Nat \ {0} /\ IsTable(rows)
    BY <1>3, SettledLog
  <2>2. QED
    BY <1>1, <1>2, <1>3, <1>4, <2>1, EndUnitStep DEF durable, journal
<1>5. CASE wpc' = "children" /\ UNCHANGED unit
  <2> USE DEF IInv, IndInv
  <2>1. WorkerType' /\ ToldType' /\ CountersType'
    BY <1>1, <1>2, <1>3, <1>5 DEF TypeOK, WorkerType, ToldType, CountersType, maintenance
  <2>2. TypeOK'
    BY <1>3, <1>5, <2>1, FrameTypes DEF TypeOK, barrier, admission, maintenance
  <2>3. Phases'
    BY <1>3, <1>5 DEF Phases, unit, admission, Threaded, journal
  <2>4. ~InDoubt /\ ~InDoubt'
    BY <1>3, <1>5 DEF InDoubt
  <2>5. Numbered' /\ StagedIsNext'
    BY <1>3, <2>4 DEF Numbered, LogHasNoHoles, StagedIsNext, Replacing, durable,
       journal, maintenance
  <2>6. OutcomesAreSafe'
    BY <1>3, <1>5, <2>4 DEF OutcomesAreSafe, unit, durable, Positive, InDoubt
  <2>7. QED
    BY <1>3, <2>2, <2>3, <2>5, <2>6, FrameStore, FrameBarrier
    DEF durable, journal, barrier, admission, maintenance
<1>6. QED
  BY <1>4, <1>5 DEF PublishLoad

LEMMA ReplayChildrenStep ==
  ASSUME IInv, ReplayChildren
  PROVE  IInv'
<1>1. /\ DOMAIN rows = 1..nextSeq - 1 /\ nextSeq \in Nat \ {0} /\ IsTable(rows)
      /\ published \in Seq(Nat) /\ wpc = "children"
  BY SettledLog DEF ReplayChildren, IInv, TypeOK, ToldType
<1>2. IsFiniteSet(ChildWrites(rows)) /\ ChildWrites(rows) \subseteq DOMAIN rows
  <2>1. ChildWrites(rows) \subseteq DOMAIN rows
    BY DEF ChildWrites, LastWrites
  <2>2. QED
    BY <1>1, <2>1, FS_Subset DEF IsTable
<1>3. /\ IsTable(rows') /\ nextSeq' \in Nat \ {0} /\ DOMAIN rows' = 1..nextSeq' - 1
      /\ published' \in Seq(Nat)
  <2>1. CASE UNCHANGED <<rows, nextSeq, published>>
    BY <1>1, <2>1
  <2>2. CASE ~UNCHANGED <<rows, nextSeq, published>>
    <3>1. PICK g \in InOrder(ChildWrites(rows)) :
            /\ rows' = Extend(rows, nextSeq, [j \in 1..Len(g) |-> rows[g[j]]])
            /\ nextSeq' = nextSeq + Len(g)
            /\ published' = published \o [j \in 1..Len(g) |-> nextSeq + j - 1]
      BY <2>2 DEF ReplayChildren
    <3>2. g \in Seq(ChildWrites(rows)) /\ Len(g) \in Nat
      BY <1>2, InOrderIsSequence
    <3> DEFINE new == [j \in 1..Len(g) |-> rows[g[j]]]
               sent == [j \in 1..Len(g) |-> nextSeq + j - 1]
    <3>3. \A j \in 1..Len(g) : rows[g[j]] \in Txns
      BY <1>1, <1>2, <3>2 DEF IsTable
    <3>4. new \in Seq(Txns) /\ Len(new) = Len(g)
      BY <3>2, <3>3
    <3>5. \A j \in 1..Len(g) : nextSeq + j - 1 \in Nat
      BY <1>1, <3>2
    <3>6. sent \in Seq(Nat)
      BY <3>2, <3>5
    <3>7. rows' = Extend(rows, nextSeq, new) /\ published' = published \o sent
      BY <3>1
    <3> HIDE DEF new, sent
    <3>8. IsTable(rows') /\ DOMAIN rows' = 1..nextSeq + Len(g) - 1
      BY <1>1, <3>4, <3>7, AppendRows
    <3>9. published' \in Seq(Nat)
      BY <1>1, <3>6, <3>7
    <3>10. QED
      BY <1>1, <3>1, <3>2, <3>8, <3>9
  <2>3. QED
    BY <2>1, <2>2
<1>4. faults' \in Nat
  BY DEF ReplayChildren, IInv, TypeOK, CountersType
<1>5. QED
  BY <1>1, <1>3, <1>4, EndUnitStep DEF ReplayChildren

-----------------------------------------------------------------------------
(* Completion.                                                             *)

LEMMA MaxSeqType ==
  ASSUME NEW n \in Nat \ {0}, NEW f, DOMAIN f = 1..n - 1
  PROVE  MaxSeq(f) = n - 1
<1>1. CASE n = 1
  BY <1>1 DEF MaxSeq
<1>2. CASE n # 1
  <2>1. n - 1 \in DOMAIN f /\ \A t \in DOMAIN f : t <= n - 1
    BY <1>2
  <2>2. DOMAIN f # {} /\ \E s \in DOMAIN f : \A t \in DOMAIN f : t <= s
    BY <2>1
  <2>3. MaxSeq(f) \in DOMAIN f /\ \A t \in DOMAIN f : t <= MaxSeq(f)
    BY <2>2 DEF MaxSeq
  <2>4. MaxSeq(f) \in 1..n - 1 /\ n - 1 <= MaxSeq(f)
    BY <2>1, <2>3
  <2>5. QED
    BY <2>4
<1>3. QED
  BY <1>1, <1>2

LEMMA CheckpointStep ==
  ASSUME IInv, Checkpoint
  PROVE  IInv'
<1> USE DEF IInv, IndInv, Checkpoint
<1>1. DOMAIN rows = 1..nextSeq - 1 /\ nextSeq \in Nat \ {0} /\ epoch \in Nat
  BY SettledLog DEF TypeOK, JournalType
<1>2. MaxSeq(rows) \in Nat
  BY <1>1, MaxSeqType
<1>3. cpt' \in [epoch : Nat, head : Nat] \cup {None}
  BY <1>1, <1>2
<1>4. WorkerType' /\ CountersType'
  BY <1>3 DEF TypeOK, WorkerType, CountersType, maintenance
<1>5. TypeOK'
  BY <1>4, FrameTypes DEF TypeOK, durable, journal, barrier, admission, unit,
     maintenance, told
<1>6. Phases'
  BY DEF Phases, unit, admission, Threaded, journal
<1>7. ~InDoubt /\ ~InDoubt'
  BY DEF InDoubt
<1>8. Numbered' /\ StagedIsNext'
  BY <1>7 DEF Numbered, LogHasNoHoles, StagedIsNext, Replacing, durable, journal,
     maintenance
<1>9. OutcomesAreSafe'
  BY <1>7 DEF OutcomesAreSafe, unit, durable, Positive, InDoubt
<1>10. QED
  BY <1>5, <1>6, <1>8, <1>9, FrameStore, FrameBarrier
  DEF durable, journal, barrier, admission, maintenance, told

LEMMA CompleteStep ==
  ASSUME IInv, Complete
  PROVE  IInv'
<1> USE DEF IInv, IndInv
<1>1. /\ wpc = "complete" /\ readers' = readers - 1
      /\ batch' = Tail(batch) /\ outcome' = Tail(outcome)
      /\ UNCHANGED <<durable, journal, exclusive, stopping, queue, maintenance,
                     writes, published, faults, crashes>>
  BY DEF Complete, ReleaseShared
<1>2. /\ batch \in Seq(Txns) /\ outcome \in Seq(Outcomes) /\ batch # <<>>
      /\ Len(outcome) = Len(batch) /\ Len(batch) \in Nat /\ Len(batch) >= 1
      /\ outcome # <<>>
  BY <1>1 DEF Phases, TypeOK, WorkerType, UnitType
<1>3. /\ batch' \in Seq(Txns) /\ outcome' \in Seq(Outcomes)
      /\ Len(batch') = Len(batch) - 1 /\ Len(outcome') = Len(batch')
      /\ \A i \in 1..Len(batch') : batch'[i] = batch[i + 1] /\ outcome'[i] = outcome[i + 1]
      /\ Head(batch) = batch[1] /\ Head(outcome) = outcome[1]
  BY <1>1, <1>2
<1>4. Head(batch) \in Txns /\ Head(batch).p \in Producers /\ Head(batch).id \in Ids
      /\ Head(outcome) \in Outcomes /\ Head(outcome).through \in Nat
  <2>1. 1 \in 1..Len(batch) /\ 1 \in 1..Len(outcome)
    BY <1>2
  <2>2. batch[1] \in Txns /\ outcome[1] \in Outcomes
    BY <1>2, <2>1
  <2>3. batch[1].p \in Producers /\ batch[1].id \in Ids /\ outcome[1].through \in Nat
    BY <2>2 DEF Txns, Outcomes
  <2>4. QED
    BY <1>3, <2>2, <2>3
<1>5. /\ acked' = IF Head(outcome).status \in {"committed", "duplicate"}
                     /\ Head(outcome).through > acked[Head(batch).p]
                  THEN [acked EXCEPT ![Head(batch).p] = Head(outcome).through]
                  ELSE acked
      /\ granted' = IF Head(outcome).status = "committed" /\ cpt # None
                    THEN [granted EXCEPT ![Head(batch).p] =
                            [id |-> Head(batch).id, instance |-> instance,
                             epoch |-> cpt.epoch, head |-> cpt.head]]
                    ELSE granted
  BY DEF Complete
<1>6. ToldType'
  <2>1. acked' \in [Producers -> Nat]
    BY <1>4, <1>5 DEF TypeOK, ToldType
  <2>2. cpt # None => cpt.epoch \in Nat /\ cpt.head \in Nat /\ instance \in Nat
    BY DEF TypeOK, WorkerType, JournalType
  <2>3. granted' \in [Producers ->
                    [id : Ids, instance : Nat, epoch : Nat, head : Nat] \cup {None}]
    BY <1>4, <1>5, <2>2 DEF TypeOK, ToldType
  <2>4. QED
    BY <1>1, <2>1, <2>3 DEF TypeOK, ToldType
<1>7. AckIsDurable'
  <2>1. \A p \in Producers : acked[p] <= progress[p]
    BY DEF AckIsDurable
  <2>2. Positive(outcome[1]) => outcome[1].through <= progress[batch[1].p]
    BY <1>1, <1>2 DEF OutcomesAreSafe, InDoubt
  <2>3. \A p \in Producers : acked'[p] = acked[p] \/
          (p = Head(batch).p /\ Positive(Head(outcome)) /\ acked'[p] = Head(outcome).through)
    BY <1>4, <1>5 DEF TypeOK, ToldType, Positive
  <2>4. QED
    BY <1>1, <1>3, <2>1, <2>2, <2>3 DEF AckIsDurable, durable
<1>8. /\ Len(batch) > 1 =>
           UNCHANGED <<wpc, final, cpt, admitting, mode, staged, nextBy, undoSeq,
                       undoScene>>
      /\ Len(batch) = 1 =>
           /\ wpc' = AfterBatch /\ final' = FALSE /\ cpt' = None
           /\ admitting' = IF Threaded THEN admitting ELSE None
           /\ NoUnit
      /\ Len(batch) > 1 \/ Len(batch) = 1
  BY <1>2 DEF Complete
<1>9. UnitType' /\ WorkerType'
  <2>1. CASE Len(batch) > 1
    <3>1. UNCHANGED <<wpc, final, cpt, mode, staged, nextBy, undoSeq, undoScene>>
      BY <1>8, <2>1
    <3>2. QED
      BY <1>3, <3>1 DEF TypeOK, UnitType, WorkerType
  <2>2. CASE Len(batch) = 1
    <3>1. wpc' = AfterBatch /\ final' = FALSE /\ cpt' = None /\ NoUnit
      BY <1>8, <2>2
    <3>2. <<>> \in Seq(Txns)
      OBVIOUS
    <3>3. UnitType'
      BY <1>3, <3>1, <3>2 DEF UnitType, NoUnit
    <3>4. WorkerType'
      BY <1>3, <3>1 DEF WorkerType, AfterBatch
    <3>5. QED
      BY <3>3, <3>4
  <2>3. QED
    BY <1>2, <2>1, <2>2
<1>10. readers \in Nat /\ readers - 1 \in Nat
       /\ readers = Submitting + Queued + Len(batch)
       /\ Submitting \in Nat /\ Queued \in Nat
  <2>1. Submitting \in Nat /\ Queued \in Nat
    BY DEF Submitting, Queued, TypeOK, AdmissionType
  <2>2. QED
    BY <1>2, <2>1 DEF BarrierCounts
<1>11. admitting' \in Txns \cup {None}
  BY <1>8 DEF TypeOK, AdmissionType
<1>12. AdmissionType'
  BY <1>1, <1>10, <1>11 DEF TypeOK, AdmissionType
<1>13. TypeOK'
  BY <1>1, <1>6, <1>9, <1>12, FrameTypes DEF TypeOK, maintenance
<1>14. MarkerIsLast'
  BY <1>1, <1>8 DEF MarkerIsLast
<1>15. BarrierCounts'
  <2>1. Queued' = Queued
    BY <1>1 DEF Queued
  <2>2. Submitting' = Submitting
    <3>1. CASE Threaded
      BY <1>1, <1>8, <3>1 DEF Submitting, Threaded, journal
    <3>2. CASE ~Threaded
      <4>1. Submitting = 0
        BY <1>2, <3>2 DEF Submitting
      <4>2. CASE Len(batch) > 1
        <5>1. batch' # <<>>
          BY <1>2, <1>3, <4>2
        <5>2. ~Threaded'
          BY <1>1, <3>2 DEF Threaded, journal
        <5>3. QED
          BY <4>1, <5>1, <5>2 DEF Submitting
      <4>3. CASE Len(batch) = 1
        BY <1>8, <3>2, <4>1, <4>3 DEF Submitting
      <4>4. QED
        BY <1>2, <4>2, <4>3
    <3>3. QED
      BY <3>1, <3>2
  <2>3. QED
    BY <1>1, <1>2, <1>3, <1>10, <2>1, <2>2 DEF BarrierCounts
<1>16. OneWriter'
  BY <1>1, <1>10, WorkExcludesRewrites, <1>2 DEF OneWriter, Holding, maintenance
<1>17. Phases'
  <2>1. CASE Len(batch) > 1
    <3>1. wpc' = "complete" /\ UNCHANGED <<admitting, mode, staged>>
      BY <1>1, <1>8, <2>1
    <3>2. Len(batch') # 0
      BY <1>2, <1>3, <2>1
    <3>3. batch' # <<>> /\ batch # <<>>
      BY <1>2, <3>2
    <3>4. QED
      BY <1>1, <1>3, <3>1, <3>3 DEF Phases, Threaded, journal
  <2>2. CASE Len(batch) = 1
    <3>1. batch' = <<>> /\ outcome' = <<>> /\ wpc' \in {"idle", "stopped"}
      BY <1>1, <1>3, <1>8, <2>2 DEF AfterBatch
    <3>2. QED
      BY <3>1 DEF Phases
  <2>3. QED
    BY <1>2, <2>1, <2>2
<1>18. ~InDoubt /\ ~InDoubt'
  BY <1>1, <1>8 DEF InDoubt, AfterBatch
<1>19. Numbered' /\ StagedIsNext'
  BY <1>1, <1>18 DEF Numbered, LogHasNoHoles, StagedIsNext, Replacing, durable,
     journal, maintenance
<1>20. OutcomesAreSafe'
  <2>1. \A i \in 1..Len(batch) : Positive(outcome[i]) =>
           outcome[i].through <= progress[batch[i].p]
    BY <1>2, <1>18 DEF OutcomesAreSafe
  <2>2. \A i \in 1..Len(batch') : i + 1 \in 1..Len(batch)
    BY <1>2, <1>3
  <2>3. \A i \in 1..Len(outcome') : Positive(outcome'[i]) =>
           outcome'[i].through <= progress[batch'[i].p]
    BY <1>3, <2>1, <2>2
  <2>4. DOMAIN outcome' = 1..Len(outcome') /\ progress' = progress
        /\ wpc' \notin {"stage", "persist"}
    BY <1>1, <1>3, <1>18 DEF durable, InDoubt
  <2>5. QED
    BY <1>18, <2>3, <2>4 DEF OutcomesAreSafe, Positive
<1>21. QED
  BY <1>1, <1>7, <1>13, <1>14, <1>15, <1>16, <1>17, <1>19, <1>20, FrameStore
  DEF durable, journal

-----------------------------------------------------------------------------
(* History rewrites.                                                       *)

\* Without readers there is no request anywhere in the coordinator.
LEMMA NoReaders ==
  ASSUME IInv, readers = 0
  PROVE  /\ admitting = None /\ batch = <<>> /\ wpc \in {"idle", "stopped"}
         /\ \A i \in DOMAIN queue : queue[i] = Stop
<1> USE DEF IInv, IndInv
<1>1. queue \in Seq(Requests) /\ Len(queue) \in Nat /\ batch \in Seq(Txns)
      /\ Len(batch) \in Nat
  BY DEF TypeOK, AdmissionType, WorkerType
<1>2. Submitting \in Nat /\ Queued \in Nat
  BY <1>1 DEF Submitting, Queued
<1>3. Submitting = 0 /\ Queued = 0 /\ Len(batch) = 0
  BY <1>1, <1>2 DEF BarrierCounts
<1>4. batch = <<>>
  BY <1>1, <1>3
<1>5. admitting = None
  BY <1>3, <1>4 DEF Submitting
<1>6. wpc \in {"idle", "stopped"}
  BY <1>4 DEF Phases
<1>7. \A i \in DOMAIN queue : queue[i] = Stop
  <2>1. CASE queue # <<>> /\ queue[Len(queue)] = Stop
    <3>1. Len(queue) = 1
      BY <1>1, <1>3, <2>1 DEF Queued
    <3>2. QED
      BY <1>1, <2>1, <3>1
  <2>2. CASE ~(queue # <<>> /\ queue[Len(queue)] = Stop)
    <3>1. Len(queue) = 0
      BY <1>3, <2>2 DEF Queued
    <3>2. QED
      BY <1>1, <3>1
  <2>3. QED
    BY <2>1, <2>2
<1>8. QED
  BY <1>4, <1>5, <1>6, <1>7

\* A step that moves one maintenance thread between phases other than "stored"
\* and leaves the rest alone.
LEMMA MoveMaintainer ==
  ASSUME IInv, NEW m \in Maintainers,
         NEW to \in {"idle", "ready", "claimed", "window"},
         mpc[m] # "stored", mpc' = [mpc EXCEPT ![m] = to],
         MaintenanceType', AdmissionType', CountersType', OneWriter',
         UNCHANGED <<durable, journal, readers, worker, admission, told>>
  PROVE  IInv'
<1> USE DEF IInv, IndInv
<1>1. TypeOK'
  BY FrameTypes DEF TypeOK, worker
<1>2. Replacing' <=> Replacing
  BY DEF Replacing, TypeOK, MaintenanceType
<1>3. Numbered'
  BY <1>2 DEF Numbered, LogHasNoHoles, InDoubt, durable, journal, worker, unit
<1>4. QED
  BY <1>1, <1>3, FrameStore, FrameBarrier DEF durable, journal, worker, unit, told,
     admission

LEMMA CaptureHistoryStep ==
  ASSUME IInv, NEW m \in Maintainers, CaptureHistory(m)
  PROVE  IInv'
<1> USE DEF IInv, IndInv, CaptureHistory
<1>1. MaintenanceType'
  <2>1. mpc' \in [Maintainers -> {"idle", "ready", "claimed", "window", "stored"}]
        /\ DOMAIN cap' = Maintainers
    BY DEF TypeOK, MaintenanceType
  <2>2. epoch \in Nat /\ IsTable(rows)
    BY DEF TypeOK, JournalType, DurableType
  <2>3. ASSUME NEW n \in Maintainers, cap'[n] # None
        PROVE  cap'[n].epoch \in Nat /\ IsTable(cap'[n].rows)
    <3>1. CASE n = m
      BY <2>2, <3>1 DEF TypeOK, MaintenanceType
    <3>2. CASE n # m
      BY <2>3, <3>2 DEF TypeOK, MaintenanceType
    <3>3. QED
      BY <3>1, <3>2
  <2>4. QED
    BY <2>1, <2>3 DEF MaintenanceType, IsTable
<1>2. AdmissionType' /\ CountersType'
  BY FrameTypes DEF TypeOK, CountersType, barrier, admission
<1>3. OneWriter'
  BY DEF OneWriter, Holding, barrier, TypeOK, MaintenanceType
<1>4. QED
  BY <1>1, <1>2, <1>3, MoveMaintainer DEF barrier

LEMMA StartPurgeStep ==
  ASSUME IInv, NEW m \in Maintainers, StartPurge(m)
  PROVE  IInv'
<1> USE DEF IInv, IndInv, StartPurge
<1>1. MaintenanceType'
  BY DEF TypeOK, MaintenanceType, IsTable
<1>2. AdmissionType' /\ CountersType'
  BY FrameTypes DEF TypeOK, CountersType, barrier, admission
<1>3. OneWriter'
  BY DEF OneWriter, Holding, barrier, TypeOK, MaintenanceType
<1>4. QED
  BY <1>1, <1>2, <1>3, MoveMaintainer DEF barrier

LEMMA ClaimBarrierStep ==
  ASSUME IInv, NEW m \in Maintainers, ClaimBarrier(m)
  PROVE  IInv'
<1> USE DEF IInv, IndInv, ClaimBarrier, ClaimExclusive
<1>1. MaintenanceType'
  BY DEF TypeOK, MaintenanceType, IsTable
<1>2. AdmissionType' /\ CountersType'
  BY FrameTypes DEF TypeOK, CountersType, AdmissionType, admission
<1>3. OneWriter'
  BY DEF OneWriter, Holding, TypeOK, MaintenanceType
<1>4. QED
  BY <1>1, <1>2, <1>3, MoveMaintainer

LEMMA EnterWindowStep ==
  ASSUME IInv, NEW m \in Maintainers, EnterWindow(m)
  PROVE  IInv'
<1> USE DEF IInv, IndInv, EnterWindow, ReadersGone
<1>1. MaintenanceType'
  BY DEF TypeOK, MaintenanceType, IsTable
<1>2. AdmissionType' /\ CountersType'
  BY FrameTypes DEF TypeOK, CountersType, barrier, admission
<1>3. OneWriter'
  BY DEF OneWriter, Holding, barrier, TypeOK, MaintenanceType
<1>4. QED
  BY <1>1, <1>2, <1>3, MoveMaintainer DEF barrier

LEMMA AbandonRewriteStep ==
  ASSUME IInv, NEW m \in Maintainers, AbandonRewrite(m)
  PROVE  IInv'
<1> USE DEF IInv, IndInv, AbandonRewrite, Leave, ReleaseExclusive
<1>1. MaintenanceType'
  BY DEF TypeOK, MaintenanceType, IsTable
<1>2. AdmissionType'
  BY DEF TypeOK, AdmissionType, admission
<1>3. CountersType'
  BY DEF TypeOK, CountersType
<1>4. OneWriter'
  BY DEF OneWriter, Holding, TypeOK, MaintenanceType
<1>5. QED
  BY <1>1, <1>2, <1>3, <1>4, MoveMaintainer

\* What a compaction stores is a log without holes.
LEMMA CompactedTable ==
  ASSUME IInv, NEW m \in Maintainers, cap[m] # None,
         NEW g \in InOrder(LastWrites(Merged(m)))
  PROVE  LET new == [i \in DOMAIN g |-> Merged(m)[g[i]]]
         IN  IsTable(new) /\ DOMAIN new = 1..Cardinality(DOMAIN new)
<1> DEFINE f == Merged(m)
           k == Cardinality(LastWrites(f))
           new == [i \in DOMAIN g |-> f[g[i]]]
<1>1. IsTable(cap[m].rows) /\ IsTable(rows)
  BY DEF IInv, TypeOK, MaintenanceType, DurableType
<1>2. DOMAIN f = DOMAIN cap[m].rows \cup {t \in DOMAIN rows : t > MaxSeq(cap[m].rows)}
  BY DEF Merged
<1>3. IsFiniteSet(DOMAIN f)
  <2>1. IsFiniteSet({t \in DOMAIN rows : t > MaxSeq(cap[m].rows)})
    BY <1>1, FS_Subset DEF IsTable
  <2>2. IsFiniteSet(DOMAIN cap[m].rows)
    BY <1>1 DEF IsTable
  <2>3. IsFiniteSet(DOMAIN cap[m].rows
                    \cup {t \in DOMAIN rows : t > MaxSeq(cap[m].rows)})
    BY <2>1, <2>2, FS_Union
  <2>4. QED
    BY <1>2, <2>3
<1>4. \A s \in DOMAIN f : f[s] \in Txns
  <2>1. \A s \in DOMAIN f :
          f[s] = IF s \in DOMAIN cap[m].rows THEN cap[m].rows[s] ELSE rows[s]
    BY DEF Merged
  <2> HIDE DEF f
  <2>2. ASSUME NEW s \in DOMAIN f PROVE f[s] \in Txns
    <3>1. CASE s \in DOMAIN cap[m].rows
      BY <1>1, <2>1, <3>1 DEF IsTable
    <3>2. CASE s \notin DOMAIN cap[m].rows
      <4>1. s \in DOMAIN rows
        BY <1>2, <3>2
      <4>2. QED
        BY <1>1, <2>1, <3>2, <4>1 DEF IsTable
    <3>3. QED
      BY <3>1, <3>2
  <2>3. QED
    BY <2>2
<1> HIDE DEF f
<1>5. LastWrites(f) \subseteq DOMAIN f
  BY DEF LastWrites
<1>6. IsFiniteSet(LastWrites(f)) /\ k \in Nat
  BY <1>3, <1>5, FS_Subset, FS_CardinalityType
<1>7. g \in [1..k -> LastWrites(f)]
  BY DEF InOrder, f
<1> HIDE DEF k
<1>8. DOMAIN new = 1..k /\ \A i \in 1..k : new[i] \in Txns
  BY <1>4, <1>5, <1>7
<1>9. IsFiniteSet(1..k) /\ Cardinality(1..k) = k
  BY <1>6, IntervalLength
<1>10. new \in [DOMAIN new -> Txns]
  BY <1>8
<1> HIDE DEF new
<1>11. IsTable(new) /\ DOMAIN new = 1..Cardinality(DOMAIN new)
  <2>1. 1..k \subseteq Nat \ {0}
    BY <1>6
  <2>2. QED
    BY <1>8, <1>9, <1>10, <2>1 DEF IsTable
<1>12. QED
  BY <1>11 DEF f, new

LEMMA RewriteStoreStep ==
  ASSUME IInv, NEW m \in Maintainers, RewriteStore(m)
  PROVE  IInv'
<1> USE DEF IInv, IndInv
<1>1. /\ mpc[m] = "window" /\ mpc' = [mpc EXCEPT ![m] = "stored"]
      /\ UNCHANGED progress
      /\ UNCHANGED <<journal, barrier, worker, admission, cap, rewrites, told,
                     faults, crashes>>
  BY DEF RewriteStore, KeepProgress
<1>2. IsTable(rows') /\ DOMAIN rows' = 1..Cardinality(DOMAIN rows')
  <2>1. CASE cap[m] = None
    <3>1. rows' = EmptyRows
      BY <2>1 DEF RewriteStore
    <3>2. DOMAIN rows' = {} /\ rows' \in [DOMAIN rows' -> Txns]
      BY <3>1 DEF EmptyRows
    <3>3. IsFiniteSet({}) /\ Cardinality({}) = 0 /\ 1..0 = {}
      BY FS_EmptySet
    <3>4. QED
      BY <3>2, <3>3 DEF IsTable
  <2>2. CASE cap[m] # None
    <3>1. PICK g \in InOrder(LastWrites(Merged(m))) :
             rows' = [i \in DOMAIN g |-> Merged(m)[g[i]]]
      BY <2>2 DEF RewriteStore
    <3>2. QED
      BY <2>2, <3>1, CompactedTable
  <2>3. QED
    BY <2>1, <2>2
<1>3. DurableType'
  BY <1>1, <1>2 DEF TypeOK, DurableType, IsTable
<1>4. MaintenanceType'
  BY <1>1 DEF TypeOK, MaintenanceType, IsTable
<1>5. TypeOK'
  BY <1>1, <1>3, <1>4, FrameTypes DEF TypeOK, worker, CountersType
<1>6. OneWriter'
  BY <1>1 DEF OneWriter, Holding, barrier, TypeOK, MaintenanceType
<1>7. Replacing'
  BY <1>1 DEF Replacing, TypeOK, MaintenanceType
<1>8. Numbered'
  BY <1>1, <1>2, <1>7 DEF Numbered, LogHasNoHoles, InDoubt, journal, worker, unit
<1>9. QED
  BY <1>1, <1>5, <1>6, <1>8, FrameStore, FrameBarrier
  DEF barrier, admission, journal, worker, unit, told

LEMMA FinishRewriteStep ==
  ASSUME IInv, NEW m \in Maintainers, FinishRewrite(m)
  PROVE  IInv'
<1> USE DEF IInv, IndInv
<1> DEFINE k == Cardinality(DOMAIN rows)
<1>1. /\ mpc[m] = "stored" /\ mpc' = [mpc EXCEPT ![m] = "idle"]
      /\ cap' = [cap EXCEPT ![m] = None] /\ exclusive' = FALSE
      /\ nextSeq' = k + 1 /\ epoch' = epoch + 1
      /\ published' = [i \in 1..k |-> i]
      /\ UNCHANGED <<readers, worker, admission, rewrites, crashes>>
      /\ UNCHANGED <<durable, cache, instance, writes, acked, granted, faults>>
      /\ ClearScene(m)
  BY DEF FinishRewrite, Leave, ReleaseExclusive, NewEpoch
<1>2. DOMAIN rows = 1..k /\ k \in Nat
  BY FS_CardinalityType DEF Numbered, TypeOK, DurableType, IsTable
<1> HIDE DEF k
<1>3. readers = 0
  BY <1>1 DEF OneWriter
<1>4. wpc \in {"idle", "stopped"} /\ ~InDoubt /\ ~InDoubt'
  BY <1>1, <1>3, NoReaders DEF InDoubt, worker
<1>5. scene' \in [Keys -> Txns \cup {None}]
  BY <1>1 DEF ClearScene, TypeOK, JournalType
<1>6. JournalType'
  BY <1>1, <1>2, <1>5 DEF TypeOK, JournalType
<1>7. AdmissionType'
  BY <1>1 DEF TypeOK, AdmissionType, admission
<1>8. MaintenanceType'
  BY <1>1 DEF TypeOK, MaintenanceType, IsTable
<1>9. published' \in Seq(Nat)
  BY <1>1, <1>2
<1>10. ToldType'
  BY <1>1, <1>9 DEF TypeOK, ToldType
<1>11. TypeOK'
  BY <1>1, <1>6, <1>7, <1>8, <1>10, FrameTypes DEF TypeOK, worker, CountersType
<1>12. \A n \in Maintainers : mpc'[n] \notin {"claimed", "window", "stored"}
  BY <1>1 DEF OneWriter, Holding, TypeOK, MaintenanceType
<1>13. OneWriter'
  BY <1>12 DEF OneWriter, Holding
<1>14. LogHasNoHoles'
  <2>1. k + 1 - 1 = k
    BY <1>2
  <2>2. DOMAIN rows' = 1..nextSeq' - 1
    BY <1>1, <1>2, <2>1 DEF durable
  <2>3. QED
    BY <1>4, <2>2 DEF LogHasNoHoles
<1>15. Numbered'
  BY <1>1, <1>4, <1>14 DEF Numbered, durable
<1>16. QED
  BY <1>1, <1>11, <1>13, <1>15, FrameStore, FrameBarrier
  DEF durable, worker, unit, admission

-----------------------------------------------------------------------------
(* Crash, start and stuttering.                                            *)

LEMMA ReplayType ==
  ASSUME IsTable(rows)
  PROVE  Replay(rows) \in [Keys -> Txns \cup {None}]
<1>1. ASSUME NEW k \in Keys PROVE Replay(rows)[k] \in Txns \cup {None}
  <2> DEFINE last == {s \in LastWrites(rows) : KeyOf[rows[s]] = k}
  <2>1. Replay(rows)[k] = IF last = {} THEN None ELSE rows[CHOOSE s \in last : TRUE]
    BY DEF Replay
  <2>2. last \subseteq DOMAIN rows
    BY DEF LastWrites
  <2> HIDE DEF last
  <2>3. last # {} => (CHOOSE s \in last : TRUE) \in last
    OBVIOUS
  <2>4. QED
    BY <2>1, <2>2, <2>3 DEF IsTable
<1>2. QED
  BY <1>1 DEF Replay

LEMMA CrashStep ==
  ASSUME IInv, Crash
  PROVE  IInv'
<1> USE DEF IInv, IndInv
<1> DEFINE k == Cardinality(DOMAIN rows)
<1>1. DOMAIN rows = 1..k /\ k \in Nat /\ IsTable(rows)
  BY FS_CardinalityType DEF Numbered, TypeOK, DurableType, IsTable
<1> HIDE DEF k
<1>2. MaxSeq(rows) = k
  <2>1. k + 1 \in Nat \ {0} /\ DOMAIN rows = 1..(k + 1) - 1 /\ (k + 1) - 1 = k
    BY <1>1
  <2>2. MaxSeq(rows) = (k + 1) - 1
    BY <2>1, MaxSeqType
  <2>3. QED
    BY <2>1, <2>2
<1>3. nextSeq' = k + 1 /\ UNCHANGED durable
  BY <1>2 DEF Crash
<1>4. DurableType'
  BY <1>3, FrameTypes DEF TypeOK
<1>5. JournalType'
  <2>1. scene' \in [Keys -> Txns \cup {None}]
    BY <1>1, ReplayType DEF Crash
  <2>2. QED
    BY <1>1, <1>3, <2>1 DEF Crash, TypeOK, JournalType
<1>6. /\ readers' = 0 /\ exclusive' = FALSE /\ stopping' = FALSE /\ admitting' = None
      /\ queue' = <<>> /\ wpc' = "idle" /\ batch' = <<>> /\ outcome' = <<>>
      /\ staged' = <<>> /\ final' = FALSE /\ cpt' = None /\ mode' = "group"
      /\ nextBy' = [p \in Producers |-> 0] /\ undoSeq' = 1
      /\ undoScene' = [key \in Keys |-> None]
      /\ mpc' = [m \in Maintainers |-> "idle"] /\ cap' = [m \in Maintainers |-> None]
      /\ published' = <<>> /\ crashes' = crashes + 1
      /\ cache' = [p \in Producers |-> None]
      /\ UNCHANGED <<rewrites, writes, acked, granted, faults>>
  BY DEF Crash, NoUnit
<1>7. AdmissionType' /\ WorkerType' /\ UnitType'
  <2>1. <<>> \in Seq(Txns) /\ <<>> \in Seq(Outcomes) /\ <<>> \in Seq(Requests)
    OBVIOUS
  <2>2. AdmissionType' /\ WorkerType'
    BY <1>6, <2>1 DEF AdmissionType, WorkerType
  <2>3. UnitType'
    BY <1>6, <2>1 DEF UnitType
  <2>4. QED
    BY <2>2, <2>3
<1>8. MaintenanceType' /\ ToldType' /\ CountersType'
  BY <1>6 DEF MaintenanceType, TypeOK, ToldType, CountersType
<1>9. TypeOK'
  BY <1>4, <1>5, <1>7, <1>8 DEF TypeOK
<1>10. MarkerIsLast' /\ OneWriter' /\ Phases' /\ OutcomesAreSafe'
  BY <1>6 DEF MarkerIsLast, OneWriter, Holding, Phases, OutcomesAreSafe
<1>11. BarrierCounts'
  BY <1>6 DEF BarrierCounts, Submitting, Queued
<1>12. ~InDoubt' /\ CacheIsFresh' /\ StagedIsNext'
  BY <1>6 DEF InDoubt, CacheIsFresh, StagedIsNext
<1>13. Numbered'
  <2>1. DOMAIN rows' = 1..nextSeq' - 1
    <3>1. (k + 1) - 1 = k
      BY <1>1
    <3>2. QED
      BY <1>1, <1>3, <3>1 DEF durable
  <2>2. DOMAIN rows' = 1..Cardinality(DOMAIN rows')
    BY <1>3 DEF Numbered, durable
  <2>3. QED
    BY <1>12, <2>1, <2>2 DEF Numbered, LogHasNoHoles
<1>14. QED
  BY <1>3, <1>6, <1>9, <1>10, <1>11, <1>12, <1>13, FrameStore DEF durable

LEMMA InitInv == Init => IInv
<1> SUFFICES ASSUME Init PROVE IInv
  OBVIOUS
<1> USE DEF Init
<1>1. IsFiniteSet({}) /\ Cardinality({}) = 0 /\ 1..0 = {} /\ DOMAIN rows = {}
  BY FS_EmptySet DEF EmptyRows
<1>2. DurableType
  <2>1. rows \in [DOMAIN rows -> Txns]
    BY DEF EmptyRows
  <2>2. QED
    BY <1>1, <2>1 DEF DurableType, IsTable
<1>3. JournalType /\ AdmissionType
  <2>1. JournalType
    BY DEF JournalType
  <2>2. <<>> \in Seq(Requests)
    OBVIOUS
  <2>3. AdmissionType
    BY <2>2 DEF AdmissionType
  <2>4. QED
    BY <2>1, <2>3
<1>4. WorkerType /\ UnitType
  <2>1. <<>> \in Seq(Txns) /\ <<>> \in Seq(Outcomes)
    OBVIOUS
  <2>2. WorkerType
    BY <2>1 DEF WorkerType
  <2>3. UnitType
    BY <2>1 DEF UnitType
  <2>4. QED
    BY <2>2, <2>3
<1>5. MaintenanceType /\ ToldType /\ CountersType
  <2>1. MaintenanceType
    BY DEF MaintenanceType
  <2>2. ToldType
    <3>1. <<>> \in Seq(Nat) /\ 0 \in Nat
      OBVIOUS
    <3>2. QED
      BY <3>1 DEF ToldType
  <2>3. CountersType
    BY DEF CountersType
  <2>4. QED
    BY <2>1, <2>2, <2>3
<1>6. MarkerIsLast /\ OneWriter /\ Phases /\ OutcomesAreSafe
  BY DEF MarkerIsLast, OneWriter, Holding, Phases, OutcomesAreSafe
<1>7. BarrierCounts
  BY DEF BarrierCounts, Submitting, Queued
<1>8. ~InDoubt /\ CacheIsFresh /\ StagedIsNext /\ AckIsDurable
  BY DEF InDoubt, CacheIsFresh, StagedIsNext, AckIsDurable
<1>9. Numbered
  BY <1>1, <1>8 DEF Numbered, LogHasNoHoles
<1>10. ExactlyOnce
  BY TxnFields DEF ExactlyOnce
<1>11. QED
  BY <1>2, <1>3, <1>4, <1>5, <1>6, <1>7, <1>8, <1>9, <1>10 DEF IInv, IndInv, TypeOK

LEMMA StutterStep ==
  ASSUME IInv, UNCHANGED vars
  PROVE  IInv'
<1>1. TypeOK'
  BY FrameTypes DEF IInv, TypeOK, vars, worker, maintenance
<1>2. IndInv'
  BY FrameStore, FrameBarrier DEF IInv, IndInv, vars, durable, journal, barrier,
     worker, unit, admission, maintenance, told
<1>3. QED
  BY <1>1, <1>2 DEF IInv

LEMMA NextInv == IInv /\ [Next]_vars => IInv'
<1> SUFFICES ASSUME IInv, [Next]_vars PROVE IInv'
  OBVIOUS
<1>1. ASSUME NEW t \in Txns, Admit(t) PROVE IInv'
  BY <1>1, AdmitStep
<1>2. CASE Shutdown
  BY <1>2, ShutdownStep
<1>3. CASE Work
  BY <1>3, EnqueueStep, CommitInlineStep, GatherFirstStep, GatherMoreStep,
     GatherDoneStep, StageRequestStep, StageFailsStep, PersistStep, PersistFailsStep,
     PublishStep, PublishLoadStep, ReplayChildrenStep, CheckpointStep, CompleteStep
  DEF Work
<1>4. ASSUME NEW m \in Maintainers, CaptureHistory(m) \/ StartPurge(m) \/ Rewrite(m)
      PROVE  IInv'
  BY <1>4, CaptureHistoryStep, StartPurgeStep, ClaimBarrierStep, EnterWindowStep,
     RewriteStoreStep, AbandonRewriteStep, FinishRewriteStep
  DEF Rewrite
<1>5. CASE Crash
  BY <1>5, CrashStep
<1>6. CASE UNCHANGED vars
  BY <1>6, StutterStep
<1>7. QED
  BY <1>1, <1>2, <1>3, <1>4, <1>5, <1>6 DEF Next, Stopped

-----------------------------------------------------------------------------
(* Results.                                                                *)

\* The inductive invariant holds in every reachable state.
THEOREM Invariance == Spec => []IInv
<1>1. QED
  BY InitInv, NextInv, PTL DEF Spec

\* Every variable of the commit path keeps its type.
THEOREM TypeCorrect == Spec => []TypeOK
<1>1. IInv => TypeOK
  BY DEF IInv
<1>2. QED
  BY <1>1, Invariance, PTL

\* A transaction becomes durable once, whatever batches, retries, crashes and
\* rewrites come between (_check_transaction_id, append_batch, purge).
THEOREM DurableExactlyOnce == Spec => []ExactlyOnce
<1>1. IInv => ExactlyOnce
  BY DEF IInv, IndInv
<1>2. QED
  BY <1>1, Invariance, PTL

\* A producer is told only of durable commits (_complete).
THEOREM AcknowledgedIsDurable == Spec => []AckIsDurable
<1>1. IInv => AckIsDurable
  BY DEF IInv, IndInv
<1>2. QED
  BY <1>1, Invariance, PTL

\* The log is numbered without holes up to next_seq (reserve_sequences,
\* reset_history).
THEOREM ContiguousLog == Spec => []LogHasNoHoles
<1>1. IInv => LogHasNoHoles
  BY DEF IInv, IndInv, Numbered
<1>2. QED
  BY <1>1, Invariance, PTL

\* The barrier keeps history rewrites and requests apart (_TxnBarrier).
THEOREM RewritesExcluded == Spec => []RewriteExcludesCommits
<1>1. IInv => RewriteExcludesCommits
  <2> SUFFICES ASSUME IInv, NEW m \in Maintainers, mpc[m] \in {"window", "stored"}
               PROVE  /\ admitting = None /\ batch = <<>>
                      /\ \A i \in DOMAIN queue : queue[i] = Stop
                      /\ \A n \in Maintainers :
                            mpc[n] \in {"claimed", "window", "stored"} => n = m
    BY DEF RewriteExcludesCommits
  <2>1. readers = 0
    BY DEF IInv, IndInv, OneWriter
  <2>2. \A n \in Maintainers : mpc[n] \in {"claimed", "window", "stored"} => n = m
    BY DEF IInv, IndInv, OneWriter, Holding
  <2>3. QED
    BY <2>1, <2>2, NoReaders
<1>2. QED
  BY <1>1, Invariance, PTL

\* No step takes back what a session has committed (clear_and_rewrite keeps
\* producer_sessions).
THEOREM ProgressNeverLost == Spec => ProgressIsMonotone
<1> DEFINE Grows == \A p \in Producers : progress'[p] >= progress[p]
<1>1. IInv /\ [Next]_vars => [Grows]_vars
  <2> SUFFICES ASSUME IInv, [Next]_vars PROVE Grows
    OBVIOUS
  <2>1. CASE Persist
    BY <2>1, PersistProgress
  <2>2. CASE UNCHANGED progress
    <3>1. \A p \in Producers : progress[p] \in Nat
      BY DEF IInv, TypeOK, DurableType
    <3>2. QED
      BY <2>2, <3>1
  <2>3. Persist \/ UNCHANGED progress
    <3>1. ASSUME NEW t \in Txns, Admit(t) PROVE UNCHANGED progress
      BY <3>1 DEF Admit, durable
    <3>2. CASE Work
      BY <3>2 DEF Work, Enqueue, CommitInline, GatherFirst, GatherMore, GatherDone,
         StageRequest, StageFails, PersistFails, RollBack, Publish, PublishLoad,
         ReplayChildren, Checkpoint, Complete, durable
    <3>3. ASSUME NEW m \in Maintainers, CaptureHistory(m) \/ StartPurge(m) \/ Rewrite(m)
          PROVE  UNCHANGED progress
      BY <3>3 DEF CaptureHistory, StartPurge, Rewrite, ClaimBarrier, EnterWindow,
         RewriteStore, KeepProgress, AbandonRewrite, FinishRewrite, durable
    <3>4. QED
      BY <3>1, <3>2, <3>3 DEF Next, Shutdown, Crash, Stopped, vars, durable
  <2>4. QED
    BY <2>1, <2>2, <2>3
<1>2. QED
  BY <1>1, Invariance, PTL DEF Spec, ProgressIsMonotone

=============================================================================
