---------------------------- MODULE ServerCommit ----------------------------
(***************************************************************************)
(* The server's path from a producer's transaction to its answer:          *)
(* TransactionCoordinator (admission, batching, retry, completion),        *)
(* TransactionCommitter, EventJournal, the SQLite event store, the         *)
(* transaction barrier, and the history rewrites (compaction and purge)    *)
(* that run against it.  A step ends where another thread, a storage       *)
(* failure or a crash of the process can come between.                     *)
(*                                                                         *)
(* A transaction authors one opinion slot, KeyOf; the records it writes    *)
(* and the payloads it loads are the only data the properties tell apart.  *)
(***************************************************************************)
EXTENDS Integers, Sequences, FiniteSets

CONSTANTS
    Producers,    \* producer identities, (client_id, session_id)
    Maintainers,  \* threads that rewrite history: compactor, Compact, purge
    Keys,         \* opinion slots: (layer, prim, kind) of a record
    ChildKeys,    \* the slots below the payloads that transactions load
    SessionKeys,  \* slots of NON_COLLABORATION_KINDS, on the session layer
    KeyOf,        \* [Txns -> Keys], the slot a transaction authors
    Loads,        \* transactions with a load_payload event
    Bad,          \* transactions whose application raises ValueError
    BatchSize,    \* coordinator batch_size
    QueueMax,     \* _QUEUE_MAX
    Inline,       \* processes started without a commit thread (shared-stage
                  \* mode, or batch_size 1), by the number of their instance
    MaxTxn,       \* bound: largest transaction id a producer submits
    MaxRewrites,  \* bound: compactions and purges started
    MaxFaults,    \* bound: storage, apply and broadcast failures
    MaxCrashes,   \* bound: crashes of the process
    None

Ids == 1..MaxTxn
Txns == [p : Producers, id : Ids]

\* The stop marker of the coordinator's queue (Python None).
Stop == [p |-> None, id |-> 0]

ASSUME ServerCommitAssumption ==
    /\ MaxTxn \in Nat \ {0}
    /\ BatchSize \in Nat \ {0}
    /\ QueueMax \in Nat \ {0}
    /\ MaxRewrites \in Nat /\ MaxFaults \in Nat /\ MaxCrashes \in Nat
    /\ Inline \subseteq Nat
    /\ KeyOf \in [Txns -> Keys]
    /\ ChildKeys \subseteq Keys /\ SessionKeys \subseteq Keys
    /\ Loads \subseteq Txns /\ Bad \subseteq Txns
    /\ None \notin Producers /\ None \notin Txns

VARIABLES
    \* SQLite, survives a crash
    rows,       \* events table: a function from seq (PRIMARY KEY) to the txn
    progress,   \* producer_sessions.committed_through
    \* EventJournal and SceneState, rebuilt at start
    nextSeq,    \* EventJournal.next_seq
    epoch,      \* EventJournal.replay_epoch
    cache,      \* EventJournal._producer_progress, None when not loaded
    scene,      \* Keys -> the transaction whose opinion the stage holds
    instance,   \* server_instance
    \* _TxnBarrier
    readers,    \* _readers
    exclusive,  \* _exclusive
    \* TransactionCoordinator
    stopping,   \* _stopping
    admitting,  \* request of the thread that holds _submission_lock past
                \* acquire_shared, None when the lock is free
    queue,      \* _queue
    wpc,        \* where the committing thread is
    batch,      \* requests of the batch that are not completed
    final,      \* the stop marker ended this batch
    mode,       \* "group": commit_group; "single": _commit_one per request
    outcome,    \* outcomes so far, one per request of the batch
    staged,     \* accepted requests of the unit of commit in progress
    nextBy,     \* next_by_session
    undoSeq,    \* first_sequence of reserve_sequences
    undoScene,  \* what atomic_edit would restore
    cpt,        \* checkpoint captured for the batch
    \* history rewrites
    mpc,        \* where each maintenance thread is
    cap,        \* [epoch, rows] captured by compact_log; None for a purge
    rewrites, faults, crashes,  \* bounded counters
    \* what clients and receivers have been told (history variables)
    writes,     \* how often each transaction was made durable
    acked,      \* per producer, highest id acknowledged
    granted,    \* per producer, its last "committed" answer
    published   \* seqs sent to the live receivers since the last resync

durable == <<rows, progress>>
journal == <<nextSeq, epoch, cache, scene, instance>>
barrier == <<readers, exclusive>>
unit == <<mode, outcome, staged, nextBy, undoSeq, undoScene>>
worker == <<wpc, batch, final, unit, cpt>>
admission == <<stopping, admitting, queue>>
maintenance == <<mpc, cap, rewrites>>
told == <<writes, acked, granted, published>>
vars == <<durable, journal, barrier, worker, admission, maintenance, told,
          faults, crashes>>

\* This process has a commit thread.
Threaded == instance \notin Inline

-----------------------------------------------------------------------------
(* Rows and what they replay to.                                           *)

EmptyRows == [s \in {} |-> None]

\* get_max_seq: 0 when the table is empty.
MaxSeq(f) ==
    IF DOMAIN f = {} THEN 0
    ELSE CHOOSE s \in DOMAIN f : \A t \in DOMAIN f : t <= s

\* The rows no later row supersedes.
LastWrites(f) ==
    {s \in DOMAIN f : ~ \E t \in DOMAIN f : t > s /\ KeyOf[f[t]] = KeyOf[f[s]]}

\* A set of seqs as the increasing sequence of its elements: the one member.
InOrder(S) ==
    {g \in [1..Cardinality(S) -> S] :
        \A i, j \in DOMAIN g : i < j => g[i] < g[j]}

\* The scene that replaying the rows in order builds.
Replay(f) ==
    [k \in Keys |->
        LET last == {s \in LastWrites(f) : KeyOf[f[s]] = k}
        IN  IF last = {} THEN None ELSE f[CHOOSE s \in last : TRUE]]

\* INSERT of new rows after checking seq's PRIMARY KEY.
Extend(f, first, new) ==
    [s \in DOMAIN f \cup (first .. first + Len(new) - 1) |->
        IF s \in DOMAIN f THEN f[s] ELSE new[s - first + 1]]

\* child_replay_records: the last write of every slot below the payload.
ChildWrites(f) == {s \in LastWrites(f) : KeyOf[f[s]] \in ChildKeys}

\* EventJournal.committed_through, which reads the store on a cache miss.
CommittedThrough(p) == IF cache[p] = None THEN progress[p] ELSE cache[p]

-----------------------------------------------------------------------------
(* _TxnBarrier.                                                            *)

\* Plausible bug: readers ignore a waiting writer.
AcquireSharedEagerly == readers' = readers + 1

AcquireShared == ~exclusive /\ readers' = readers + 1

ReleaseShared == readers' = readers - 1

\* acquire_exclusive claims the barrier, so that no reader enters, ...
ClaimExclusive == ~exclusive /\ exclusive' = TRUE

\* ... and then waits for the readers.
ReadersGone == readers = 0

ReleaseExclusive == exclusive' = FALSE

-----------------------------------------------------------------------------
Init ==
    /\ rows = EmptyRows
    /\ progress = [p \in Producers |-> 0]
    /\ nextSeq = 1
    /\ epoch = 0
    /\ cache = [p \in Producers |-> None]
    /\ scene = [k \in Keys |-> None]
    /\ instance = 0
    /\ readers = 0
    /\ exclusive = FALSE
    /\ stopping = FALSE
    /\ admitting = None
    /\ queue = <<>>
    /\ wpc = "idle"
    /\ batch = <<>>
    /\ final = FALSE
    /\ mode = "group"
    /\ outcome = <<>>
    /\ staged = <<>>
    /\ nextBy = [p \in Producers |-> 0]
    /\ undoSeq = 1
    /\ undoScene = [k \in Keys |-> None]
    /\ cpt = None
    /\ mpc = [m \in Maintainers |-> "idle"]
    /\ cap = [m \in Maintainers |-> None]
    /\ rewrites = 0
    /\ faults = 0
    /\ crashes = 0
    /\ writes = [t \in Txns |-> 0]
    /\ acked = [p \in Producers |-> 0]
    /\ granted = [p \in Producers |-> None]
    /\ published = <<>>

-----------------------------------------------------------------------------
(* Admission: TransactionCoordinator.submit and shutdown.                  *)

SubmissionLockFree == admitting = None

\* submit takes _submission_lock, is not stopping, and acquire_shared
\* returns because no maintenance thread has claimed the barrier.
Admit(t) ==
    /\ SubmissionLockFree /\ ~stopping
    /\ AcquireShared
    /\ admitting' = t
    /\ UNCHANGED <<durable, journal, exclusive, worker, stopping, queue,
                   maintenance, told, faults, crashes>>

\* queue.put, which waits for room while it holds _submission_lock.
Enqueue ==
    /\ Threaded /\ admitting # None /\ Len(queue) < QueueMax
    /\ queue' = Append(queue, admitting)
    /\ admitting' = None
    /\ UNCHANGED <<durable, journal, barrier, worker, stopping, maintenance,
                   told, faults, crashes>>

\* What a unit of commit starts from: nothing accepted, the committed ids of
\* every session, and the sequence and scene a failure returns to.
BeginUnit ==
    /\ staged' = <<>>
    /\ nextBy' = [p \in Producers |->
                    IF cache'[p] = None THEN progress'[p] ELSE cache'[p]]
    /\ undoSeq' = nextSeq'
    /\ undoScene' = scene'

\* The locals of a unit of commit when there is none.
NoUnit ==
    /\ mode' = "group" /\ staged' = <<>>
    /\ nextBy' = [p \in Producers |-> 0]
    /\ undoSeq' = 1
    /\ undoScene' = [k \in Keys |-> None]

\* Without a commit thread the submitter commits under _submission_lock.
CommitInline ==
    /\ ~Threaded /\ admitting # None /\ wpc = "idle"
    /\ batch' = <<admitting>>
    /\ wpc' = "stage" /\ mode' = "single" /\ outcome' = <<>>
    /\ UNCHANGED <<durable, journal>>
    /\ BeginUnit
    /\ UNCHANGED <<barrier, admission, final, cpt, maintenance, told,
                   faults, crashes>>

\* shutdown under _submission_lock; the marker waits for room in the queue.
Shutdown ==
    /\ SubmissionLockFree /\ ~stopping
    /\ stopping' = TRUE
    /\ IF Threaded
       THEN /\ Len(queue) < QueueMax
            /\ queue' = Append(queue, Stop)
       ELSE UNCHANGED queue
    /\ UNCHANGED <<durable, journal, barrier, worker, admitting, maintenance,
                   told, faults, crashes>>

-----------------------------------------------------------------------------
(* The commit thread: _run gathers a batch.                                *)

GatherFirst ==
    /\ Threaded /\ wpc = "idle" /\ queue # <<>>
    /\ queue' = Tail(queue)
    /\ IF Head(queue) = Stop
       THEN wpc' = "stopped" /\ UNCHANGED batch
       ELSE wpc' = "gather" /\ batch' = <<Head(queue)>>
    /\ UNCHANGED <<durable, journal, barrier, final, unit, cpt, stopping,
                   admitting, maintenance, told, faults, crashes>>

\* Plausible bug: a payload load does not end the batch.
BatchOpenAfterLoad == Len(batch) < BatchSize

\* The batch has room and its last request loads no payload.
BatchOpen == Len(batch) < BatchSize /\ batch[Len(batch)] \notin Loads

GatherMore ==
    /\ wpc = "gather" /\ ~final /\ queue # <<>> /\ BatchOpen
    /\ queue' = Tail(queue)
    /\ IF Head(queue) = Stop
       THEN final' = TRUE /\ UNCHANGED batch
       ELSE batch' = Append(batch, Head(queue)) /\ UNCHANGED final
    /\ UNCHANGED <<durable, journal, barrier, wpc, unit, cpt, stopping,
                   admitting, maintenance, told, faults, crashes>>

\* The batch is closed: full, ended by a payload load or the stop marker, or
\* its deadline has passed.  The commit scope opens.
GatherDone ==
    /\ wpc = "gather"
    /\ wpc' = "stage" /\ mode' = "group" /\ outcome' = <<>>
    /\ UNCHANGED <<durable, journal>>
    /\ BeginUnit
    /\ UNCHANGED <<barrier, admission, batch, final, cpt, maintenance, told,
                   faults, crashes>>

-----------------------------------------------------------------------------
(* One unit of commit: the batch (commit_group) or one request (commit).   *)

\* Plausible bug: the last committed id passes as the next one.
CheckOffByOne(t, through) ==
    IF t.id < through THEN [status |-> "duplicate", through |-> through]
    ELSE IF t.id > through + 1
    THEN [status |-> "rejected", through |-> through + 1]
    ELSE [status |-> "committed", through |-> t.id]

\* _check_transaction_id: "committed" admits the next producer write.
Check(t, through) ==
    IF t.id <= through THEN [status |-> "duplicate", through |-> through]
    ELSE IF t.id # through + 1
    THEN [status |-> "rejected", through |-> through + 1]
    ELSE [status |-> "committed", through |-> t.id]

Failed == [status |-> "error", through |-> 0]

\* After a check: persist a complete unit that accepted something, check the
\* next request, or go on to completion.
AfterCheck(accepted) ==
    wpc' = IF mode = "single" /\ accepted # <<>> THEN "persist"
           ELSE IF Len(outcome) + 1 < Len(batch) THEN "stage"
           ELSE IF accepted # <<>> THEN "persist" ELSE "checkpoint"

\* Check a request; if it is accepted, assign its sequence and apply it.
StageRequest ==
    /\ wpc = "stage"
    /\ LET t == batch[Len(outcome) + 1]
           result == Check(t, nextBy[t.p])
       IN  /\ cache' = [cache EXCEPT ![t.p] = CommittedThrough(t.p)]
           /\ outcome' = Append(outcome, result)
           /\ IF result.status = "committed"
              THEN /\ t \notin Bad
                   /\ staged' = Append(staged, t)
                   /\ nextBy' = [nextBy EXCEPT ![t.p] = t.id]
                   /\ nextSeq' = nextSeq + 1
                   /\ scene' = [scene EXCEPT ![KeyOf[t]] = t]
              ELSE UNCHANGED <<staged, nextBy, nextSeq, scene>>
           /\ AfterCheck(staged')
    /\ UNCHANGED <<durable, epoch, instance, barrier, admission, batch, final,
                   mode, undoSeq, undoScene, cpt, maintenance, told, faults,
                   crashes>>

\* reserve_sequences restores next_seq after an exception.
ReturnSequences == nextSeq' = undoSeq

\* atomic_edit restores the touched opinions after an exception.
RestoreScene == scene' = undoScene

\* Plausible bugs: the group's early outcomes survive its failure; every
\* request of a failed group is failed.
RetryKeepsOutcomes(decided) ==
    IF mode = "group" THEN decided ELSE Append(decided, Failed)
RetryNothing(decided) ==
    IF mode = "group" THEN [i \in 1..Len(batch) |-> Failed]
    ELSE Append(decided, Failed)

\* _execute: a failed group is retried request by request; a request that
\* fails alone is an error.  decided: outcomes of earlier requests.
Retried(decided) == IF mode = "group" THEN <<>> ELSE Append(decided, Failed)

\* The unit's changes are taken back and the batch goes on.
RollBack(decided) ==
    /\ ReturnSequences
    /\ RestoreScene
    /\ UNCHANGED <<rows, progress, epoch, instance, cache>>
    /\ BeginUnit
    /\ mode' = "single"
    /\ outcome' = Retried(decided)
    /\ wpc' = IF Len(outcome') < Len(batch) THEN "stage" ELSE "checkpoint"
    /\ UNCHANGED <<barrier, admission, batch, final, cpt, maintenance, told,
                   crashes>>

\* Preparing or applying an accepted request raises.
StageFails ==
    /\ wpc = "stage"
    /\ LET t == batch[Len(outcome) + 1]
       IN  /\ Check(t, nextBy[t.p]).status = "committed"
           /\ \/ t \in Bad /\ UNCHANGED faults
              \/ t \notin Bad /\ faults < MaxFaults /\ faults' = faults + 1
    /\ RollBack(outcome)

NoConflict(first, n) == (first .. first + n - 1) \cap DOMAIN rows = {}

\* store.append_batch commits the rows with the sessions' progress, and
\* remember_progress caches it.
Persist ==
    /\ wpc = "persist" /\ NoConflict(undoSeq, Len(staged))
    /\ rows' = Extend(rows, undoSeq, staged)
    /\ progress' = [p \in Producers |->
                     IF nextBy[p] > progress[p] THEN nextBy[p] ELSE progress[p]]
    /\ cache' = [p \in Producers |->
                  IF \E j \in DOMAIN staged : staged[j].p = p
                  THEN nextBy[p] ELSE cache[p]]
    /\ writes' = [t \in Txns |->
                   writes[t] + Cardinality({j \in DOMAIN staged : staged[j] = t})]
    /\ wpc' = "publish"
    /\ UNCHANGED <<nextSeq, epoch, scene, instance, barrier, admission, batch,
                   final, unit, cpt, maintenance, acked, granted, published,
                   faults, crashes>>

\* append_batch raises and the SQLite transaction rolls back.
PersistFails ==
    /\ wpc = "persist"
    /\ \/ NoConflict(undoSeq, Len(staged)) /\ faults < MaxFaults
          /\ faults' = faults + 1
       \/ ~NoConflict(undoSeq, Len(staged)) /\ UNCHANGED faults
    /\ RollBack(SubSeq(outcome, 1, Len(outcome) - 1))

-----------------------------------------------------------------------------
(* Publication, still inside the commit scope: _publish_batch.             *)

\* The seqs of the staged requests among T.
StagedSeqs(T) == {s \in undoSeq .. undoSeq + Len(staged) - 1 :
                    staged[s - undoSeq + 1] \in T}

\* The unit is published: go on with the next request of a retry.
EndUnit ==
    /\ BeginUnit
    /\ wpc' = IF Len(outcome) < Len(batch) THEN "stage" ELSE "checkpoint"
    /\ UNCHANGED <<outcome, mode>>

\* broadcast_transaction_group_views of everything but a payload load; an
\* exception is logged and the records stay unpublished.
Publish ==
    /\ wpc = "publish"
    /\ \/ /\ \E g \in InOrder(StagedSeqs(Txns \ Loads)) : published' = published \o g
          /\ UNCHANGED faults
       \/ /\ faults < MaxFaults /\ faults' = faults + 1
          /\ UNCHANGED published
    /\ UNCHANGED <<durable, journal>>
    /\ IF \E j \in DOMAIN staged : staged[j] \in Loads
       THEN wpc' = "load" /\ UNCHANGED unit
       ELSE EndUnit
    /\ UNCHANGED <<barrier, admission, batch, final, cpt, maintenance, writes,
                   acked, granted, crashes>>

\* _publish_commit of the payload load; a failure skips the child replay.
PublishLoad ==
    /\ wpc = "load"
    /\ UNCHANGED <<durable, journal>>
    /\ \/ /\ \E g \in InOrder(StagedSeqs(Loads)) : published' = published \o g
          /\ wpc' = "children"
          /\ UNCHANGED <<unit, faults>>
       \/ /\ faults < MaxFaults /\ faults' = faults + 1
          /\ UNCHANGED published
          /\ EndUnit
    /\ UNCHANGED <<barrier, admission, batch, final, cpt, maintenance, writes,
                   acked, granted, crashes>>

\* replay_children_after_load: the children's opinions get new sequences,
\* are persisted and published; a failure returns the reservation.
ReplayChildren ==
    /\ wpc = "children"
    /\ \E g \in InOrder(ChildWrites(rows)) :
        LET n == Len(g)
            new == [j \in 1..n |-> rows[g[j]]]
        IN  \/ /\ NoConflict(nextSeq, n)
               /\ rows' = Extend(rows, nextSeq, new)
               /\ nextSeq' = nextSeq + n
               /\ published' = published \o [j \in 1..n |-> nextSeq + j - 1]
               /\ UNCHANGED faults
            \/ /\ \/ NoConflict(nextSeq, n) /\ faults < MaxFaults
                     /\ faults' = faults + 1
                  \/ ~NoConflict(nextSeq, n) /\ UNCHANGED faults
               /\ UNCHANGED <<rows, nextSeq, published>>
    /\ UNCHANGED <<progress, epoch, cache, scene, instance>>
    /\ EndUnit
    /\ UNCHANGED <<barrier, admission, batch, final, cpt, maintenance, writes,
                   acked, granted, crashes>>

-----------------------------------------------------------------------------
(* Completion: _complete, while the batch still excludes maintenance.      *)

\* durable_checkpoint, once per batch and only if something committed; its
\* failure leaves the answers without a checkpoint.
Checkpoint ==
    /\ wpc = "checkpoint"
    /\ wpc' = "complete"
    /\ \/ /\ cpt' = IF \E j \in DOMAIN outcome : outcome[j].status = "committed"
                    THEN [epoch |-> epoch, head |-> MaxSeq(rows)] ELSE None
          /\ UNCHANGED faults
       \/ /\ \E j \in DOMAIN outcome : outcome[j].status = "committed"
          /\ faults < MaxFaults /\ faults' = faults + 1
          /\ cpt' = None
    /\ UNCHANGED <<durable, journal, barrier, admission, batch, final, unit,
                   maintenance, told, crashes>>

\* Plausible bug: the stop marker that ended a batch is forgotten.
AfterBatchIdle == "idle"

\* _run ends after the batch that the marker closed.
AfterBatch == IF final THEN "stopped" ELSE "idle"

\* One request gets its outcome, gives its barrier back and is done; after
\* the last one the thread waits for a batch, or ends after the marker.
Complete ==
    /\ wpc = "complete"
    /\ LET t == Head(batch)
           result == Head(outcome)
       IN  /\ acked' = IF result.status \in {"committed", "duplicate"}
                          /\ result.through > acked[t.p]
                       THEN [acked EXCEPT ![t.p] = result.through] ELSE acked
           /\ granted' = IF result.status = "committed" /\ cpt # None
                         THEN [granted EXCEPT ![t.p] =
                                [id |-> t.id, instance |-> instance,
                                 epoch |-> cpt.epoch, head |-> cpt.head]]
                         ELSE granted
    /\ ReleaseShared
    /\ batch' = Tail(batch)
    /\ outcome' = Tail(outcome)
    /\ IF Len(batch) > 1
       THEN UNCHANGED <<wpc, final, cpt, admitting, mode, staged, nextBy,
                        undoSeq, undoScene>>
       ELSE /\ wpc' = AfterBatch
            /\ final' = FALSE /\ cpt' = None
            /\ admitting' = IF Threaded THEN admitting ELSE None
            /\ NoUnit
    /\ UNCHANGED <<durable, journal, exclusive, stopping, queue, maintenance,
                   writes, published, faults, crashes>>

-----------------------------------------------------------------------------
(* History rewrites: compact_log and purge.                                *)

\* compact_log captures epoch and rows under the shared barrier and reduces
\* them holding nothing; an empty log is left alone.
CaptureHistory(m) ==
    /\ mpc[m] = "idle" /\ ~exclusive /\ rows # EmptyRows
    /\ rewrites < MaxRewrites /\ rewrites' = rewrites + 1
    /\ mpc' = [mpc EXCEPT ![m] = "ready"]
    /\ cap' = [cap EXCEPT ![m] = [epoch |-> epoch, rows |-> rows]]
    /\ UNCHANGED <<durable, journal, barrier, worker, admission, told, faults,
                   crashes>>

StartPurge(m) ==
    /\ mpc[m] = "idle"
    /\ rewrites < MaxRewrites /\ rewrites' = rewrites + 1
    /\ mpc' = [mpc EXCEPT ![m] = "ready"]
    /\ UNCHANGED <<durable, journal, barrier, worker, admission, cap, told,
                   faults, crashes>>

ClaimBarrier(m) ==
    /\ mpc[m] = "ready" /\ ClaimExclusive
    /\ mpc' = [mpc EXCEPT ![m] = "claimed"]
    /\ UNCHANGED <<durable, journal, readers, worker, admission, cap, rewrites,
                   told, faults, crashes>>

\* rewrite_window: no reader is left, earlier writes and sends are drained.
EnterWindow(m) ==
    /\ mpc[m] = "claimed" /\ ReadersGone
    /\ mpc' = [mpc EXCEPT ![m] = "window"]
    /\ UNCHANGED <<durable, journal, barrier, worker, admission, cap, rewrites,
                   told, faults, crashes>>

\* The captured rows with what was appended to them since.
Merged(m) ==
    LET old == cap[m].rows
    IN  [s \in DOMAIN old \cup {t \in DOMAIN rows : t > MaxSeq(old)} |->
            IF s \in DOMAIN old THEN old[s] ELSE rows[s]]

\* release_exclusive at the end of the window.
Leave(m) ==
    /\ mpc' = [mpc EXCEPT ![m] = "idle"]
    /\ cap' = [cap EXCEPT ![m] = None]
    /\ ReleaseExclusive
    /\ UNCHANGED <<readers, worker, admission, rewrites, crashes>>

\* Plausible bug: the history is not compared with the captured one.
CaptureTrusted(m) == TRUE

\* The captured history may be merged and installed: its epoch is current.
CaptureIsCurrent(m) == cap[m].epoch = epoch

\* Plausible bug: the rewrite clears producer_sessions too.
ForgetProgress == progress' = [p \in Producers |-> 0]

\* Producer high-water marks survive a rewrite.
KeepProgress == UNCHANGED progress

\* clear_and_rewrite, the durable step: a purge leaves no row, a compaction
\* the surviving writes renumbered from 1.
RewriteStore(m) ==
    /\ mpc[m] = "window"
    /\ cap[m] # None => CaptureIsCurrent(m)
    /\ IF cap[m] = None THEN rows' = EmptyRows
       ELSE \E g \in InOrder(LastWrites(Merged(m))) :
                rows' = [i \in DOMAIN g |-> Merged(m)[g[i]]]
    /\ mpc' = [mpc EXCEPT ![m] = "stored"]
    /\ KeepProgress
    /\ UNCHANGED <<journal, barrier, worker, admission, cap, rewrites, told,
                   faults, crashes>>

\* Another rewrite came first, or the store fails: nothing changes.
AbandonRewrite(m) ==
    /\ mpc[m] = "window"
    /\ \/ cap[m] # None /\ ~CaptureIsCurrent(m) /\ UNCHANGED faults
       \/ cap[m] = None /\ faults < MaxFaults /\ faults' = faults + 1
       \/ cap[m] # None /\ CaptureIsCurrent(m)
          /\ faults < MaxFaults /\ faults' = faults + 1
    /\ Leave(m)
    /\ UNCHANGED <<durable, journal, told>>

\* Plausible bug: the rewrite does not open a new epoch.
SameEpoch == UNCHANGED epoch

NewEpoch == epoch' = epoch + 1

\* A purge clears the collaboration layers and leaves the session layer.
ClearScene(m) ==
    scene' = IF cap[m] # None THEN scene
             ELSE [k \in Keys |-> IF k \in SessionKeys THEN scene[k] ELSE None]

\* The scene follows the store, reset_history publishes the new epoch, and
\* _resync_receivers sends the new history from 1.
FinishRewrite(m) ==
    /\ mpc[m] = "stored"
    /\ ClearScene(m)
    /\ nextSeq' = Cardinality(DOMAIN rows) + 1
    /\ NewEpoch
    /\ published' = [i \in 1..Cardinality(DOMAIN rows) |-> i]
    /\ Leave(m)
    /\ UNCHANGED <<durable, cache, instance, writes, acked, granted, faults>>

-----------------------------------------------------------------------------
(* A crash loses everything but the store; the next process replays it.    *)
Crash ==
    /\ crashes < MaxCrashes /\ crashes' = crashes + 1
    /\ nextSeq' = MaxSeq(rows) + 1
    /\ epoch' = 0
    /\ cache' = [p \in Producers |-> None]
    /\ scene' = Replay(rows)
    /\ instance' = instance + 1
    /\ readers' = 0 /\ exclusive' = FALSE
    /\ stopping' = FALSE /\ admitting' = None /\ queue' = <<>>
    /\ wpc' = "idle" /\ batch' = <<>> /\ final' = FALSE /\ cpt' = None
    /\ outcome' = <<>> /\ NoUnit
    /\ UNCHANGED durable
    /\ mpc' = [m \in Maintainers |-> "idle"]
    /\ cap' = [m \in Maintainers |-> None]
    /\ published' = <<>>
    /\ UNCHANGED <<rewrites, writes, acked, granted, faults>>

\* The coordinator has stopped for good.
Stopped ==
    /\ stopping /\ wpc = IF Threaded THEN "stopped" ELSE "idle"
    /\ UNCHANGED vars

Work ==
    \/ Enqueue \/ CommitInline \/ GatherFirst \/ GatherMore \/ GatherDone
    \/ StageRequest \/ StageFails \/ Persist \/ PersistFails
    \/ Publish \/ PublishLoad \/ ReplayChildren \/ Checkpoint \/ Complete

Rewrite(m) ==
    \/ ClaimBarrier(m) \/ EnterWindow(m)
    \/ RewriteStore(m) \/ AbandonRewrite(m) \/ FinishRewrite(m)

Next ==
    \/ \E t \in Txns : Admit(t)
    \/ Shutdown
    \/ Work
    \/ \E m \in Maintainers : CaptureHistory(m) \/ StartPurge(m) \/ Rewrite(m)
    \/ Crash
    \/ Stopped

Spec == Init /\ [][Next]_vars

-----------------------------------------------------------------------------
(* Properties.                                                             *)

Requests == Txns \cup {Stop}

IsTable(f) ==
    /\ IsFiniteSet(DOMAIN f) /\ DOMAIN f \subseteq Nat \ {0}
    /\ f \in [DOMAIN f -> Txns]

DurableType == IsTable(rows) /\ progress \in [Producers -> Nat]

JournalType ==
    /\ nextSeq \in Nat \ {0} /\ epoch \in Nat /\ instance \in Nat
    /\ cache \in [Producers -> Nat \cup {None}]
    /\ scene \in [Keys -> Txns \cup {None}]

AdmissionType ==
    /\ readers \in Nat /\ exclusive \in BOOLEAN
    /\ stopping \in BOOLEAN /\ admitting \in Txns \cup {None}
    /\ queue \in Seq(Requests)

Outcomes ==
    [status : {"committed", "duplicate", "rejected", "error"}, through : Nat]

WorkerType ==
    /\ wpc \in {"idle", "gather", "stage", "persist", "publish", "load",
                "children", "checkpoint", "complete", "stopped"}
    /\ batch \in Seq(Txns) /\ final \in BOOLEAN
    /\ cpt \in [epoch : Nat, head : Nat] \cup {None}

UnitType ==
    /\ mode \in {"group", "single"}
    /\ outcome \in Seq(Outcomes)
    /\ staged \in Seq(Txns)
    /\ nextBy \in [Producers -> Nat]
    /\ undoSeq \in Nat \ {0} /\ undoScene \in [Keys -> Txns \cup {None}]

MaintenanceType ==
    /\ mpc \in [Maintainers -> {"idle", "ready", "claimed", "window", "stored"}]
    /\ DOMAIN cap = Maintainers
    /\ \A m \in Maintainers :
          cap[m] # None => cap[m].epoch \in Nat /\ IsTable(cap[m].rows)

ToldType ==
    /\ writes \in [Txns -> Nat]
    /\ acked \in [Producers -> Nat]
    /\ granted \in [Producers ->
                    [id : Ids, instance : Nat, epoch : Nat, head : Nat]
                    \cup {None}]
    /\ published \in Seq(Nat)

CountersType == rewrites \in Nat /\ faults \in Nat /\ crashes \in Nat

TypeOK ==
    /\ DurableType /\ JournalType /\ AdmissionType /\ WorkerType /\ UnitType
    /\ MaintenanceType /\ ToldType /\ CountersType

\* ExactlyOnce: a transaction is made durable once, and a session's durable
\* transactions are exactly the ids up to its progress, whatever is
\* retried, however a group fails, and across crashes, purges and
\* compactions (_check_transaction_id, append_batch, purge).
ExactlyOnce ==
    \A t \in Txns : writes[t] = IF t.id <= progress[t.p] THEN 1 ELSE 0

\* AckIsDurable: what a producer was told is committed, or a duplicate, is in
\* the store's progress and stays there (_complete, remember_progress).
AckIsDurable == \A p \in Producers : acked[p] <= progress[p]

\* A commit has changed the scene or reserved sequences and may still undo it.
InDoubt == wpc \in {"stage", "persist"}

\* A maintenance thread has replaced the rows and not yet the scene.
Replacing == \E m \in Maintainers : mpc[m] = "stored"

\* LogHasNoHoles: outside an undecided commit or a rewrite the next sequence
\* is the one after the last of a log without holes (reserve_sequences,
\* reset_history), so that replay and live records join.
LogHasNoHoles ==
    ~Replacing =>
        DOMAIN rows = 1 .. (IF InDoubt THEN undoSeq ELSE nextSeq) - 1

\* SceneIsReplay: the authoritative stage is what a restart would rebuild from
\* the store: rollback, child replay, compaction and purge keep them equal.
\* The exception is a session-layer opinion that a purge took out of the log
\* and left on the stage (clear_collaboration_layers).
SceneIsReplay ==
    ~Replacing => \A k \in Keys :
        LET shown == (IF InDoubt THEN undoScene ELSE scene)[k]
            logged == Replay(rows)[k]
        IN  shown = logged \/ (k \in SessionKeys /\ logged = None)

\* PublishedInOrder: receivers are sent increasing sequences of durable rows,
\* child replay and retries included (commit_scope, _publish_batch).
PublishedInOrder ==
    /\ \A i, j \in DOMAIN published : i < j => published[i] < published[j]
    /\ ~Replacing => \A i \in DOMAIN published : published[i] \in DOMAIN rows

\* CheckpointCovers: the checkpoint of a "committed" answer names a history
\* in which the transaction is visible at or below its head, as long as
\* that history is current (durable_checkpoint under the barrier).
CheckpointCovers ==
    \A p \in Producers :
        LET g == granted[p]
        IN  g # None /\ g.instance = instance /\ g.epoch = epoch /\ ~Replacing =>
                \E s \in DOMAIN rows : s <= g.head /\ rows[s] = [p |-> p, id |-> g.id]

\* RewriteExcludesCommits: while history is being replaced no request is
\* admitted, queued or being committed (_TxnBarrier).
RewriteExcludesCommits ==
    \A m \in Maintainers : mpc[m] \in {"window", "stored"} =>
        /\ admitting = None /\ batch = <<>>
        /\ \A i \in DOMAIN queue : queue[i] = Stop
        /\ \A n \in Maintainers : mpc[n] \in {"claimed", "window", "stored"} => n = m

\* NeighboursUnharmed: a request is answered with an error only if it is bad
\* itself or something failed while it was handled alone (_execute).
NeighboursUnharmed ==
    faults = 0 => \A i \in DOMAIN outcome :
                    outcome[i].status = "error" => batch[i] \in Bad

\* ProgressIsMonotone: no step, crash and purge included, takes back a
\* session's progress (clear_and_rewrite keeps producer_sessions).
ProgressIsMonotone ==
    [][\A p \in Producers : progress'[p] >= progress[p]]_vars

\* Weak fairness: the commit thread, a submitter past the barrier and the
\* maintenance threads keep running.
Fairness ==
    /\ WF_vars(Work)
    /\ \A m \in Maintainers : WF_vars(Rewrite(m))

FairSpec == Spec /\ Fairness

\* RewriteEnds: a claimed rewrite window is left, even if producers submit
\* without end (writer preference in acquire_exclusive).
RewriteEnds == \A m \in Maintainers : mpc[m] = "claimed" ~> mpc[m] = "idle"

\* ShutdownDrains: after shutdown every admitted request is completed and
\* the commit thread, if there is one, ends, unless the process crashes first.
ShutdownDrains ==
    stopping ~> (wpc = (IF Threaded THEN "stopped" ELSE "idle") /\ readers = 0) \/ ~stopping

=============================================================================
