---------------------------- MODULE UnrealClient ----------------------------
(***************************************************************************)
(* The Unreal plugin: the game thread of UUSDConnectSubsystem between the  *)
(* receiver thread (FSyncClient over OrderedReceiverSession) and the       *)
(* emitter thread (FEmitClient over OrderedProducerSession).               *)
(*                                                                         *)
(* The stage has three slots: the transform and the visibility of one prim *)
(* and an input of one shader.  A slot's value is the number of the edit   *)
(* that made it, 0 for the value the asset came with.  A transaction       *)
(* carries one slot, as the plugin's frames do.  The server is what the    *)
(* plugin can see of it: a log, its epoch, the producer's highwater, and   *)
(* one FIFO connection for each role.                                      *)
(***************************************************************************)
EXTENDS Integers, Sequences, FiniteSets, SequencesExt

CONSTANTS
    MaxReceiverFrames,  \* frames the receiver session holds
    MaxPending,         \* transactions the outbox holds
    MaxGenerations,     \* bound on the generations of a receiver session
    Scenarios           \* how a behaviour starts and how often the rare things happen

VARIABLES
    server,    \* [log, epoch, through]: records, rewrites so far, producer highwater
    rwire,     \* frames on their way to the receiver thread
    receiver,  \* the receiver thread and its OrderedReceiverSession
    identity,  \* its ReceiverReplayIdentity
    emitter,   \* the emitter thread and its OrderedProducerSession
    ewire,     \* transactions on their way to the server
    replies,   \* results on their way to the emitter thread
    game,      \* the game thread and the subsystem's fields
    stage,     \* slot -> value
    left,      \* how often each rare thing may still happen
    history    \* what the properties compare with

vars == <<server, rwire, receiver, identity, emitter, ewire, replies, game, stage, left,
          history>>

Slots == {"xform", "vis", "input"}
Order == <<"xform", "vis", "input">>
PathOf == [xform |-> "prim", vis |-> "prim", input |-> "shader"]
Rare == {"edit", "remote", "loss", "eloss", "rewrite", "failure", "reject", "manual"}
None == <<>>

ASSUME ConstantsAssumption ==
    /\ {MaxReceiverFrames, MaxPending, MaxGenerations} \subseteq Nat \ {0}
    /\ \A s \in Scenarios :
          /\ s.log \in Seq([slot : Slots, val : Nat \ {0}])
          /\ s.snapshot \in 0..Len(s.log)
          /\ s.edited \subseteq Slots /\ s.token \in BOOLEAN
          /\ s.left \in [Rare -> Nat]

Spend(rare) == left[rare] > 0 /\ left' = [left EXCEPT ![rare] = @ - 1]

\* The frames of a replay, tagged with its number; 0 marks a live event.
Event(log, i, b) == [t |-> "event", slot |-> log[i].slot, val |-> log[i].val, seq |-> i, b |-> b]
Events(log, from, b) == [i \in 1..(Len(log) - from + 1) |-> Event(log, from + i - 1, b)]
Complete(log, epoch) == <<[t |-> "complete", head |-> Len(log), epoch |-> epoch, b |-> 0]>>
Resync(b) == <<[t |-> "resync", b |-> b]>>

\* The value the first n records of a log leave in each slot.
Fold(log, n) ==
    [s \in Slots |->
        LET by == {i \in 1..n : log[i].slot = s}
        IN  IF by = {} THEN 0 ELSE log[CHOOSE i \in by : \A j \in by : j <= i].val]

\* A value nobody has used: edits are numbered as they are made.
Fresh == history.made + 1

-----------------------------------------------------------------------------
(* Connecting.  ConnectResolved makes a receiver and, unless it has to wait *)
(* for the receiver's token, an emitter.                                   *)

\* OrderedReceiverSession(initial_sync_from): the stage's snapshot is taken as applied.
NewSession(snapshot) ==
    [at |-> "begin", gen |-> 0, conn |-> 0, active |-> 0, received |-> snapshot,
     applied |-> snapshot, requested |-> 0, sync |-> 0, inbox |-> <<>>, marker |-> None,
     read |-> 0, batch |-> 0, up |-> FALSE]

NoIdentity == [helloSent |-> FALSE, claimed |-> None, conn |-> None, proven |-> FALSE,
               pending |-> None, applied |-> None, known |-> FALSE]

\* FProducerEndpointState: the outbox outlives the emitter threads.
NewProducer == [at |-> "none", outbox |-> <<>>, sent |-> 0, acked |-> 0,
                recovery |-> FALSE, stop |-> FALSE, gen |-> 0]

\* The thread of a new FEmitClient, or the wait for a token.
StartEmitter(e, wait) == [e EXCEPT !.at = IF wait THEN "deferred" ELSE "begin",
                                   !.stop = FALSE, !.gen = 0]

NewGame == [at |-> "idle", attached |-> TRUE, synchronized |-> FALSE, replayGen |-> 0,
            pending |-> {}, emitted |-> FALSE, lastGen |-> 0,
            todo |-> {}, last |-> 0, mark |-> 0, token |-> FALSE]

Init ==
    \E s \in Scenarios :
        /\ server = [log |-> s.log, epoch |-> 0, through |-> 0]
        /\ rwire = <<>> /\ ewire = <<>> /\ replies = <<>>
        /\ receiver = NewSession(s.snapshot)
        /\ identity = NoIdentity
        /\ emitter = StartEmitter(NewProducer, s.token)
        /\ game = NewGame
        /\ stage = Fold(s.log, s.snapshot)
        /\ left = s.left
        /\ history = [made |-> Len(s.log), owed |-> [x \in Slots |-> 0], stray |-> {},
                      submitted |-> <<>>, committed |-> <<>>, batches |-> 0,
                      late |-> FALSE, snapshot |-> s.snapshot, epoch |-> 0,
                      edited |-> s.edited, wait |-> s.token]

-----------------------------------------------------------------------------
(* OrderedReceiverSession. *)

ResetSynchronization(r) == [r EXCEPT !.marker = None]

BeginConnection(r) ==
    [ResetSynchronization(r) EXCEPT
        !.gen = @ + 1, !.conn = r.gen + 1, !.requested = 0,
        !.sync = IF r.requested # 0 THEN r.requested ELSE r.received + 1]

Disconnect(r) == IF r.conn = r.gen THEN ResetSynchronization(r) ELSE r

\* Accept: the queued frame, or the reason the connection is given up.
AcceptResult(r, f) ==
    IF r.conn # r.gen THEN "stale"
    ELSE IF f.t = "event" /\ f.seq <= r.received THEN "duplicate"
    ELSE IF f.t = "event" /\ f.seq > r.received + 1 THEN "gap"
    ELSE IF Len(r.inbox) = MaxReceiverFrames THEN "full"
    ELSE "accepted"

Accept(r, f) ==
    LET q == [r EXCEPT !.inbox = Append(@, f),
                       !.received = IF f.t = "resync" THEN 0 ELSE f.seq]
    IN  IF f.t = "resync" THEN ResetSynchronization(q) ELSE q

AcceptReplayComplete(r, f) ==
    [r EXCEPT !.marker = [head |-> f.head, left |-> Len(r.inbox)]]

TryPop(r) ==
    [r EXCEPT !.inbox = Tail(@),
              !.marker = IF @ = None \/ @.left = 0 THEN @
                         ELSE [head |-> @.head, left |-> @.left - 1]]

MarkAppliedAllowed(r, seq) ==
    r.active = r.gen /\ seq >= r.applied /\ seq <= r.received

TryMarkReplayApplied(r) ==
    r.marker # None /\ r.marker.left = 0 /\ r.applied >= r.marker.head

\* A request that leaves the frames of the old connection queued.
RequestKeepsFrames(r, seq) ==
    [ResetSynchronization(r) EXCEPT
        !.gen = @ + 1, !.requested = seq, !.received = seq - 1, !.applied = seq - 1]

RequestReplayFrom(r, seq) ==
    [ResetSynchronization(r) EXCEPT
        !.gen = @ + 1, !.requested = seq, !.received = seq - 1, !.applied = seq - 1,
        !.inbox = <<>>]

-----------------------------------------------------------------------------
(* ReceiverReplayIdentity: which history the applied prefix belongs to. *)

IdentityBegin(d) ==
    [d EXCEPT !.pending = None, !.claimed = d.applied, !.known = d.helloSent,
              !.helloSent = TRUE]

IdentityAccept(d, sync, epoch) ==
    [d EXCEPT !.conn = <<epoch>>,
              !.proven = sync = 1 \/ (d.known /\ d.claimed = <<epoch>>)]

IdentityResync(d) == [d EXCEPT !.proven = TRUE, !.pending = None]

IdentityComplete(d, epoch) ==
    [d EXCEPT !.pending = IF d.proven THEN <<epoch>> ELSE None]

IdentityApplied(d) == [d EXCEPT !.applied = d.pending, !.pending = None]

-----------------------------------------------------------------------------
(* The subsystem's gate for native transactions. *)

\* The gate is left as it is.
GenerationIgnored(g, gen) == [g EXCEPT !.replayGen = IF gen > @ THEN gen ELSE @]

\* OnReceiverReplayGenerationChanged: an older generation changes nothing.
GenerationChanged(g, gen) ==
    [g EXCEPT !.replayGen = IF gen > @ THEN gen ELSE @,
              !.synchronized = @ /\ gen < g.replayGen]

\* A gate opened for a replay that had been superseded by then.
Closes(g) == [history EXCEPT !.late = @ /\ g.synchronized]

-----------------------------------------------------------------------------
(* The receiver thread: FSyncClient::Run. *)

\* The reconnect delay, a second at least, outlasts the 16 ms in which
\* DrainAndApply takes frames and the application of the frame it holds.
DelayOver == receiver.gen = 0 \/ game.at \notin {"first", "apply", "applied"}

ReceiverBegin ==
    /\ receiver.at = "begin" /\ DelayOver /\ receiver.gen < MaxGenerations
    /\ receiver' = [BeginConnection(receiver) EXCEPT !.at = "hello"]
    /\ UNCHANGED <<server, rwire, identity, emitter, ewire, replies, game, stage, left, history>>

\* The server's side of a Hello: a cursor is honoured unless it is out of range
\* or claims another history; a first Hello makes no claim.
Answer(sync, d, b) ==
    LET reset == sync > Len(server.log) + 1
                 \/ (sync > 1 /\ d.known /\ d.claimed # <<server.epoch>>)
    IN  (IF reset THEN Resync(b) ELSE <<>>)
        \o Events(server.log, IF reset THEN 1 ELSE sync, b)
        \o Complete(server.log, server.epoch)

\* Hello and HelloOk.  A first Hello whose snapshot is of another history is
\* taken at its word: whatever it lacks stays missing.
ReceiverHello ==
    /\ receiver.at = "hello"
    /\ LET d == IdentityBegin(identity)
           b == history.batches + 1
           g == GenerationChanged(game, receiver.conn)
           blind == ~d.known /\ receiver.sync \in 2..(Len(server.log) + 1)
                    /\ history.epoch # server.epoch
       IN  /\ identity' = IdentityAccept(d, receiver.sync, server.epoch)
           /\ rwire' = Answer(receiver.sync, d, b)
           /\ receiver' = [receiver EXCEPT !.at = "reading", !.active = receiver.conn,
                                           !.batch = b, !.up = TRUE]
           /\ game' = [g EXCEPT !.token = TRUE]
           /\ history' = [Closes(g) EXCEPT !.batches = b,
                                           !.stray = IF blind THEN Slots ELSE @]
    /\ UNCHANGED <<server, emitter, ewire, replies, stage, left>>

\* No socket, no connection, no answer: the next attempt begins anew.
ReceiverHelloFails ==
    /\ receiver.at = "hello"
    /\ IF receiver.conn # receiver.gen THEN UNCHANGED left ELSE Spend("loss")
    /\ receiver' = [Disconnect(receiver) EXCEPT !.at = "begin"]
    /\ UNCHANGED <<server, rwire, identity, emitter, ewire, replies, game, stage, history>>

\* The connection ends after some more of its frames.
ReceiverLoss ==
    /\ receiver.at = "reading" /\ receiver.up
    /\ Spend("loss")
    /\ \E k \in 0..Len(rwire) : rwire' = SubSeq(rwire, 1, k)
    /\ receiver' = [receiver EXCEPT !.up = FALSE]
    /\ UNCHANGED <<server, identity, emitter, ewire, replies, game, stage, history>>

\* The end of the receive loop: bConnected, CloseSocket, Disconnect.
Leave(r) == [Disconnect(r) EXCEPT !.at = "lost", !.up = FALSE]

\* HandleFrame for an event.
ReceiveEvent ==
    /\ receiver.at = "reading" /\ rwire # <<>> /\ Head(rwire).t = "event"
    /\ LET f == Head(rwire)
           result == AcceptResult(receiver, f)
       IN  IF result \in {"accepted", "duplicate"}
           THEN /\ receiver' = IF result = "accepted" THEN Accept(receiver, f) ELSE receiver
                /\ rwire' = Tail(rwire)
           ELSE receiver' = Leave(receiver) /\ rwire' = <<>>
    /\ UNCHANGED <<server, identity, emitter, ewire, replies, game, stage, left, history>>

\* For a Resync: the gate closes even when the frame is refused.
ReceiveResync ==
    /\ receiver.at = "reading" /\ rwire # <<>> /\ Head(rwire).t = "resync"
    /\ LET f == Head(rwire)
       IN  IF AcceptResult(receiver, f) = "accepted"
           THEN /\ receiver' = [Accept(receiver, f) EXCEPT !.batch = f.b]
                /\ identity' = IdentityResync(identity)
                /\ rwire' = Tail(rwire)
           ELSE receiver' = Leave(receiver) /\ rwire' = <<>> /\ UNCHANGED identity
    /\ game' = GenerationChanged(game, receiver.conn)
    /\ history' = Closes(game')
    /\ UNCHANGED <<server, emitter, ewire, replies, stage, left>>

\* For a ReplayComplete.
ReceiveComplete ==
    /\ receiver.at = "reading" /\ rwire # <<>> /\ Head(rwire).t = "complete"
    /\ LET f == Head(rwire)
       IN  IF receiver.conn = receiver.gen
           THEN /\ receiver' = AcceptReplayComplete(receiver, f)
                /\ identity' = IdentityComplete(identity, f.epoch)
                /\ rwire' = Tail(rwire)
           ELSE receiver' = Leave(receiver) /\ rwire' = <<>> /\ UNCHANGED identity
    /\ UNCHANGED <<server, emitter, ewire, replies, game, stage, left, history>>

ReceiveNothing ==
    /\ receiver.at = "reading" /\ ~receiver.up /\ rwire = <<>>
    /\ receiver' = Leave(receiver)
    /\ UNCHANGED <<server, rwire, identity, emitter, ewire, replies, game, stage, left, history>>

\* After a loss: read the applied cursor, then ask for a replay from it.
ReadApplied ==
    /\ receiver.at = "lost" /\ receiver.gen = receiver.conn
    /\ receiver' = [receiver EXCEPT !.at = "request", !.read = receiver.applied]
    /\ UNCHANGED <<server, rwire, identity, emitter, ewire, replies, game, stage, left, history>>

RequestReplay ==
    /\ \/ receiver.at = "request"
          /\ receiver' = [RequestReplayFrom(receiver, receiver.read + 1) EXCEPT !.at = "begin"]
       \/ receiver.at = "lost" /\ receiver.gen # receiver.conn
          /\ receiver' = [receiver EXCEPT !.at = "begin"]
    /\ game' = GenerationChanged(game, receiver'.gen)
    /\ history' = Closes(game')
    /\ UNCHANGED <<server, rwire, identity, emitter, ewire, replies, stage, left>>

-----------------------------------------------------------------------------
(* The emitter thread: FEmitClient::Run over OrderedProducerSession. *)

MarkAllUnsent(e) == [e EXCEPT !.sent = 0]

AcknowledgeThrough(e, id) ==
    LET n == id - e.acked
    IN  [e EXCEPT !.outbox = SubSeq(@, n + 1, Len(@)), !.acked = id,
                  !.sent = IF @ > n THEN @ - n ELSE 0]

EnterRecovery(e) == [MarkAllUnsent(e) EXCEPT !.recovery = TRUE]

\* BeginConnection, then AcceptServerHighwater; nothing looks at the session in
\* between.  Recovery refuses the connection for good.
EmitterConnect ==
    /\ emitter.at = "begin"
    /\ emitter' = IF emitter.recovery THEN [emitter EXCEPT !.at = "stopped"]
                  ELSE [AcknowledgeThrough(MarkAllUnsent(emitter), server.through) EXCEPT
                           !.at = "ready", !.gen = @ + 1]
    /\ UNCHANGED <<server, rwire, receiver, identity, ewire, replies, game, stage, left, history>>

\* ClaimNextUnsent and SendAll.
EmitterSend ==
    /\ emitter.at = "ready" /\ emitter.sent < Len(emitter.outbox)
    /\ ewire' = Append(ewire, emitter.outbox[emitter.sent + 1])
    /\ emitter' = [emitter EXCEPT !.sent = @ + 1]
    /\ UNCHANGED <<server, rwire, receiver, identity, replies, game, stage, left, history>>

\* A TransactionResult: retired, or rejected and the thread told to stop.
EmitterResult ==
    /\ emitter.at = "ready" /\ replies # <<>>
    /\ emitter' = IF Head(replies).ok THEN AcknowledgeThrough(emitter, Head(replies).id)
                  ELSE [EnterRecovery(emitter) EXCEPT !.at = "closing", !.stop = TRUE]
    /\ replies' = Tail(replies)
    /\ ewire' = IF Head(replies).ok THEN ewire ELSE <<>>
    /\ UNCHANGED <<server, rwire, receiver, identity, game, stage, left, history>>

\* bConnected is false; Append still finds the phase Ready until Disconnect.
EmitterClose ==
    /\ emitter.at = "closing"
    /\ emitter' = [MarkAllUnsent(emitter) EXCEPT !.at = IF emitter.stop THEN "stopped" ELSE "begin"]
    /\ UNCHANGED <<server, rwire, receiver, identity, ewire, replies, game, stage, left, history>>

-----------------------------------------------------------------------------
(* The server, as the plugin meets it. *)

Live(log) == IF receiver.up THEN rwire \o Events(log, Len(server.log) + 1, 0) ELSE rwire

\* Nothing is accepted behind a rejected transaction.
InSequence == \A i \in 1..Len(replies) : replies[i].ok

\* Transactions of this producer are committed in order and broadcast.
Committed(txns, then) ==
    /\ server' = [server EXCEPT !.log = @ \o txns, !.through = @ + Len(txns)]
    /\ rwire' = Live(server'.log)
    /\ history' = [then EXCEPT !.committed = @ \o txns]

ServerCommit ==
    /\ ewire # <<>> /\ InSequence
    /\ Committed(<<Head(ewire)>>, history)
    /\ ewire' = Tail(ewire)
    /\ replies' = Append(replies, [ok |-> TRUE, id |-> server'.through])
    /\ UNCHANGED <<receiver, identity, emitter, game, stage, left>>

\* A rejected transaction is answered; those behind it are out of sequence.
ServerReject ==
    /\ ewire # <<>> /\ Spend("reject")
    /\ ewire' = <<>>
    /\ replies' = Append(replies, [ok |-> FALSE, id |-> server.through + 1])
    /\ UNCHANGED <<server, rwire, receiver, identity, emitter, game, stage, history>>

\* The emitter's connection ends: the server commits what reached it.
EmitterLoss ==
    /\ emitter.at = "ready"
    /\ Spend("eloss")
    /\ \E k \in 0..Len(ewire) :
          /\ k > 0 => InSequence
          /\ Committed(SubSeq(ewire, 1, k), history)
    /\ ewire' = <<>> /\ replies' = <<>>
    /\ emitter' = [emitter EXCEPT !.at = "closing"]
    /\ UNCHANGED <<receiver, identity, game, stage>>

RemoteCommit ==
    /\ Spend("remote")
    /\ \E s \in history.edited :
          server' = [server EXCEPT !.log = Append(@, [slot |-> s, val |-> Fresh])]
    /\ rwire' = Live(server'.log)
    /\ history' = [history EXCEPT !.made = Fresh]
    /\ UNCHANGED <<receiver, identity, emitter, ewire, replies, game, stage>>

\* A compaction keeps the last record of every slot, a purge forgets a slot;
\* connected receivers are sent the new history.
RewriteHistory ==
    /\ Spend("rewrite")
    /\ \E gone \in {{}} \cup {{s} : s \in Slots} :
          LET last(i) == \A j \in (i + 1)..Len(server.log) : server.log[j].slot # server.log[i].slot
              kept == {i \in 1..Len(server.log) : last(i) /\ server.log[i].slot \notin gone}
              log == [k \in 1..Cardinality(kept) |->
                         server.log[CHOOSE i \in kept :
                             Cardinality({j \in kept : j <= i}) = k]]
              b == history.batches + 1
          IN  /\ server' = [server EXCEPT !.log = log, !.epoch = @ + 1]
              /\ rwire' = IF receiver.up
                          THEN rwire \o Resync(b) \o Events(log, 1, b)
                               \o Complete(log, server.epoch + 1)
                          ELSE rwire
              /\ history' = [history EXCEPT !.batches = b]
    /\ UNCHANGED <<receiver, identity, emitter, ewire, replies, game, stage>>

-----------------------------------------------------------------------------
(* The game thread: the user's edits and calls between ticks. *)

\* An edit reaches the listener of an attached stage; DetachFromStageActor
\* has taken it away otherwise.
UserEdit ==
    /\ game.at = "idle"
    /\ Spend("edit")
    /\ \E s \in history.edited :
          /\ stage' = [stage EXCEPT ![s] = Fresh]
          /\ game' = IF game.attached THEN [game EXCEPT !.pending = @ \cup {PathOf[s]}] ELSE game
          /\ history' = [history EXCEPT !.made = Fresh,
                            !.owed[s] = IF game.attached THEN Fresh ELSE 0,
                            !.stray = IF game.attached THEN @ ELSE @ \cup {s}]
    /\ UNCHANGED <<server, rwire, receiver, identity, emitter, ewire, replies>>

Owed == {s \in Slots : history.owed[s] # 0}
Forgiven(h) == [h EXCEPT !.owed = [s \in Slots |-> 0], !.stray = @ \cup Owed]

\* Disconnect: detach, stop and join the receiver, then wait for the outbox.
UserDisconnect ==
    /\ game.at = "idle" /\ receiver.at # "none"
    /\ Spend("manual")
    /\ game' = [game EXCEPT !.at = "flush", !.attached = FALSE, !.pending = {}, !.emitted = FALSE]
    /\ receiver' = [receiver EXCEPT !.at = "none", !.up = FALSE]
    /\ rwire' = <<>>
    /\ history' = Forgiven(history)
    /\ UNCHANGED <<server, identity, emitter, ewire, replies, stage>>

\* FlushPending ends, drained or timed out; the emitter is stopped and joined.
StopClients ==
    /\ game.at = "flush"
    /\ \E k \in 0..Len(ewire) :
          /\ k > 0 => InSequence
          /\ Committed(SubSeq(ewire, 1, k), [history EXCEPT !.late = FALSE])
    /\ ewire' = <<>> /\ replies' = <<>>
    /\ emitter' = [MarkAllUnsent(emitter) EXCEPT !.at = "none"]
    /\ game' = [game EXCEPT !.at = "idle", !.emitted = FALSE, !.lastGen = 0, !.synchronized = FALSE]
    /\ UNCHANGED <<receiver, identity, stage, left>>

\* Connect, by the user or by the live stage's metadata on its next tick.  It
\* is refused while the producer requires recovery.
ConnectResolved ==
    /\ game.at = "idle" /\ receiver.at = "none" /\ game.attached /\ ~emitter.recovery
    /\ receiver' = NewSession(history.snapshot)
    /\ identity' = NoIdentity
    /\ emitter' = StartEmitter(emitter, history.wait /\ ~game.token)
    /\ UNCHANGED <<server, rwire, ewire, replies, game, stage, left, history>>

-----------------------------------------------------------------------------
(* The game thread: Tick. *)

\* PublishReplayIfApplied, first half: MarkReplayApplied.  The drain goes on
\* with the inbox if it is the first of the tick and there is something in it.
PublishReplayIfApplied(nth) ==
    IF TryMarkReplayApplied(receiver)
    THEN /\ receiver' = [receiver EXCEPT !.marker = None]
         /\ identity' = IdentityApplied(identity)
         /\ game' = [game EXCEPT !.at = IF nth = 1 THEN "open1" ELSE "open2",
                                 !.attached = TRUE, !.mark = receiver.batch]
    ELSE /\ game' = [game EXCEPT !.at = IF nth = 1 /\ receiver.inbox # <<>> THEN "first" ELSE "drain",
                                 !.attached = TRUE, !.last = receiver.applied]
         /\ UNCHANGED <<receiver, identity>>

\* A tick begins: attach to the stage actor when there is none, then DrainAndApply.
Tick ==
    /\ game.at = "idle"
    /\ IF receiver.at # "none" THEN PublishReplayIfApplied(1)
       ELSE /\ game' = [game EXCEPT !.attached = TRUE, !.at = "drain"]
            /\ UNCHANGED <<receiver, identity>>
    /\ UNCHANGED <<server, rwire, emitter, ewire, replies, stage, left, history>>

\* Second half: the gate opens, whatever the receiver thread did in between.
PublishReplay ==
    /\ game.at \in {"open1", "open2"}
    /\ game' = [game EXCEPT !.synchronized = TRUE, !.last = receiver.applied,
                            !.at = IF game.at = "open1" /\ receiver.inbox # <<>> THEN "first"
                                   ELSE "drain"]
    /\ history' = [history EXCEPT !.late = @ \/ game.mark # receiver.batch]
    /\ UNCHANGED <<server, rwire, receiver, identity, emitter, ewire, replies, stage, left>>

\* One turn of DrainAndApply's loop.
ApplyFrame ==
    /\ game.at \in {"first", "apply"} /\ receiver.inbox # <<>>
    /\ LET f == Head(receiver.inbox)
       IN  CASE f.t = "resync" ->
                  /\ receiver' = [TryPop(receiver) EXCEPT !.applied = 0]
                  /\ game' = [game EXCEPT !.at = "apply", !.last = 0, !.synchronized = FALSE]
                  /\ history' = Closes(game')
                  /\ UNCHANGED stage
             [] f.t = "event" /\ f.seq = game.last + 1 ->
                  /\ receiver' = TryPop(receiver)
                  /\ game' = [game EXCEPT !.at = "applied", !.last = f.seq]
                  /\ stage' = [stage EXCEPT ![f.slot] = f.val]
                  /\ history' = [history EXCEPT !.owed[f.slot] = 0, !.stray = @ \ {f.slot}]
             [] OTHER ->
                  /\ receiver' = TryPop(receiver)
                  /\ game' = [game EXCEPT !.at = IF f.seq <= game.last THEN "apply" ELSE "recover"]
                  /\ UNCHANGED <<stage, history>>
    /\ UNCHANGED <<server, rwire, identity, emitter, ewire, replies, left>>

\* The applier fails: the frame is gone from the inbox.
ApplyFails ==
    /\ game.at \in {"first", "apply"} /\ receiver.inbox # <<>>
    /\ Head(receiver.inbox).t = "event" /\ Head(receiver.inbox).seq = game.last + 1
    /\ Spend("failure")
    /\ receiver' = TryPop(receiver)
    /\ game' = [game EXCEPT !.at = "recover"]
    /\ UNCHANGED <<server, rwire, identity, emitter, ewire, replies, stage, history>>

MarkAppliedThrough ==
    /\ game.at = "applied"
    /\ IF MarkAppliedAllowed(receiver, game.last)
       THEN /\ receiver' = [receiver EXCEPT !.applied = game.last]
            /\ game' = [game EXCEPT !.at = "apply"]
       ELSE game' = [game EXCEPT !.at = "recover"] /\ UNCHANGED receiver
    /\ UNCHANGED <<server, rwire, identity, emitter, ewire, replies, stage, left, history>>

\* The queue is empty, or the tick's share of time is spent.
ApplyStops ==
    /\ game.at = "apply" \/ (game.at = "first" /\ receiver.inbox = <<>>)
    /\ PublishReplayIfApplied(2)
    /\ UNCHANGED <<server, rwire, emitter, ewire, replies, stage, left, history>>

\* RequestReceiverReplay: the queue is dropped and the socket interrupted.
RequestReceiverReplay ==
    /\ game.at = "recover"
    /\ receiver' = [RequestReplayFrom(receiver, receiver.applied + 1) EXCEPT !.up = FALSE]
    /\ rwire' = <<>>
    /\ game' = [GenerationChanged(game, receiver'.gen) EXCEPT !.at = "drain"]
    /\ history' = Closes(game')
    /\ UNCHANGED <<server, identity, emitter, ewire, replies, stage, left>>

\* DrainAndEmit's gate.
EmitAllowed == emitter.at = "ready" /\ game.synchronized

\* The pending paths are taken before the gate is looked at.
TakenEarly ==
    /\ game.at = "drain"
    /\ game' = [game EXCEPT !.pending = {},
                            !.todo = IF EmitAllowed THEN {s \in Slots : PathOf[s] \in game.pending} ELSE {},
                            !.at = IF EmitAllowed /\ game.pending # {} THEN "emit" ELSE "idle"]
    /\ UNCHANGED <<server, rwire, receiver, identity, emitter, ewire, replies, stage, left, history>>

\* TryStartDeferredEmitter, then DrainAndEmit up to its loop: a new connection
\* requeues the transforms sent before.
DrainAndEmit ==
    /\ game.at = "drain"
    /\ emitter' = IF emitter.at = "deferred" /\ game.token THEN [emitter EXCEPT !.at = "begin"]
                  ELSE emitter
    /\ LET new == emitter.gen # game.lastGen
           changed == game.pending \cup (IF new /\ game.emitted THEN {"prim"} ELSE {})
       IN  game' = IF EmitAllowed
                   THEN [game EXCEPT !.at = IF changed = {} THEN "idle" ELSE "emit",
                                     !.todo = {s \in Slots : PathOf[s] \in changed},
                                     !.pending = {}, !.lastGen = emitter.gen,
                                     !.emitted = @ /\ ~new]
                   ELSE [game EXCEPT !.at = "idle"]
    /\ UNCHANGED <<server, rwire, receiver, identity, ewire, replies, stage, left, history>>

\* ReadXformTrs finds nothing on a prim without ops; ReadVisibility always answers.
Readable(s) == s = "vis" \/ stage[s] # 0

CanAppend ==
    emitter.at \in {"ready", "closing"} /\ ~emitter.recovery /\ Len(emitter.outbox) < MaxPending

\* A prim's transform is looked at before its visibility and its inputs.
NextSlot ==
    Order[CHOOSE i \in 1..3 : Order[i] \in game.todo
                               /\ \A j \in 1..(i - 1) : Order[j] \notin game.todo]

\* EmitPrimChange and EmitConnectableInputs: one frame at a time.  A frame the
\* session refuses is dropped with the edit it was for.
EmitFrame ==
    /\ game.at = "emit"
    /\ LET s == NextSlot
           sent == Readable(s) /\ CanAppend
           txn == [slot |-> s, val |-> stage[s]]
       IN  /\ emitter' = IF sent THEN [emitter EXCEPT !.outbox = Append(@, txn)] ELSE emitter
           /\ game' = [game EXCEPT !.todo = @ \ {s}, !.emitted = @ \/ (sent /\ s = "xform"),
                                   !.at = IF game.todo = {s} THEN "idle" ELSE "emit"]
           /\ history' = [history EXCEPT
                            !.submitted = IF sent THEN Append(@, txn) ELSE @,
                            !.owed[s] = 0,
                            !.stray = IF s \in Owed /\ ~sent THEN @ \cup {s} ELSE @]
    /\ UNCHANGED <<server, rwire, receiver, identity, ewire, replies, stage, left>>

-----------------------------------------------------------------------------
ReceiverThread ==
    \/ ReceiverBegin \/ ReceiverHello \/ ReceiveEvent \/ ReceiveResync \/ ReceiveComplete
    \/ ReceiveNothing \/ ReadApplied \/ RequestReplay
EmitterThread ==
    EmitterConnect \/ EmitterSend \/ EmitterResult \/ EmitterClose
GameThread ==
    \/ Tick \/ PublishReplay \/ ApplyFrame \/ MarkAppliedThrough
    \/ ApplyStops \/ RequestReceiverReplay \/ DrainAndEmit \/ EmitFrame
User == UserEdit \/ UserDisconnect \/ StopClients \/ ConnectResolved
Faults ==
    \/ ReceiverHelloFails \/ ReceiverLoss \/ EmitterLoss \/ ApplyFails
    \/ ServerReject \/ RewriteHistory

Next == ReceiverThread \/ EmitterThread \/ GameThread \/ User \/ Faults \/ ServerCommit
        \/ RemoteCommit

Spec == Init /\ [][Next]_vars

-----------------------------------------------------------------------------
(* Properties. *)

\* An edit the listener saw is on the stage and waits to be sent until it is
\* submitted, overwritten by a received record, refused or detached; and every
\* submitted transaction is committed once and in order, or still in the outbox.
EditsKept ==
    /\ \A s \in Owed : stage[s] = history.owed[s]
                        /\ (PathOf[s] \in game.pending \/ s \in game.todo)
    /\ history.committed = SubSeq(history.submitted, 1, server.through)
    /\ emitter.acked <= server.through
    /\ emitter.outbox = SubSeq(history.submitted, emitter.acked + 1, Len(history.submitted))

\* Nothing is on its way to the stage.
Quiet ==
    /\ receiver.at = "reading" /\ receiver.up /\ receiver.conn = receiver.gen
    /\ rwire = <<>> /\ receiver.inbox = <<>> /\ game.at \notin {"applied", "recover"}

Uncommitted == {history.submitted[i].slot : i \in (server.through + 1)..Len(history.submitted)}
InLog == {server.log[i].slot : i \in 1..Len(server.log)}

\* A stage with nothing on its way to it shows the server's log: losses,
\* replays, resyncs and failed applications leave no slot behind.  Left out are
\* slots purged from the log, which a Resync does not clear, slots with an edit
\* the plugin dropped, and what a first Hello after a rewrite did not ask for.
StageIsLog ==
    Quiet => \A s \in InLog \ (Owed \cup Uncommitted \cup history.stray) :
                stage[s] = Fold(server.log, Len(server.log))[s]

\* "New native transactions remain gated until replay is applied on the game
\* thread": while the gate is open, nothing of the replay the receiver thread
\* has learnt of is still on its way.  Left out are a gate opened for a replay
\* superseded between PublishReplayIfApplied's two halves, and the generations of a second
\* FSyncClient, which ActiveReplayGeneration takes for old ones.
GateIsApplied ==
    game.synchronized /\ ~history.late /\ receiver.at = "reading"
        /\ receiver.conn = receiver.gen /\ game.replayGen = receiver.gen
    => \A i \in 1..Len(rwire \o receiver.inbox) :
          (rwire \o receiver.inbox)[i].b # receiver.batch

\* The gate is never stuck: a receiver with nothing on its way has it open, or
\* the next PublishReplayIfApplied opens it.
GateOpens ==
    Quiet => game.synchronized \/ game.at \in {"open1", "open2"} \/ TryMarkReplayApplied(receiver)

\* The gate of native edits follows the replay: open only once it is applied
\* on the game thread, and never shut for good (PublishReplayIfApplied).
GateFollowsReplay == GateIsApplied /\ GateOpens
=============================================================================
