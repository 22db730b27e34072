---------------------------- MODULE ReceiverSync ----------------------------
(***************************************************************************)
(* A receiver's copy of the stage.  The server replays its history to a    *)
(* new connection, joins it to live broadcasts at a fixed boundary, and    *)
(* resets it when history is rewritten.  The receiver thread queues what   *)
(* it reads; the stage-owning thread (the consumer) drains and applies it, *)
(* publishes READY, and asks for replay when applying fails.               *)
(*                                                                         *)
(* History h is the log between two rewrites, so record n of history h is  *)
(* Event(h, n).  A server names its history by its instance and the number *)
(* of rewrites since it started; HistoryOf says which history that was.    *)
(* A connection is a slot that is used again once both ends have left it.  *)
(***************************************************************************)
EXTENDS Integers, Sequences, FiniteSets, SequencesExt

CONSTANTS
    Conns,            \* connection slots
    MaxSeq,           \* bound on the length of a history
    MaxRewrites,      \* bound on compactions, purges and snapshots
    MaxFaults,        \* bound on restarts, breaks, timeouts and failed applications
    Scenarios,        \* what else a behaviour may contain:
                      \*   from         first sequence the application does
                      \*                not have when it starts
                      \*   snapshots    bound on snapshots among the rewrites
                      \*   unpublished  bound on commits whose publication
                      \*                raised
                      \*   timeouts     bound on broadcasts that time out
    MaxQueue,         \* max_queue of the receiver
    BroadcastMax      \* _BROADCAST_QUEUE_MAX

ASSUME ReceiverSyncAssumption ==
    /\ IsFiniteSet(Conns) /\ 0 \notin Conns
    /\ {MaxSeq, MaxRewrites, MaxFaults} \subseteq Nat
    /\ Scenarios \subseteq
        [from : 1..(MaxSeq + 1), snapshots : Nat, unpublished : Nat, timeouts : Nat]
    /\ {MaxQueue, BroadcastMax} \subseteq Nat \ {0}

VARIABLES
    \* server
    history,     \* the current history: rewrites so far, durable
    head,        \* its length, durable
    published,   \* its last record that was queued for the receivers
    base,        \* base[i]: history that instance i started with
    receivers,   \* SyncServer.receivers
    queue,       \* broadcasts [frames, targets] put and not finished
    resyncing,   \* receivers _resync_receivers has still to send to
    handler,     \* where each connection's handler is
    out,         \* frames a handler has captured for replay
    \* connections
    link,        \* "free", "up", or "down" at either end
    wire,        \* frames sent and not read
    hello,       \* [sync, claim] of the connection's Hello
    \* receiver thread and inbox
    reader,      \* where the receiver thread is
    conn,        \* its connection, 0 when it has none
    current,     \* the connection's generation is the inbox's generation
    frames,      \* Frames
    received,    \* LastReceivedSequence
    pending,     \* PendingReplay: [n, e, left], left = frames before it
    overflowed,  \* OverflowedValue
    identity,    \* _received_replay_identity
    initial,     \* _initial_replay_identity
    peer,        \* _connection_server_instance
    proven,      \* _connection_prefix_proven
    helloSent,   \* _hello_sent
    resetOnHello,\* _reset_on_hello
    ready,       \* published [n, e, i] while _synchronized_event is set
    \* consumer
    consumer,    \* where the stage-owning thread is
    batch,       \* frames drained and not applied
    applied,     \* the dispatcher's last_seq
    mirror,      \* events the stage holds since its last reset
    \* bounds
    scenario,    \* the one of Scenarios this behaviour is about
    faults, unpublished, timeouts, snapshots,
    missed       \* receivers that were not sent something they should have been

serverVars == <<history, head, published, base, receivers, queue, resyncing, handler, out>>
linkVars == <<link, wire, hello>>
inboxVars == <<current, frames, received, pending, overflowed>>
identityVars == <<identity, initial, peer, proven, helloSent, resetOnHello>>
readerVars == <<reader, conn, inboxVars, identityVars, ready>>
consumerVars == <<consumer, batch, applied, mirror>>
boundVars == <<scenario, faults, unpublished, timeouts, snapshots, missed>>
vars == <<serverVars, linkVars, readerVars, consumerVars, boundVars>>

-----------------------------------------------------------------------------
(* Frames and identities. *)

Event(h, n) == [t |-> "event", h |-> h, n |-> n]

Resync == [t |-> "resync"]

Complete(n, e) == [t |-> "complete", n |-> n, e |-> e]

HelloOk(i, e) == [t |-> "hello", i |-> i, e |-> e]

\* The records n to m of history h.
Records(h, n, m) == [k \in 1..(m - n + 1) |-> Event(h, n + k - 1)]

Log == Records(history, 1, head)

None == <<0, 0>>      \* no identity: server_instance ""

Absent == <<>>        \* a Hello without identity fields

NoReplay == [n |-> 0, e |-> 0, left |-> -1]

NotReady == [n |-> 0, e |-> 0, i |-> -1]

instance == Len(base)

epoch == history - base[instance]

HistoryOf(id) == base[id[1]] + id[2]

-----------------------------------------------------------------------------
Init ==
    /\ scenario \in Scenarios
    /\ history = 0 /\ head = scenario.from - 1 /\ published = head /\ base = <<0>>
    /\ receivers = {} /\ queue = <<>> /\ resyncing = {}
    /\ handler = [c \in Conns |-> "none"]
    /\ out = [c \in Conns |-> <<>>]
    /\ link = [c \in Conns |-> "free"]
    /\ wire = [c \in Conns |-> <<>>]
    /\ hello = [c \in Conns |-> [sync |-> 1, claim |-> Absent]]
    /\ reader = "idle" /\ conn = 0 /\ current = FALSE
    /\ frames = <<>> /\ received = scenario.from - 1
    /\ pending = NoReplay /\ overflowed = FALSE
    /\ identity = None /\ initial = None /\ peer = 0 /\ proven = FALSE
    /\ helloSent = FALSE /\ resetOnHello = FALSE /\ ready = NotReady
    /\ consumer = "idle" /\ batch = <<>> /\ applied = scenario.from - 1
    /\ mirror = Records(0, 1, scenario.from - 1)
    /\ faults = 0 /\ unpublished = 0 /\ timeouts = 0 /\ snapshots = 0 /\ missed = {}

Fault == faults < MaxFaults /\ faults' = faults + 1

-----------------------------------------------------------------------------
(* Server: commits and rewrites.  A commit holds the barrier shared from    *)
(* admission to publication, a rewrite and a replay window hold it alone.   *)

BarrierFree == resyncing = {}

\* _enqueue_broadcast: the targets are fixed when the item is put.
Enqueue(fs) ==
    IF receivers = {} THEN queue ELSE Append(queue, [frames |-> fs, targets |-> receivers])

\* A full queue blocks put; the item being sent is no longer in it.
QueueOpen == receivers = {} \/ Len(queue) <= BroadcastMax

\* A commit persists its record and publishes it.
Commit ==
    /\ BarrierFree /\ QueueOpen /\ head < MaxSeq
    /\ head' = head + 1 /\ published' = head + 1
    /\ queue' = Enqueue(<<Event(history, head + 1)>>)
    /\ UNCHANGED <<history, base, receivers, resyncing, handler, out,
                   linkVars, readerVars, consumerVars, boundVars>>

\* Publication raises and is logged: the record stays unpublished.
CommitUnpublished ==
    /\ BarrierFree /\ head < MaxSeq /\ unpublished < scenario.unpublished
    /\ head' = head + 1
    /\ unpublished' = unpublished + 1
    /\ missed' = missed \cup receivers
    /\ UNCHANGED <<history, published, base, receivers, queue, resyncing, handler, out,
                   linkVars, readerVars, consumerVars, scenario, faults,
                   timeouts, snapshots>>

\* Plausible bug: a rewrite does not wait for queued broadcasts.
BroadcastsIgnored == TRUE

\* rewrite_window waits for the broadcasts put before it.
BroadcastsDrained == queue = <<>>

\* reset_history: a new history of n records and a new epoch.
InstallHistory(n) ==
    /\ BarrierFree /\ BroadcastsDrained
    /\ history < MaxRewrites
    /\ history' = history + 1
    /\ head' = n /\ published' = n
    /\ UNCHANGED <<base, receivers, handler, out, linkVars, readerVars,
                   consumerVars, faults, scenario, unpublished, timeouts, missed>>

\* compact_log keeps at least the last write of a non-empty log.
Compact ==
    \E n \in 1..head :
        InstallHistory(n) /\ resyncing' = receivers /\ UNCHANGED <<queue, snapshots>>

Purge == InstallHistory(0) /\ resyncing' = receivers /\ UNCHANGED <<queue, snapshots>>

\* What replaces a receiver's copy: reset, whole history, completion.
Replacement(h, n, e) == <<Resync>> \o Records(h, 1, n) \o <<Complete(n, e)>>

\* replace_from_stage_snapshot queues the replacement as one item.
ReplaceFromSnapshot ==
    /\ snapshots < scenario.snapshots /\ QueueOpen
    /\ snapshots' = snapshots + 1
    /\ \E n \in 0..MaxSeq :
        /\ InstallHistory(n)
        /\ queue' = Enqueue(Replacement(history + 1, n, epoch + 1))
        /\ UNCHANGED resyncing

-----------------------------------------------------------------------------
(* Server: sends. *)

\* Plausible bug: a send does not take the receiver's send lock.
LockIgnored(c) == TRUE

\* Whoever replays to a receiver holds its send lock.
LockFree(c) == handler[c] # "replay"

\* Bytes reach a connection whose peer is there; others are lost.
Push(c, fs) == wire' = IF link[c] = "up" THEN [wire EXCEPT ![c] = @ \o fs] ELSE wire

\* The front item without target c; an item without targets is done.
Served(c) ==
    LET item == Head(queue) IN
    IF item.targets = {c} THEN Tail(queue)
    ELSE <<[item EXCEPT !.targets = @ \ {c}]>> \o Tail(queue)

\* _send_to_receivers.  A send to a lost connection may fail or not.
BroadcastSend(c) ==
    /\ queue # <<>> /\ c \in Head(queue).targets /\ LockFree(c)
    /\ Push(c, Head(queue).frames)
    /\ queue' = Served(c)
    /\ receivers' \in IF link[c] = "up" THEN {receivers} ELSE {receivers, receivers \ {c}}
    /\ UNCHANGED <<history, head, published, base, resyncing, handler, out, link, hello,
                   readerVars, consumerVars, boundVars>>

\* A slow receiver's send times out after k frames: it is discarded, and what
\* was queued for it earlier is still sent.
BroadcastTimeout(c) ==
    /\ queue # <<>> /\ c \in Head(queue).targets /\ LockFree(c) /\ link[c] = "up"
    /\ timeouts < scenario.timeouts
    /\ timeouts' = timeouts + 1
    /\ \E k \in 0..(Len(Head(queue).frames) - 1) : Push(c, SubSeq(Head(queue).frames, 1, k))
    /\ queue' = Served(c)
    /\ receivers' = receivers \ {c}
    /\ missed' = missed \cup {c}
    /\ UNCHANGED <<history, head, published, base, resyncing, handler, out, link, hello,
                   readerVars, consumerVars, scenario, faults, unpublished, snapshots>>

\* _resync_receivers, one receiver at a time inside the window.
ResyncSend(c) ==
    /\ c \in resyncing /\ LockFree(c)
    /\ Push(c, Replacement(history, head, epoch))
    /\ resyncing' = resyncing \ {c}
    /\ receivers' = IF link[c] = "up" THEN receivers ELSE receivers \ {c}
    /\ UNCHANGED <<history, head, published, base, queue, handler, out, link, hello,
                   readerVars, consumerVars, boundVars>>

\* It times out after k frames.
ResyncTimeout(c) ==
    /\ c \in resyncing /\ LockFree(c) /\ link[c] = "up"
    /\ Fault
    /\ \E k \in 0..(head + 1) : Push(c, SubSeq(Replacement(history, head, epoch), 1, k))
    /\ resyncing' = resyncing \ {c}
    /\ receivers' = receivers \ {c}
    /\ missed' = missed \cup {c}
    /\ UNCHANGED <<history, head, published, base, queue, handler, out, link, hello,
                   readerVars, consumerVars, scenario, unpublished, timeouts, snapshots>>

-----------------------------------------------------------------------------
(* Server: a connection's handler. *)

\* A cursor above one is honoured only with the identity it was read under.
ResumeChanged(h) ==
    h.sync > 1 /\ h.claim # Absent /\ h.claim # <<instance, epoch>>

CursorOutOfRange(h) == h.sync > head + 1

\* The frames that answer a Hello.
Replay(h) ==
    LET reset == ResumeChanged(h) \/ CursorOutOfRange(h)
    IN  <<HelloOk(instance, epoch)>>
        \o (IF reset THEN <<Resync>> ELSE <<>>)
        \o Records(history, IF reset THEN 1 ELSE h.sync, head)
        \o <<Complete(head, epoch)>>

\* receiver_replay_window: registers, captures, keeps only the send lock.
OpenReplayWindow(c) ==
    /\ handler[c] = "hello" /\ BarrierFree
    /\ handler' = [handler EXCEPT ![c] = "replay"]
    /\ out' = [out EXCEPT ![c] = Replay(hello[c])]
    /\ receivers' = receivers \cup {c}
    /\ UNCHANGED <<history, head, published, base, queue, resyncing, linkVars,
                   readerVars, consumerVars, boundVars>>

\* Delivery of the captured frames releases the send lock.
Deliver(c) ==
    /\ handler[c] = "replay" /\ link[c] = "up"
    /\ Push(c, out[c])
    /\ out' = [out EXCEPT ![c] = <<>>]
    /\ handler' = [handler EXCEPT ![c] = "open"]
    /\ UNCHANGED <<history, head, published, base, receivers, queue, resyncing, link, hello,
                   readerVars, consumerVars, boundVars>>

\* What is queued for a handler that has gone raises and is dropped.
Forget(c) ==
    LET left == [i \in 1..Len(queue) |-> [queue[i] EXCEPT !.targets = @ \ {c}]]
    IN  /\ queue' = SelectSeq(left, LAMBDA item : item.targets # {})
        /\ receivers' = receivers \ {c}
        /\ resyncing' = resyncing \ {c}

\* The handler ends: its read loop or a send meets the lost connection.
HandlerExit(c) ==
    /\ handler[c] # "none" /\ link[c] # "up"
    /\ Forget(c)
    /\ handler' = [handler EXCEPT ![c] = "none"]
    /\ out' = [out EXCEPT ![c] = <<>>]
    /\ missed' = missed \ {c}
    /\ UNCHANGED <<history, head, published, base, linkVars, readerVars, consumerVars,
                   faults, scenario, unpublished, timeouts, snapshots>>

\* Delivery times out after k frames; the handler returns and closes.
DeliverFails(c) ==
    /\ handler[c] = "replay" /\ link[c] = "up"
    /\ Fault
    /\ \E k \in 0..(Len(out[c]) - 1) : Push(c, SubSeq(out[c], 1, k))
    /\ link' = [link EXCEPT ![c] = "down"]
    /\ Forget(c)
    /\ handler' = [handler EXCEPT ![c] = "none"]
    /\ out' = [out EXCEPT ![c] = <<>>]
    /\ missed' = missed \ {c}
    /\ UNCHANGED <<history, head, published, base, hello, readerVars,
                   consumerVars, scenario, unpublished, timeouts, snapshots>>

\* The connection breaks; the receiver may still read the first k frames.
Break(c) ==
    /\ link[c] = "up"
    /\ Fault
    /\ link' = [link EXCEPT ![c] = "down"]
    /\ \E k \in 0..Len(wire[c]) : wire' = [wire EXCEPT ![c] = SubSeq(@, 1, k)]
    /\ UNCHANGED <<serverVars, hello, readerVars, consumerVars, scenario,
                   unpublished, timeouts, snapshots, missed>>

\* The server restarts from its store: a new instance, epoch zero.
Restart ==
    /\ Fault
    /\ base' = Append(base, history)
    /\ receivers' = {} /\ queue' = <<>> /\ resyncing' = {}
    /\ handler' = [c \in Conns |-> "none"]
    /\ out' = [c \in Conns |-> <<>>]
    /\ link' = [c \in Conns |-> IF link[c] = "up" THEN "down" ELSE link[c]]
    /\ missed' = {}
    /\ UNCHANGED <<history, head, published, wire, hello, readerVars, consumerVars,
                   scenario, unpublished, timeouts, snapshots>>

-----------------------------------------------------------------------------
(* OrderedReceiverSession, the inbox. *)

ResetSynchronization == pending' = NoReplay /\ ready' = NotReady

\* BeginConnection; it asks for what follows the last sequence received.
BeginGeneration == current' = TRUE /\ ResetSynchronization

\* A marker behind the frames queued so far.
AcceptReplayComplete(n, e) == pending' = [n |-> n, e |-> e, left |-> Len(frames)]

\* Nothing queued survives, and nothing read under the old generation.
RequestReplayFrom(seq) ==
    /\ current' = FALSE
    /\ received' = seq - 1
    /\ frames' = <<>> /\ overflowed' = FALSE
    /\ ResetSynchronization

-----------------------------------------------------------------------------
(* Receiver thread: connecting. *)

\* The Hello of a new connection.  A requested replay has set received.
Connect(c) ==
    /\ reader = "idle" /\ handler[c] = "none"
    /\ BeginGeneration
    /\ reader' = "hello" /\ conn' = c
    /\ link' = [link EXCEPT ![c] = "up"]
    /\ wire' = [wire EXCEPT ![c] = <<>>]
    /\ handler' = [handler EXCEPT ![c] = "hello"]
    /\ hello' = [hello EXCEPT ![c] =
                    [sync |-> received + 1, claim |-> IF helloSent THEN identity ELSE Absent]]
    /\ helloSent' = TRUE
    /\ UNCHANGED <<history, head, published, base, receivers, queue, resyncing, out, frames,
                   received, overflowed, identity, initial, peer, proven, resetOnHello,
                   consumerVars, boundVars>>

\* Accept refuses a frame read under an earlier generation.
CurrentGeneration == current

InboxFull == Len(frames) = MaxQueue

\* The next frame has arrived whole.
Arrived(kind) == wire[conn] # <<>> /\ Head(wire[conn]).t = kind

Consume == wire' = [wire EXCEPT ![conn] = Tail(@)]

\* Accept of a resync frame; the identity it leads to is the handshake's.
AcceptResync ==
    /\ frames' = Append(frames, Resync)
    /\ received' = 0
    /\ ResetSynchronization
    /\ initial' = None
    /\ proven' = TRUE

\* Plausible bug: a completion proves any prefix.
PrefixAssumed(h) == TRUE

\* The server validates every cursor but one sent without an identity.
PrefixProven(h) == h.sync = 1 \/ h.claim # Absent

\* _handle_handshake_message: HelloOk opens the connection.  A reset asked for
\* earlier goes in first; the inbox is empty then.
ReadHello ==
    /\ reader = "hello" /\ Arrived("hello") /\ CurrentGeneration
    /\ Consume
    /\ LET h == hello[conn]
           id == <<Head(wire[conn]).i, Head(wire[conn]).e>>
           known == IF resetOnHello THEN id ELSE identity
           matches == h.claim # Absent /\ known = id
       IN  /\ identity' = IF h.sync = 1 \/ matches THEN id ELSE known
           /\ IF resetOnHello
              THEN AcceptResync
              ELSE /\ initial' = id
                   /\ proven' = PrefixProven(h)
                   /\ UNCHANGED <<frames, received, pending, ready>>
    /\ reader' = "open" /\ resetOnHello' = FALSE
    /\ peer' = Head(wire[conn]).i
    /\ UNCHANGED <<serverVars, link, hello, conn, current, overflowed, helloSent,
                   consumerVars, boundVars>>

-----------------------------------------------------------------------------
(* Receiver thread: reading. *)

\* Accept of an event.
ReadEvent ==
    /\ reader = "open" /\ Arrived("event") /\ CurrentGeneration /\ ~InboxFull
    /\ Consume
    /\ LET f == Head(wire[conn]) IN
        /\ frames' = Append(frames, f)
        /\ received' = IF f.n > received THEN f.n ELSE received
    /\ UNCHANGED <<serverVars, link, hello, reader, conn, current, pending, overflowed,
                   identityVars, ready, consumerVars, boundVars>>

\* Accept of a resync: a live one proves nothing until its completion.
ReadResync ==
    /\ reader = "open" /\ Arrived("resync") /\ CurrentGeneration /\ ~InboxFull
    /\ Consume
    /\ AcceptResync
    /\ identity' = initial
    /\ UNCHANGED <<serverVars, link, hello, reader, conn, current, overflowed,
                   peer, helloSent, resetOnHello, consumerVars, boundVars>>

\* ReplayComplete: the identity it ends with holds if the prefix is proven.
ReadComplete ==
    /\ reader = "open" /\ Arrived("complete") /\ CurrentGeneration
    /\ Consume
    /\ LET f == Head(wire[conn]) IN
        /\ AcceptReplayComplete(f.n, f.e)
        /\ identity' = IF proven THEN <<peer, f.e>> ELSE None
    /\ initial' = None
    /\ UNCHANGED <<serverVars, link, hello, reader, conn, current, frames, received,
                   overflowed, peer, proven, helloSent, resetOnHello, ready,
                   consumerVars, boundVars>>

\* A frame that finds the inbox full ends the connection.
ReadOverflow ==
    /\ reader = "open" /\ CurrentGeneration /\ InboxFull
    /\ \E kind \in {"event", "resync"} : Arrived(kind)
    /\ overflowed' = TRUE
    /\ reader' = "ending"
    /\ UNCHANGED <<serverVars, linkVars, conn, current, frames, received, pending,
                   identityVars, ready, consumerVars, boundVars>>

\* A frame read under an earlier generation ends the connection.
ReadStale ==
    /\ reader \in {"hello", "open"} /\ ~CurrentGeneration
    /\ wire[conn] # <<>>
    /\ reader' = "ending"
    /\ UNCHANGED <<serverVars, linkVars, conn, inboxVars, identityVars, ready,
                   consumerVars, boundVars>>

NothingArrives == wire[conn] = <<>>

\* End of stream, or a broken read.
ReadEnds ==
    /\ reader \in {"hello", "open"} /\ NothingArrives /\ link[conn] # "up"
    /\ reader' = "ending"
    /\ UNCHANGED <<serverVars, linkVars, conn, inboxVars, identityVars, ready,
                   consumerVars, boundVars>>

\* Plausible bug: silence never ends a connection.
NeverUnpinged(c) == FALSE

\* The server pings only the receivers it knows.
Unpinged(c) == handler[c] = "open" /\ c \notin receivers

\* _MAX_CONSECUTIVE_TIMEOUTS reads without a frame.
ReadTimesOut ==
    /\ reader \in {"hello", "open"} /\ NothingArrives /\ link[conn] = "up"
    /\ Unpinged(conn)
    /\ reader' = "ending"
    /\ UNCHANGED <<serverVars, linkVars, conn, inboxVars, identityVars, ready,
                   consumerVars, boundVars>>

\* The same while the server is only late.
ReadGivesUp ==
    /\ reader \in {"hello", "open"} /\ NothingArrives /\ link[conn] = "up"
    /\ ~Unpinged(conn)
    /\ Fault
    /\ reader' = "ending"
    /\ UNCHANGED <<serverVars, linkVars, conn, inboxVars, identityVars, ready,
                   consumerVars, scenario, unpublished, timeouts, snapshots, missed>>

\* run's finally clause: disconnect, close, and wait after an overflow.
EndConnection ==
    /\ reader = "ending"
    /\ reader' = IF overflowed THEN "waiting" ELSE "idle"
    /\ overflowed' = FALSE
    /\ ResetSynchronization
    /\ link' = [link EXCEPT ![conn] = "down"]
    /\ wire' = [wire EXCEPT ![conn] = <<>>]
    /\ conn' = 0
    /\ UNCHANGED <<serverVars, hello, current, frames, received, identityVars,
                   consumerVars, boundVars>>

\* _wait_for_queue_drain
WaitDrained ==
    /\ reader = "waiting" /\ frames = <<>>
    /\ reader' = "idle"
    /\ UNCHANGED <<serverVars, linkVars, conn, inboxVars, identityVars, ready,
                   consumerVars, boundVars>>

WaitTimesOut ==
    /\ reader = "waiting" /\ frames # <<>>
    /\ Fault
    /\ reader' = "idle"
    /\ UNCHANGED <<serverVars, linkVars, conn, inboxVars, identityVars, ready,
                   consumerVars, scenario, unpublished, timeouts, snapshots, missed>>

-----------------------------------------------------------------------------
(* Consumer: decode, apply, acknowledge. *)

\* decode_messages, one message; it stops at the first gap.
Decode(s, f) ==
    CASE s.gap -> s
      [] f.t = "resync" -> [stage |-> <<>>, last |-> 0, gap |-> FALSE, reset |-> TRUE]
      [] f.t = "event" /\ f.n = s.last + 1 ->
            [s EXCEPT !.stage = Append(@, f), !.last = f.n]
      [] f.t = "event" /\ f.n > s.last + 1 -> [s EXCEPT !.gap = TRUE]
      [] OTHER -> s

\* The stage after applying fs to what the consumer has.
Applying(fs) ==
    FoldLeft(Decode, [stage |-> mirror, last |-> applied, gap |-> FALSE, reset |-> FALSE], fs)

\* mark_replay_applied: the frames before the marker were drained.
ReplayDrained == pending # NoReplay /\ pending.left = 0

MarkReplayApplied ==
    IF ReplayDrained
    THEN /\ ready' = [n |-> pending.n, e |-> pending.e, i |-> identity[1]]
         /\ pending' = NoReplay
    ELSE UNCHANGED <<ready, pending>>

\* request_replay_from: what was received no longer proves anything.
RequestReplay(seq) ==
    /\ RequestReplayFrom(seq)
    /\ identity' = None /\ initial' = None
    /\ resetOnHello' = (resetOnHello \/ seq = 1)

\* drain_queue takes the first k frames.
Drain ==
    /\ consumer = "idle"
    /\ \E k \in 1..Len(frames) :
        /\ batch' = SubSeq(frames, 1, k)
        /\ frames' = SubSeq(frames, k + 1, Len(frames))
        /\ pending' = IF pending = NoReplay THEN NoReplay
                      ELSE [pending EXCEPT !.left = IF @ > k THEN @ - k ELSE 0]
    /\ consumer' = "applying"
    /\ UNCHANGED <<serverVars, linkVars, reader, conn, current, received, overflowed,
                   identityVars, ready, applied, mirror, boundVars>>

\* drain_and_apply with nothing to drain.
DrainNothing ==
    /\ consumer = "idle" /\ frames = <<>> /\ ReplayDrained
    /\ MarkReplayApplied
    /\ UNCHANGED <<serverVars, linkVars, reader, conn, current, frames, received,
                   overflowed, identityVars, consumerVars, boundVars>>

\* The batch applies; a gap asks for replay of what follows it.
Apply ==
    /\ consumer = "applying"
    /\ batch' = <<>>
    /\ LET r == Applying(batch) IN
        /\ mirror' = r.stage /\ applied' = r.last
        /\ IF r.gap
           THEN RequestReplay(r.last + 1) /\ consumer' = "closing"
           ELSE /\ MarkReplayApplied /\ consumer' = "idle"
                /\ UNCHANGED <<current, received, frames, overflowed, identity, initial,
                               resetOnHello>>
    /\ UNCHANGED <<serverVars, linkVars, reader, conn, peer, proven, helloSent, boundVars>>

\* Applying raises, part of the batch done: replay from the last cursor.
ApplyFails ==
    /\ consumer = "applying"
    /\ Fault
    /\ batch' = <<>>
    /\ LET r == Applying(batch)
           kept == IF r.reset THEN 0 ELSE applied
       IN  /\ mirror' \in {mirror} \cup {SubSeq(r.stage, 1, k) :
                                k \in (IF r.reset THEN 0 ELSE Len(mirror))..Len(r.stage)}
           /\ applied' = kept
           /\ RequestReplay(kept + 1)
    /\ consumer' = "closing"
    /\ UNCHANGED <<serverVars, linkVars, reader, conn, peer, proven, helloSent,
                   scenario, unpublished, timeouts, snapshots, missed>>

\* _replay_to_fresh_checkpoint: the application asks for a new watermark.
RecoverReplay ==
    /\ consumer = "idle"
    /\ Fault
    /\ RequestReplay(applied + 1)
    /\ consumer' = "closing"
    /\ UNCHANGED <<serverVars, linkVars, reader, conn, peer, proven, helloSent, batch,
                   applied, mirror, scenario, unpublished, timeouts, snapshots, missed>>

\* request_replay_from closes the socket it finds after the lock is released.
CloseSocket ==
    /\ consumer = "closing"
    /\ consumer' = "idle"
    /\ IF conn # 0 /\ link[conn] = "up"
       THEN /\ link' = [link EXCEPT ![conn] = "down"]
            /\ wire' = [wire EXCEPT ![conn] = <<>>]
       ELSE UNCHANGED <<link, wire>>
    /\ UNCHANGED <<serverVars, hello, readerVars, batch, applied, mirror, boundVars>>

-----------------------------------------------------------------------------
Reader ==
    \/ \E c \in Conns : Connect(c)
    \/ ReadHello \/ ReadEvent \/ ReadResync \/ ReadComplete
    \/ ReadOverflow \/ ReadStale \/ ReadEnds \/ ReadTimesOut
    \/ EndConnection \/ WaitDrained

Consumer == Drain \/ DrainNothing \/ Apply \/ CloseSocket

HandlerStep(c) == OpenReplayWindow(c) \/ Deliver(c) \/ HandlerExit(c)

Next ==
    \/ Commit \/ CommitUnpublished
    \/ Compact \/ Purge \/ ReplaceFromSnapshot \/ Restart
    \/ \E c \in Conns :
        \/ BroadcastSend(c) \/ BroadcastTimeout(c)
        \/ ResyncSend(c) \/ ResyncTimeout(c)
        \/ HandlerStep(c) \/ DeliverFails(c) \/ Break(c)
    \/ Reader \/ ReadGivesUp \/ WaitTimesOut
    \/ Consumer \/ ApplyFails \/ RecoverReplay

Spec == Init /\ [][Next]_vars

\* Every thread runs: the receiver's, the application's, the server's.
FairSpec ==
    /\ Spec
    /\ WF_vars(Reader) /\ WF_vars(Consumer)
    /\ WF_vars(\E c \in Conns : BroadcastSend(c))
    /\ WF_vars(\E c \in Conns : ResyncSend(c))
    /\ \A c \in Conns : WF_vars(HandlerStep(c))

-----------------------------------------------------------------------------
(* Properties. *)

\* The stage holds a prefix of one history, never records of two or a record
\* twice: over reconnects, rewrites, restarts, overflows and failed applications
\* (drain_and_apply with request_replay_from and receiver_replay_window).
MirrorIsPrefix ==
    mirror # <<>> => mirror = Records(mirror[1].h, 1, Len(mirror))

\* The same for a receiver that starts empty and that no broadcast times out
\* for: the socket of a receiver whose send timed out stays open, and items
\* queued behind a lost reset can reach the old stage.
PrefixKept == scenario.from = 1 /\ timeouts = 0 => MirrorIsPrefix

\* A replay identity the receiver would send in its next Hello is proof: what
\* it holds and has queued is that history's prefix up to its cursor, unless a
\* gap already queued will make the consumer ask for replay.
IdentityIsProof ==
    identity # None =>
        LET r == Applying(batch \o frames) IN
        r.gap \/ r.stage = Records(HistoryOf(identity), 1, received)

\* READY (mark_replay_applied) means the stage holds the history whose identity
\* is published at least up to the published head.
ReadyIsApplied ==
    ready # NotReady /\ ready.i # 0 =>
        /\ mirror = Records(HistoryOf(<<ready.i, ready.e>>), 1, Len(mirror))
        /\ Len(mirror) >= ready.n

\* What is on its way to connection c.
Coming(c) ==
    LET mine == SelectSeq(queue, LAMBDA item : c \in item.targets)
        queued == FoldLeft(LAMBDA fs, item : fs \o item.frames, <<>>, mine)
    IN  wire[c] \o out[c] \o queued
        \o (IF c \in resyncing THEN Replacement(history, head, epoch) ELSE <<>>)

Registered(c) ==
    c \in receivers \ missed /\ link[c] = "up" /\ handler[c] \in {"replay", "open"}

\* The replay and the broadcasts join without a gap or a repetition: what a
\* registered receiver holds, has queued and will be sent is the server's log.
BoundaryIsExact ==
    scenario.from = 1 /\ conn # 0 /\ reader \in {"hello", "open"} /\ current /\ Registered(conn)
    /\ ~Applying(batch \o frames).gap =>
        LET reset == IF resetOnHello THEN <<Resync>> ELSE <<>>
            r == Applying(reset \o batch \o frames \o Coming(conn))
        IN  ~r.gap /\ r.stage = Log

\* From the boundary between replay and broadcasts to READY nothing is left out:
\* what will be delivered is the log, and READY waits for it to be applied.
DeliveryIsExact == BoundaryIsExact /\ ReadyIsApplied

\* Once faults, commits and rewrites end, the receiver is READY, stays so, and
\* holds the server's log: all of it, but for records at its end whose
\* publication raised and that no published record follows.
Converges ==
    <>[](/\ ready # NotReady /\ reader = "open"
         /\ IsPrefix(mirror, Log) /\ Len(mirror) >= published)

=============================================================================
