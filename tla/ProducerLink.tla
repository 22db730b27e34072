---------------------------- MODULE ProducerLink ----------------------------
(***************************************************************************)
(* One producer and the server it talks to: the native outbox and session  *)
(* (OrderedOutboxStorage, OrderedProducerSession), the threads of          *)
(* EventSender around it, the TCP connections of successive generations,   *)
(* and for each connection the handler's read and result loops.            *)
(*                                                                         *)
(* A connection is named by the session generation it was opened in.  The  *)
(* server commits a request when it reads it: ServerCommit shows that the  *)
(* coordinator decides requests one by one in the order of submission.     *)
(***************************************************************************)
EXTENDS Integers, Sequences, FiniteSetsExt

CONSTANTS
    Capacity,     \* max_pending_transactions
    ResultQueue,  \* maxsize of a handler's pending_replies
    MaxTxn,       \* bound: transactions submitted in a session
    Scenarios,    \* what the application and the environment may do:
                  \*   kinds     payload kinds it submits, see Verdict
                  \*   modes     values of background_send
                  \*   sessions  bound: producer sessions, one more per
                  \*             abandonment
                  \*   repairs   bound: repaired rejections
                  \*   flips     bound: detachments and reattachments of the
                  \*             layer
                  \*   faults    bound: all else that ends a connection,
                  \*             abandonments too
    None

ASSUME ProducerLinkAssumption ==
    /\ Capacity \in Nat \ {0} /\ ResultQueue \in Nat \ {0} /\ MaxTxn \in Nat
    /\ Scenarios # {} /\ IsFiniteSet(Scenarios)
    /\ Scenarios \subseteq
        [kinds : SUBSET {"plain", "layered", "invalid"},
         modes : SUBSET BOOLEAN,
         sessions : Nat \ {0}, repairs : Nat, flips : Nat, faults : Nat]

Most(bound) == Max({s[bound] : s \in Scenarios})
Sessions == 1..Most("sessions")
\* Each connection but the last is ended by a fault, a repair or an
\* abandonment; an abandonment takes a generation of its own too.
MaxGen == Max({s.faults + s.repairs + s.sessions : s \in Scenarios})
Gens == 1..MaxGen
Payloads == [kind : UNION {s.kinds : s \in Scenarios},
             rev : 0..Most("repairs")]
Frames == [kind : {"hello", "txn"}, id : Nat, p : Payloads \cup {None}]
Replies == [kind : {"hello", "ack", "stale", "invalid", "unexpected",
                    "limited", "error"}, id : Nat, head : Nat]

VARIABLES
    \* OrderedProducerSession and its outbox
    phase,        \* PhaseValue
    gen,          \* GenerationValue
    queue,        \* Queue: [id, p] in order
    unsent,       \* NextUnsentIndex, entries before it are sent
    nextId,       \* NextTransactionIdValue
    lastAcked,    \* LastAcknowledgedTransactionIdValue
    rejectedId,   \* RejectedTransactionIdValue
    disposition,  \* RecoveryDispositionValue
    \* EventSender
    session,      \* session_id
    background,   \* background_send: a writer thread sends the outbox
    sock,         \* generation of the published socket, 0 for None
    failure,      \* _failure: [id, disposition] or None
    artifact,     \* transactions of _recovery_artifact
    checkpoint,   \* _acknowledged_checkpoint: head_seq, 0 for None
    attempt,      \* where _connect_locked is
    live,         \* the attempt's epoch is still _connect_epoch
    caller,       \* [g, e] that a synchronous send_events is sending, or None
    claimed,      \* entry the background writer has claimed, or None
    rpc,          \* where the reader thread of each generation is
    hand,         \* the reply a reader has received and not applied
    \* connections
    link,         \* "unused", "up", "shut" by the client, "down" otherwise
    toServer,     \* frames sent and not read
    toClient,     \* replies sent and not received
    \* ConnectionHandler
    owner,        \* _producer_session_id
    results,      \* pending_replies
    outgoing,     \* results of the batch that is being resolved
    \* server state
    log,          \* committed transactions [s, id, p]
    committed,    \* producer_committed_through
    attached,     \* the layer that "layered" payloads edit is reachable
    \* history and bounds
    versions,     \* payloads submitted for each session and id
    acked,        \* per session, lastAcked
    scenario,     \* the one of Scenarios this behaviour is about
    faults, flips, repairs

outbox == <<queue, unsent, nextId, lastAcked>>
recovery == <<rejectedId, disposition>>
native == <<phase, gen, outbox, recovery>>
record == <<failure, artifact>>
connecting == <<attempt, live>>
senders == <<caller, claimed>>
reader == <<rpc, hand>>
identity == <<session, background, scenario>>
sender == <<identity, sock, record, checkpoint, connecting, senders, reader>>
network == <<link, toServer, toClient>>
handler == <<owner, results, outgoing>>
server == <<log, committed, attached>>
history == <<versions, acked>>
bounds == <<faults, flips, repairs>>
vars == <<native, sender, network, handler, server, history, bounds>>

Reply(kind, id, head) == [kind |-> kind, id |-> id, head |-> head]
Hello == [kind |-> "hello", id |-> 0, p |-> None]
Txn(e) == [kind |-> "txn", id |-> e.id, p |-> e.p]

\* A step that uses up one of the bounded faults.
Fault == faults < scenario.faults /\ faults' = faults + 1

Init ==
    /\ phase = "disconnected" /\ gen = 0
    /\ queue = <<>> /\ unsent = 0 /\ nextId = 1 /\ lastAcked = 0
    /\ rejectedId = 0 /\ disposition = "none"
    /\ scenario \in Scenarios /\ background \in scenario.modes
    /\ session = 1 /\ sock = 0
    /\ failure = None /\ artifact = <<>>
    /\ checkpoint = 0
    /\ attempt = "idle" /\ live = FALSE
    /\ caller = None /\ claimed = None
    /\ rpc = [g \in Gens |-> "none"]
    /\ hand = [g \in Gens |-> None]
    /\ link = [g \in Gens |-> "unused"]
    /\ toServer = [g \in Gens |-> <<>>]
    /\ toClient = [g \in Gens |-> <<>>]
    /\ owner = [g \in Gens |-> 1]
    /\ results = [g \in Gens |-> <<>>]
    /\ outgoing = [g \in Gens |-> <<>>]
    /\ log = <<>> /\ committed = [s \in Sessions |-> 0] /\ attached = TRUE
    /\ versions = [s \in Sessions |-> <<>>]
    /\ acked = [s \in Sessions |-> 0]
    /\ faults = 0 /\ flips = 0 /\ repairs = 0

-----------------------------------------------------------------------------
(* OrderedOutboxStorage and OrderedProducerSession.                        *)

Greater(m, n) == IF m > n THEN m ELSE n

\* Plausible bug: a claimed entry stays claimed on the next connection.
KeepClaimed == UNCHANGED unsent

MarkAllUnsent == unsent' = 0

\* Plausible bug: the acknowledged id is taken for the next one.
RemovedTooMany(id) ==
    Cardinality({i \in DOMAIN queue : \A j \in 1..i : queue[j].id <= id + 1})

\* How many entries from the front have an id of at most id.
Removed(id) ==
    Cardinality({i \in DOMAIN queue : \A j \in 1..i : queue[j].id <= id})

\* The cursor after the acknowledged front is gone.
CursorAfter(id) ==
    IF Removed(id) < unsent THEN unsent - Removed(id) ELSE 0

AcknowledgeOutbox(id) ==
    /\ queue' = SubSeq(queue, Removed(id) + 1, Len(queue))
    /\ unsent' = CursorAfter(id)
    /\ nextId' = Greater(nextId, id + 1)
    /\ lastAcked' = Greater(lastAcked, id)
    /\ acked' = [acked EXCEPT ![session] = Greater(lastAcked, id)]

\* ValidateHighwater: neither ahead of what was submitted nor behind what
\* was acknowledged.
HighwaterValid(id) == id < nextId /\ id >= lastAcked

EnterRecovery(id, d) ==
    /\ MarkAllUnsent
    /\ rejectedId' = id /\ disposition' = d
    /\ phase' = "recovery"

ClearRecovery == rejectedId' = 0 /\ disposition' = "none"

\* BeginConnection.
BeginSession ==
    /\ phase # "recovery"
    /\ gen' = gen + 1
    /\ MarkAllUnsent
    /\ phase' = "awaiting"

\* AcceptHello, when the connection of this generation awaits it.
AcceptHighwater(through) ==
    IF HighwaterValid(through)
    THEN /\ AcknowledgeOutbox(through)
         /\ phase' = "ready"
         /\ UNCHANGED recovery
    ELSE /\ EnterRecovery(0, "fatal")
         /\ UNCHANGED <<queue, nextId, lastAcked, acked>>

\* Disconnect with the current generation.
EndSession ==
    /\ MarkAllUnsent
    /\ phase' = IF phase = "recovery" THEN phase ELSE "disconnected"

\* CanAppend, and Append of the next id.
CanAppend == phase = "ready" /\ Len(queue) < Capacity

AppendNext(p) ==
    /\ queue' = Append(queue, [id |-> nextId, p |-> p])
    /\ nextId' = nextId + 1
    /\ UNCHANGED <<unsent, lastAcked>>

\* ClaimNextUnsent hands out an entry in this phase.
Claimable == phase = "ready" /\ unsent < Len(queue)

ClaimNext == unsent' = unsent + 1

\* AcknowledgeThrough in the phase "ready".
AcknowledgeThrough(id) ==
    IF HighwaterValid(id)
    THEN /\ AcknowledgeOutbox(id)
         /\ UNCHANGED <<phase, recovery>>
    ELSE /\ EnterRecovery(0, "fatal")
         /\ UNCHANGED <<queue, nextId, lastAcked, acked>>

Contains(id) == \E i \in DOMAIN queue : queue[i].id = id

\* Reject: a transaction the outbox does not hold is fatal.
Reject(id, d) == EnterRecovery(id, IF Contains(id) THEN d ELSE "fatal")

\* RepairRejected of a recoverable conflict.
RepairRejected(p) ==
    /\ phase = "recovery" /\ disposition = "conflict"
    /\ queue' = [i \in DOMAIN queue |->
                  IF queue[i].id = rejectedId
                  THEN [id |-> rejectedId, p |-> p] ELSE queue[i]]
    /\ ClearRecovery
    /\ phase' = "disconnected"
    /\ UNCHANGED <<gen, unsent, nextId, lastAcked>>

ResetSession ==
    /\ gen' = gen + 1
    /\ queue' = <<>> /\ unsent' = 0 /\ nextId' = 1 /\ lastAcked' = 0
    /\ ClearRecovery
    /\ phase' = "disconnected"

-----------------------------------------------------------------------------
(* EventSender: opening a connection.                                      *)

\* _send_lock is held by a synchronous send and by the replay of a
\* synchronous reconnect.
SendLockFree == caller = None /\ attempt # "replay"

\* send_raw on the connection g: what is sent after the peer is gone is lost.
Transmit(g, e) ==
    toServer' = IF link[g] = "up"
                THEN [toServer EXCEPT ![g] = Append(@, Txn(e))]
                ELSE toServer

\* _close_socket_object: the peer can still read what was sent; nothing
\* more is received.
CloseEnd(g) ==
    /\ link' = [link EXCEPT ![g] = IF @ = "up" THEN "shut" ELSE @]
    /\ toClient' = [toClient EXCEPT ![g] = <<>>]

\* _close(expected=g).
Close(g) ==
    IF sock = g
    THEN /\ sock' = 0
         /\ claimed' = None
         /\ EndSession
         /\ CloseEnd(g)
    ELSE UNCHANGED <<sock, claimed, unsent, phase, link, toClient>>

\* _connect_locked up to the hello: request_connect, connect and flush end
\* here.  The connection may turn out to be refused, see AttemptFails.
BeginConnection ==
    /\ attempt = "idle" /\ sock = 0 /\ gen < MaxGen
    /\ BeginSession
    /\ attempt' = "hello" /\ live' = TRUE
    /\ link' = [link EXCEPT ![gen + 1] = "up"]
    /\ toServer' = [toServer EXCEPT ![gen + 1] = <<Hello>>]
    /\ owner' = [owner EXCEPT ![gen + 1] = session]
    /\ UNCHANGED <<queue, nextId, lastAcked, recovery, identity, sock, record,
                   checkpoint, senders, reader, toClient, results,
                   outgoing, server, history, bounds>>

\* The attempt ends before its socket is published: refused, timed out,
\* rejected by the server, cut off or cancelled.
AttemptFails ==
    /\ attempt \in {"hello", "accepted"}
    /\ IF live /\ link[gen] = "up" THEN Fault ELSE UNCHANGED faults
    /\ EndSession
    /\ attempt' = "idle"
    /\ CloseEnd(gen)
    /\ UNCHANGED <<gen, queue, nextId, lastAcked, recovery, identity, sock,
                   record, checkpoint, live, senders, reader,
                   toServer, handler, server, history, flips, repairs>>

\* _record_session_failure_locked keeps the outbox as evidence.
RecordFailure(f) == failure' = f /\ artifact' = queue

\* Plausible bug: the checkpoint of an earlier connection survives.
KeepCheckpoint == UNCHANGED checkpoint

ForgetCheckpoint == checkpoint' = 0

\* _accept_handshake_response of a HelloOk.
AcceptHello ==
    /\ attempt = "hello" /\ toClient[gen] # <<>>
    /\ LET through == Head(toClient[gen]).id
       IN  /\ AcceptHighwater(through)
           /\ IF HighwaterValid(through)
              THEN /\ attempt' = "accepted"
                   /\ toClient' = [toClient EXCEPT ![gen] = Tail(@)]
                   /\ UNCHANGED <<record, link>>
              ELSE /\ attempt' = "idle"
                   /\ RecordFailure([id |-> through, disposition |-> "fatal"])
                   /\ CloseEnd(gen)
    /\ ForgetCheckpoint
    /\ UNCHANGED <<gen, identity, sock, live, senders, reader,
                   toServer, handler, server, versions, bounds>>

StillWanted == live

\* The socket is published under _send_lock; in background mode the reader
\* and the writer start, otherwise the outbox is replayed first.
Publish ==
    /\ attempt = "accepted" /\ SendLockFree /\ StillWanted
    /\ sock' = gen
    /\ IF background
       THEN attempt' = "idle" /\ rpc' = [rpc EXCEPT ![gen] = "waiting"]
       ELSE attempt' = "replay" /\ UNCHANGED rpc
    /\ UNCHANGED <<native, identity, record, checkpoint, live,
                   senders, hand, network, handler, server, history, bounds>>

\* Synchronous mode: replay the next entry of the outbox, ...
ReplayNext ==
    /\ attempt = "replay" /\ Claimable
    /\ ClaimNext
    /\ Transmit(gen, queue[unsent + 1])
    /\ UNCHANGED <<phase, gen, queue, nextId, lastAcked, recovery, sender,
                   link, toClient, handler, server, history, bounds>>

\* ... start the reader when the outbox is replayed, ...
ReplayDone ==
    /\ attempt = "replay" /\ ~Claimable
    /\ attempt' = "idle"
    /\ rpc' = [rpc EXCEPT ![gen] = "waiting"]
    /\ UNCHANGED <<native, identity, sock, record, checkpoint, live,
                   senders, hand, network, handler, server, history, bounds>>

\* ... or give the socket up when sending fails.
ReplayFails ==
    /\ attempt = "replay" /\ link[gen] = "down"
    /\ attempt' = "idle"
    /\ Close(gen)
    /\ UNCHANGED <<gen, queue, nextId, lastAcked, recovery, identity, record,
                   checkpoint, live, caller, reader, toServer,
                   handler, server, history, bounds>>

\* cancel_connect; the attempt in progress loses its socket.
CancelConnect ==
    /\ attempt \in {"hello", "accepted"} /\ live /\ Fault
    /\ live' = FALSE
    /\ CloseEnd(gen)
    /\ UNCHANGED <<native, identity, sock, record, checkpoint, attempt,
                   senders, reader, toServer, handler, server, history,
                   flips, repairs>>

\* disconnect of a published socket.
Disconnect ==
    /\ sock # 0 /\ Fault
    /\ background \/ SendLockFree
    /\ Close(sock)
    /\ UNCHANGED <<gen, queue, nextId, lastAcked, recovery, identity, record,
                   checkpoint, connecting, caller, reader, toServer, handler,
                   server, history, flips, repairs>>

-----------------------------------------------------------------------------
(* EventSender: submitting and sending.                                    *)

Submitted(s, p) == versions' = [versions EXCEPT ![s] = Append(@, <<p>>)]

\* send_events appends to the outbox; a synchronous caller goes on to send
\* under _send_lock.
SendEvents(p) ==
    /\ sock # 0 /\ failure = None /\ CanAppend /\ nextId <= MaxTxn
    /\ IF background THEN UNCHANGED caller
       ELSE /\ SendLockFree
            /\ caller' = [g |-> sock, e |-> [id |-> nextId, p |-> p]]
    /\ AppendNext(p)
    /\ Submitted(session, p)
    /\ UNCHANGED <<phase, gen, recovery, identity, sock, record, checkpoint,
                   connecting, claimed, reader, network, handler, server,
                   acked, bounds>>

\* The rest of a synchronous send_events: the bytes are sent, ...
FinishSend ==
    /\ caller # None
    /\ Transmit(caller.g, caller.e)
    /\ caller' = None
    /\ UNCHANGED <<native, identity, sock, record, checkpoint, connecting,
                   claimed, reader, link, toClient, handler, server, history,
                   bounds>>

\* ... or sending raises and the socket is closed.
SendRaises ==
    /\ caller # None /\ link[caller.g] \in {"shut", "down"}
    /\ Close(caller.g)
    /\ caller' = None
    /\ UNCHANGED <<gen, queue, nextId, lastAcked, recovery, identity, record,
                   checkpoint, connecting, reader, toServer, handler, server,
                   history, bounds>>

\* _write_pending claims under the condition, ...
WriterClaim ==
    /\ background /\ sock # 0 /\ failure = None /\ claimed = None
    /\ Claimable
    /\ claimed' = queue[unsent + 1]
    /\ ClaimNext
    /\ UNCHANGED <<phase, gen, queue, nextId, lastAcked, recovery, identity,
                   sock, record, checkpoint, connecting, caller, reader,
                   network, handler, server, history, bounds>>

\* ... sends under _send_lock if its socket is still the published one (a
\* writer whose socket is closed ends, and its claim with it, see Close), ...
WriterSend ==
    /\ claimed # None /\ SendLockFree
    /\ Transmit(sock, claimed)
    /\ claimed' = None
    /\ UNCHANGED <<native, identity, sock, record, checkpoint, connecting,
                   caller, reader, link, toClient, handler, server, history,
                   bounds>>

\* ... or closes the socket when sending raises.
WriterRaises ==
    /\ claimed # None /\ link[sock] = "down"
    /\ Close(sock)
    /\ UNCHANGED <<gen, queue, nextId, lastAcked, recovery, identity, record,
                   checkpoint, connecting, caller, reader, toServer, handler,
                   server, history, bounds>>

-----------------------------------------------------------------------------
(* EventSender: the reader thread of each generation.                      *)

\* recv_framed returns a reply while the socket is open.
ReceiveResult(g) ==
    /\ rpc[g] = "waiting" /\ sock = g /\ toClient[g] # <<>>
    /\ hand' = [hand EXCEPT ![g] = Head(toClient[g])]
    /\ toClient' = [toClient EXCEPT ![g] = Tail(@)]
    /\ rpc' = [rpc EXCEPT ![g] = "holding"]
    /\ UNCHANGED <<native, identity, sock, record, checkpoint, connecting,
                   senders, link, toServer, handler, server, history, bounds>>

\* recv_framed raises: the connection is gone, or another thread closed it.
ReceiveRaises(g) ==
    /\ rpc[g] = "waiting"
    /\ sock # g \/ (link[g] = "down" /\ toClient[g] = <<>>)
    /\ rpc' = [rpc EXCEPT ![g] = "closing"]
    /\ UNCHANGED <<native, identity, sock, record, checkpoint, connecting,
                   senders, hand, network, handler, server, history, bounds>>

\* _accept_result applies a reply only to the session of its connection.
CurrentGeneration(g) == sock = g

\* RejectionDisposition of a rejection code.
DispositionOf(kind) ==
    CASE kind = "stale" -> "conflict"
      [] kind = "invalid" -> "invalid"
      [] OTHER -> "fatal"

\* The code of a rejection the outbox knows, unexpected_id of one it does not.
FailureOf(r) ==
    [id |-> r.id,
     disposition |-> IF Contains(r.id) THEN DispositionOf(r.kind) ELSE "fatal"]

Acknowledged(r) ==
    /\ AcknowledgeThrough(r.id)
    /\ IF HighwaterValid(r.id)
       THEN checkpoint' = r.head /\ UNCHANGED record
       ELSE /\ RecordFailure([id |-> r.id, disposition |-> "fatal"])
            /\ UNCHANGED checkpoint

Rejected(r) ==
    /\ Reject(r.id, DispositionOf(r.kind))
    /\ RecordFailure(FailureOf(r))
    /\ UNCHANGED <<queue, nextId, lastAcked, acked, checkpoint>>

\* The reply is applied, or ignored when its connection is no longer the
\* published one.  A failure is followed by _close, see CloseReader.
ApplyResult(g) ==
    /\ rpc[g] = "holding" /\ hand[g].kind # "limited"
    /\ hand' = [hand EXCEPT ![g] = None]
    /\ IF CurrentGeneration(g)
       THEN /\ IF hand[g].kind = "ack" THEN Acknowledged(hand[g])
               ELSE Rejected(hand[g])
            /\ rpc' = [rpc EXCEPT ![g] = IF failure' = None THEN "waiting"
                                         ELSE "closing"]
       ELSE /\ rpc' = [rpc EXCEPT ![g] = "waiting"]
            /\ UNCHANGED <<phase, outbox, recovery, record, checkpoint, acked>>
    /\ UNCHANGED <<gen, identity, sock, connecting, senders, network, handler,
                   server, versions, bounds>>

\* Plausible bug: the reader goes on after RateLimited.
AfterLimitedReads == "waiting"

\* RateLimited ends the reader; connecting waits for retry_after.
AfterLimited == "closing"

ApplyLimited(g) ==
    /\ rpc[g] = "holding" /\ hand[g].kind = "limited"
    /\ hand' = [hand EXCEPT ![g] = None]
    /\ rpc' = [rpc EXCEPT ![g] = AfterLimited]
    /\ UNCHANGED <<native, identity, sock, record, checkpoint, connecting,
                   senders, network, handler, server, history, bounds>>

\* _close(expected=sock) of a reader that ends or has recorded a failure.
CloseReader(g) ==
    /\ rpc[g] = "closing"
    /\ rpc' = [rpc EXCEPT ![g] = "none"]
    /\ Close(g)
    /\ UNCHANGED <<gen, queue, nextId, lastAcked, recovery, identity, record,
                   checkpoint, connecting, caller, hand, toServer, handler,
                   server, history, bounds>>

-----------------------------------------------------------------------------
(* EventSender: recovery from a rejection.                                 *)

ClearFailure == failure' = None /\ artifact' = <<>>

\* Both recoveries disconnect first.
CloseForRecovery ==
    /\ SendLockFree
    /\ sock' = 0
    /\ claimed' = None
    /\ IF sock # 0 THEN CloseEnd(sock) ELSE UNCHANGED <<link, toClient>>

\* repair_rejected_transaction puts p in place of the rejected transaction.
RepairRejectedTransaction(p) ==
    /\ failure # None /\ failure.disposition = "conflict"
    /\ repairs < scenario.repairs /\ repairs' = repairs + 1
    /\ CloseForRecovery
    /\ RepairRejected(p)
    /\ ClearFailure
    /\ versions' = [versions EXCEPT ![session][failure.id] = Append(@, p)]
    /\ UNCHANGED <<identity, checkpoint, connecting, caller, reader, toServer,
                   handler, server, acked, faults, flips>>

NewSession == session' = session + 1 /\ UNCHANGED <<background, scenario>>

\* abandon_rejected_session discards the outbox and takes a new session_id.
AbandonRejectedSession ==
    /\ failure # None /\ session < scenario.sessions /\ Fault
    /\ CloseForRecovery
    /\ ResetSession
    /\ NewSession
    /\ ClearFailure
    /\ UNCHANGED <<checkpoint, connecting, caller, reader, toServer, handler,
                   server, history, flips, repairs>>

-----------------------------------------------------------------------------
(* ConnectionHandler and the server behind it.                             *)

\* The server sends r on g; after the peer is gone it is lost.
Answer(g, r) ==
    toClient' = IF link[g] = "up"
                THEN [toClient EXCEPT ![g] = Append(@, r)] ELSE toClient

\* handle: the answer to an emitter's hello carries its committed id.
ServeHello(g) ==
    /\ toServer[g] # <<>> /\ Head(toServer[g]).kind = "hello"
    /\ toServer' = [toServer EXCEPT ![g] = Tail(@)]
    /\ Answer(g, Reply("hello", committed[owner[g]], 0))
    /\ UNCHANGED <<native, sender, link, handler, server, history, bounds>>

\* What the server makes of a payload whose turn it is: an edit of a layer
\* that is not reachable conflicts, an invalid one is refused by its content.
Verdict(p) ==
    CASE p.kind = "layered" /\ ~attached -> "stale"
      [] p.kind = "invalid" -> "invalid"
      [] OTHER -> "ack"

\* Plausible bug: the last committed id passes as the next one.
OutcomeOffByOne(s, f) ==
    IF f.id < committed[s] THEN Reply("ack", committed[s], 0)
    ELSE IF f.id > committed[s] + 1 THEN Reply("unexpected", f.id, 0)
    ELSE Reply(Verdict(f.p), f.id,
               IF Verdict(f.p) = "ack" THEN Len(log) + 1 ELSE 0)

\* The outcome of request f of session s; only a commit has a checkpoint.
Outcome(s, f) ==
    IF f.id <= committed[s] THEN Reply("ack", committed[s], 0)
    ELSE IF f.id # committed[s] + 1 THEN Reply("unexpected", f.id, 0)
    ELSE Reply(Verdict(f.p), f.id,
               IF Verdict(f.p) = "ack" THEN Len(log) + 1 ELSE 0)

NextTxn(g) ==
    /\ toServer[g] # <<>> /\ Head(toServer[g]).kind = "txn"
    /\ toServer' = [toServer EXCEPT ![g] = Tail(@)]

\* _read_loop submits a transaction and queues its result.
ServeTxn(g) ==
    /\ NextTxn(g) /\ Len(results[g]) < ResultQueue
    /\ LET f == Head(toServer[g])
           s == owner[g]
           out == Outcome(s, f)
       IN  /\ results' = [results EXCEPT ![g] = Append(@, out)]
           /\ IF out.kind = "ack" /\ out.head > 0
              THEN /\ log' = Append(log, [s |-> s, id |-> f.id, p |-> f.p])
                   /\ committed' = [committed EXCEPT ![s] = f.id]
              ELSE UNCHANGED <<log, committed>>
    /\ UNCHANGED <<native, sender, link, toClient, owner, outgoing, attached,
                   history, bounds>>

\* The commit fails without a result the protocol can express.
ServeError(g) ==
    /\ NextTxn(g) /\ Len(results[g]) < ResultQueue /\ Fault
    /\ Head(toServer[g]).id = committed[owner[g]] + 1
    /\ results' = [results EXCEPT ![g] = Append(@, Reply("error", 0, 0))]
    /\ UNCHANGED <<native, sender, link, toClient, owner, outgoing, server,
                   history, flips, repairs>>

\* _read_loop drops a transaction for which the bucket has no token, says so
\* ahead of the queued results, and reads on.
ServeLimited(g) ==
    /\ NextTxn(g) /\ Fault
    /\ Answer(g, Reply("limited", 0, 0))
    /\ UNCHANGED <<native, sender, link, handler, server, history, flips,
                   repairs>>

\* An acknowledgement right after another replaces it.
Coalesce(out, r) ==
    IF out # <<>> /\ r.kind = "ack" /\ out[Len(out)].kind = "ack"
    THEN [out EXCEPT ![Len(out)] = r] ELSE Append(out, r)

\* _transaction_result_loop takes the next result; one without a reply shuts
\* the socket down, and nothing is sent any more.
ResolveResult(g) ==
    /\ results[g] # <<>>
    /\ results' = [results EXCEPT ![g] = Tail(@)]
    /\ IF Head(results[g]).kind = "error"
       THEN /\ link' = [link EXCEPT ![g] = IF @ = "up" THEN "down" ELSE @]
            /\ UNCHANGED outgoing
       ELSE /\ outgoing' = [outgoing EXCEPT ![g] =
                              Coalesce(@, Head(results[g]))]
            /\ UNCHANGED link
    /\ UNCHANGED <<native, sender, toServer, toClient, owner, server, history,
                   bounds>>

\* The batch is sent: it is full, or the queue was found empty.
SendResults(g) ==
    /\ outgoing[g] # <<>>
    /\ toClient' = IF link[g] = "up"
                   THEN [toClient EXCEPT ![g] = @ \o outgoing[g]]
                   ELSE toClient
    /\ outgoing' = [outgoing EXCEPT ![g] = <<>>]
    /\ UNCHANGED <<native, sender, link, toServer, owner, results, server,
                   history, bounds>>

\* The network drops a connection with a suffix of what is under way.
Break(g) ==
    /\ link[g] \in {"up", "shut"} /\ Fault
    /\ link' = [link EXCEPT ![g] = "down"]
    /\ \E i \in 0..Len(toServer[g]), j \in 0..Len(toClient[g]) :
        /\ toServer' = [toServer EXCEPT ![g] = SubSeq(@, 1, i)]
        /\ toClient' = [toClient EXCEPT ![g] = SubSeq(@, 1, j)]
    /\ UNCHANGED <<native, sender, handler, server, history, flips, repairs>>

\* The server stops and starts again: the connections are gone, the log and
\* the committed ids are durable.
Restart ==
    /\ Fault
    /\ link' = [g \in Gens |-> IF link[g] = "unused" THEN "unused" ELSE "down"]
    /\ toServer' = [g \in Gens |-> <<>>]
    /\ results' = [g \in Gens |-> <<>>]
    /\ outgoing' = [g \in Gens |-> <<>>]
    /\ UNCHANGED <<native, sender, toClient, owner, server, history, flips,
                   repairs>>

\* Another client detaches the layer, or attaches it again.
EditGraph ==
    /\ flips < scenario.flips /\ flips' = flips + 1
    /\ attached' = ~attached
    /\ UNCHANGED <<native, sender, network, handler, log, committed, history,
                   faults, repairs>>

-----------------------------------------------------------------------------
Connect == BeginConnection \/ AttemptFails \/ AcceptHello \/ Publish
           \/ ReplayNext \/ ReplayDone \/ ReplayFails
Send == FinishSend \/ SendRaises \/ WriterClaim \/ WriterSend \/ WriterRaises
Read(g) == ReceiveResult(g) \/ ReceiveRaises(g) \/ ApplyResult(g)
           \/ ApplyLimited(g) \/ CloseReader(g)
Serve(g) == ServeHello(g) \/ ServeTxn(g) \/ ResolveResult(g) \/ SendResults(g)
Application ==
    \/ \E k \in scenario.kinds : SendEvents([kind |-> k, rev |-> 0])
    \/ \E k \in scenario.kinds :
        RepairRejectedTransaction([kind |-> k, rev |-> repairs + 1])
    \/ AbandonRejectedSession
    \/ CancelConnect \/ Disconnect
Environment ==
    \/ \E g \in Gens : ServeError(g) \/ ServeLimited(g) \/ Break(g)
    \/ Restart \/ EditGraph

Next ==
    \/ Connect \/ Send \/ Application \/ Environment
    \/ \E g \in Gens : Read(g) \/ Serve(g)

Spec == Init /\ [][Next]_vars

-----------------------------------------------------------------------------
(* Properties.                                                             *)

Entries == [id : Nat, p : Payloads]

\* None is no claim, no send in progress, no reply and no failure.
ASSUME NoneAssumption ==
    /\ None \notin Entries /\ None \notin [g : Gens, e : Entries]
    /\ None \notin [id : Nat, disposition : {"conflict", "invalid", "fatal"}]

TypeOK ==
    /\ phase \in {"disconnected", "awaiting", "ready", "recovery"}
    /\ gen \in Nat /\ sock \in Gens \cup {0} /\ session \in Sessions
    /\ queue \in Seq(Entries) /\ artifact \in Seq(Entries)
    /\ unsent \in 0..Len(queue)
    /\ nextId \in Nat /\ lastAcked \in Nat /\ rejectedId \in Nat
    /\ disposition \in {"none", "conflict", "invalid", "fatal"}
    /\ failure \in [id : Nat, disposition : {"conflict", "invalid", "fatal"}]
                   \cup {None}
    /\ checkpoint \in Nat
    /\ attempt \in {"idle", "hello", "accepted", "replay"}
    /\ live \in BOOLEAN /\ attached \in BOOLEAN /\ background \in BOOLEAN
    /\ caller \in [g : Gens, e : Entries] \cup {None}
    /\ claimed \in Entries \cup {None}
    /\ rpc \in [Gens -> {"none", "waiting", "holding", "closing"}]
    /\ hand \in [Gens -> Replies \cup {None}]
    /\ link \in [Gens -> {"unused", "up", "shut", "down"}]
    /\ toServer \in [Gens -> Seq(Frames)]
    /\ toClient \in [Gens -> Seq(Replies)]
    /\ owner \in [Gens -> Sessions]
    /\ results \in [Gens -> Seq(Replies)] /\ outgoing \in [Gens -> Seq(Replies)]
    /\ log \in Seq([s : Sessions, id : Nat, p : Payloads])
    /\ committed \in [Sessions -> Nat] /\ acked \in [Sessions -> Nat]
    /\ versions \in [Sessions -> Seq(Seq(Payloads))]
    /\ scenario \in Scenarios
    /\ faults \in 0..scenario.faults /\ flips \in 0..scenario.flips
    /\ repairs \in 0..scenario.repairs

\* The last payload submitted under id in session s.
Current(s, id) == versions[s][id][Len(versions[s][id])]

\* send_events: "True means the encoded bytes are owned by the bounded
\* outbox".  Whatever is lost, reordered or answered late, every submitted
\* transaction is acknowledged or in the outbox, once, in order, with its
\* latest bytes, and the server has committed no more and no less than the
\* outbox can account for.
NothingLost ==
    /\ Len(versions[session]) = nextId - 1
    /\ Len(queue) = nextId - 1 - lastAcked
    /\ \A i \in DOMAIN queue :
        /\ queue[i].id = lastAcked + i
        /\ queue[i].p = Current(session, lastAcked + i)
    /\ committed[session] \in lastAcked..(nextId - 1)

\* Disconnects, retries, rate limits, late and duplicated answers never put
\* the session in the state that only abandoning it can leave: a session
\* fatal rejection needs a server that forgot what it acknowledged.
NeverSessionFatal ==
    disposition # "fatal" /\ (failure # None => failure.disposition # "fatal")

\* acknowledged_checkpoint, when it is given, is a position of the log that
\* includes everything this session was told is committed.
CheckpointIncludesAcked ==
    (queue = <<>> /\ failure = None /\ checkpoint # 0) =>
        \A i \in DOMAIN log :
            (log[i].s = session /\ log[i].id <= lastAcked) => i <= checkpoint

\* The producer link implements ordered, exactly-once delivery.
Delivery == INSTANCE OrderedDelivery WITH
    Sessions <- Sessions, Payloads <- Payloads,
    versions <- versions, log <- log, acked <- acked
DeliveryRefined == Delivery!Spec

-----------------------------------------------------------------------------
(* Fairness: every thread runs, an application in flush connects again, and *)
(* a connection that is gone is noticed.                                   *)

ConnectThread ==
    \/ BeginConnection \/ AcceptHello \/ Publish
    \/ ReplayNext \/ ReplayDone \/ ReplayFails
    \/ AttemptFails /\ UNCHANGED faults

FairSpec ==
    /\ Spec
    /\ WF_vars(ConnectThread)
    /\ WF_vars(FinishSend \/ SendRaises)
    /\ WF_vars(WriterClaim \/ WriterSend)
    /\ \A g \in Gens :
        /\ WF_vars(Read(g))
        /\ WF_vars(ServeHello(g) \/ ServeTxn(g))
        /\ WF_vars(ResolveResult(g) \/ SendResults(g))

\* flush: every submitted transaction reaches a terminal result, acknowledged
\* or quarantined by a rejection.
FlushEnds == queue # <<>> ~> (queue = <<>> \/ failure # None)
=============================================================================
