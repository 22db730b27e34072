---------------------------- MODULE WireExchange ----------------------------
(***************************************************************************)
(* Clients that build, check and send messages, the server's read loop     *)
(* that decodes, checks again and journals what it admits, and receivers   *)
(* that decode the journalled frames.  Everything crosses the network and  *)
(* the event log as FlatBuffers; each party uses the readers and writers   *)
(* of WireCodec its code uses.  Losing, repeating and reordering frames is *)
(* the business of ProducerLink and ReceiverSync; this module is about     *)
(* what a frame says.                                                      *)
(***************************************************************************)
EXTENDS StageAdapter

CONSTANTS
    Scripts,        \* what the clients are about to say: sequences of records
                    \* [client, events, layer_key] and [client, message]
    LayerKeys,      \* from authored sublayer paths to the layer key the graph
                    \* has for what they resolve to
    Generation,     \* the generation of the server's layer graph
    MaxTemplates    \* the size of the broadcast encoder's cache

ASSUME TemplatesAssumption == MaxTemplates \in Nat \ {0}

VARIABLES
    mode,           \* the layer mode of server and clients
    script,         \* what is still to be said
    next_txn,       \* the next transaction identifier
    uplink,         \* frames on their way to the server: who said what, and
                    \* how it was encoded
    revision,       \* the parent topology revision of the layer graph
    templates,      \* BroadcastEventEncoder's cache
    admitted,       \* the transactions the server committed, as they were said
    log,            \* the journal: records with their frames
    heard,          \* messages that arrived: what was said and what was read
    received,       \* what a receiver decoded from the log so far
    arcs            \* the reference and payload list operations of the prim
                    \* the arc events of the scripts are about

vars == <<mode, script, next_txn, uplink, revision, templates, admitted, log,
          heard, received, arcs>>

IsTransaction(item) == "events" \in DOMAIN item

\* The clients of a conversation speak the server's mode.
SuitsMode(item, m) ==
    IsTransaction(item) => (item.layer_key # "") = (m = "shared_stage")

Init ==
    /\ mode \in {"managed", "shared_stage"}
    /\ script \in {s \in Scripts : \A i \in DOMAIN s : SuitsMode(s[i], mode)}
    /\ next_txn = 1
    /\ revision = 0
    /\ uplink = <<>> /\ templates = <<>>
    /\ admitted = <<>> /\ log = <<>> /\ heard = <<>> /\ received = <<>>
    /\ arcs = [kind \in DOMAIN ARC_KEYS |-> None]

-----------------------------------------------------------------------------
\* The speakers.

Say(client, m, checked) ==
    uplink' = Append(uplink, [client |-> client, said |-> m, checked |-> checked,
                              wire |-> EncodeMessage(m)])

\* EventSender.send_events checks a transaction before it encodes it.
Submit ==
    /\ script # <<>> /\ IsTransaction(Head(script))
    /\ LET item == Head(script)
       IN  /\ ValidateEvents(item.events, mode)
           /\ Say(item.client, MakeTxn(item.events, item.layer_key, next_txn), TRUE)
    /\ next_txn' = next_txn + 1
    /\ script' = Tail(script)
    /\ UNCHANGED <<mode, revision, templates, admitted, log, heard, received, arcs>>

\* The check raises: nothing is encoded and no identifier is used up.
Withhold ==
    /\ script # <<>> /\ IsTransaction(Head(script))
    /\ ~ValidateEvents(Head(script).events, mode)
    /\ script' = Tail(script)
    /\ UNCHANGED <<mode, next_txn, uplink, revision, templates, admitted, log,
                   heard, received, arcs>>

\* Any other message is sent as it is built; so is a transaction by send_msg.
Speak ==
    /\ script # <<>> /\ ~IsTransaction(Head(script))
    /\ Say(Head(script).client, Head(script).message, FALSE)
    /\ script' = Tail(script)
    /\ UNCHANGED <<mode, next_txn, revision, templates, admitted, log, heard,
                   received, arcs>>

-----------------------------------------------------------------------------
\* The server.

\* canonicalize_sublayers: the event that is applied and relayed has the next
\* revision and the keys of the layers its paths resolve to.
CanonicalEntry(entry) ==
    [authored_path |-> entry.authored_path,
     offset |-> DictGet(entry, "offset", Real(0)),
     scale |-> DictGet(entry, "scale", Real(1))]
    @@ (IF entry.authored_path \in DOMAIN LayerKeys
        THEN "layer_key" :> LayerKeys[entry.authored_path] ELSE Nothing)

Canonical(ev) ==
    IF ev.k = "set_sublayers"
    THEN [ev EXCEPT !.prim = "/", !.revision = @ + 1,
                    !.sublayers = Map(@, CanonicalEntry)]
    ELSE ev

StaleEntry(entry) ==
    /\ entry.authored_path \in DOMAIN LayerKeys
    /\ Given(entry, "layer_key")
    /\ entry.layer_key # LayerKeys[entry.authored_path]

IsStale(ev) ==
    /\ ev.k = "set_sublayers"
    /\ \/ ev.generation # Generation
       \/ ev.revision # revision
       \/ \E i \in DOMAIN ev.sublayers : StaleEntry(ev.sublayers[i])

\* A managed opinion goes to the client's layer, stage state to no layer; a
\* shared transaction names its layer.
RouteKey(client, layer_key, ev) ==
    CASE layer_key # "" -> layer_key
      [] layer_key = "" /\ EVENT_KIND_INFO[ev.k].target = "collaboration_layer" ->
            client.layer
      [] OTHER -> ""

\* encode_event_record
EventRecord(seq, client, layer_key, ev) ==
    LET key == RouteKey(client, layer_key, ev)
    IN  [type |-> "event", seq |-> seq, event |-> ev,
         client |-> client.addr, client_id |-> client.client_id]
        @@ KeyIf(client.origin # "", "origin", client.origin)
        @@ KeyIf(key # "", "layer_key", key)

\* assign_and_encode_events: the frames of a transaction, in order, through
\* one encoder.
Journalled(acc, record, coded) ==
    [log |-> Append(acc.log, [record |-> record, wire |-> coded.wire]),
     templates |-> coded.templates]
WithRecord(acc, record) ==
    Journalled(acc, record, EncodeBroadcast(acc.templates, record, MaxTemplates))
Journal(client, layer_key, events) ==
    FoldLeft(LAMBDA acc, ev :
                WithRecord(acc, EventRecord(Len(acc.log) + 1, client, layer_key, ev)),
             [log |-> log, templates |-> templates],
             Map(events, Canonical))

\* A message and the frame its reader gets.
Heard(m, wire) == Append(heard, [said |-> m, wire |-> wire])
Answer(m) == Heard(m, EncodeMessage(m))

NextIsTxn ==
    /\ uplink # <<>>
    /\ PayloadTypeAndSequence(Head(uplink).wire)[1] = "Txn"
Arrived == DecodeTransaction(PayloadOf(Head(uplink).wire), TRUE)

Admit(txn) ==
    /\ ValidateEvents(txn.events, mode)
    /\ \A i \in DOMAIN txn.events : ~IsStale(txn.events[i])
    /\ \E next \in {Journal(Head(uplink).client, txn.layer_key, txn.events)} :
           /\ log' = next.log
           /\ templates' = next.templates
    /\ revision' = revision +
          Cardinality({i \in DOMAIN txn.events : txn.events[i].k = "set_sublayers"})
    /\ heard' = Answer(MakeTransactionResult(txn.txn_id, "acknowledged",
                           0, "none", "", [epoch |-> 0, head_seq |-> Len(log')]))
    /\ admitted' = Append(admitted, Head(uplink))
    /\ uplink' = Tail(uplink)
    /\ UNCHANGED <<mode, script, next_txn, received, arcs>>

Reject(txn, code) ==
    /\ heard' = Answer(MakeTransactionResult(txn.txn_id, "rejected", 0, code, "refused", None))
    /\ uplink' = Tail(uplink)
    /\ UNCHANGED <<mode, script, next_txn, revision, templates, admitted, log, received,
                   arcs>>

\* The graph has moved on since the client looked.
RejectStale(txn) ==
    /\ ValidateEvents(txn.events, mode)
    /\ \E i \in DOMAIN txn.events : IsStale(txn.events[i])
    /\ Reject(txn, "stale_layer_graph")

\* The server's own check fails.
RejectInvalid(txn) ==
    /\ ~ValidateEvents(txn.events, mode)
    /\ Reject(txn, "invalid_transaction")

ServeTransaction ==
    /\ NextIsTxn
    /\ \E txn \in {Arrived} : Admit(txn) \/ RejectStale(txn) \/ RejectInvalid(txn)

\* Handshakes, playback and layer states: what they cause is modelled by the
\* modules of those components, here they are only read.
Hear ==
    /\ uplink # <<>> /\ ~NextIsTxn
    /\ Supported(Head(uplink).wire)
    /\ heard' = Heard(Head(uplink).said, Head(uplink).wire)
    /\ uplink' = Tail(uplink)
    /\ UNCHANGED <<mode, script, next_txn, revision, templates, admitted, log, received,
                   arcs>>

-----------------------------------------------------------------------------
\* A receiver, or the server that restores its stage from the log: it decodes
\* a frame and applies its event.

ApplyArcs(ev) ==
    IF ev.k \in DOMAIN ARC_KEYS THEN [arcs EXCEPT ![ev.k] = ApplyArcState(ev)] ELSE arcs

Receive(numpy) ==
    /\ Len(received) < Len(log)
    /\ LET wire == log[Len(received) + 1].wire
       IN  /\ PayloadTypeAndSequence(wire)[1] = "BroadcastEvent"
           /\ \E record \in {DecodeReceivedEvent(PayloadOf(wire), numpy)} :
                  /\ received' = Append(received, record)
                  /\ arcs' = ApplyArcs(record.event)
    /\ UNCHANGED <<mode, script, next_txn, uplink, revision, templates, admitted,
                   log, heard>>

\* Everything was said, heard and received.
Finished ==
    /\ script = <<>> /\ uplink = <<>> /\ Len(received) = Len(log)
    /\ UNCHANGED vars

Next ==
    \/ Submit \/ Withhold \/ Speak
    \/ ServeTransaction \/ Hear
    \/ \E numpy \in BOOLEAN : Receive(numpy)
    \/ Finished

Spec == Init /\ [][Next]_vars

-----------------------------------------------------------------------------
\* What a message says, absent keys filled in.

NoTexts(keys) == [key \in keys |-> ""]
MESSAGE_DEFAULTS ==
    [hello |-> NoTexts({"client_id", "origin", "department", "token",
                        "producer_session_id"})
               @@ AllAbsent({"replay_server_instance", "replay_epoch"})
               @@ [protocol_version |-> 0, sync_from |-> 0,
                   layered_replay |-> FALSE, layer_mode |-> "managed"],
     hello_ok |-> NoTexts({"server_instance", "token"})
               @@ [replay_epoch |-> None, replay_identity |-> FALSE,
                   stage_metadata |-> NoKeys, layered_replay |-> FALSE,
                   committed_through |-> 0, layer_mode |-> "managed"],
     hello_rejected |-> [code |-> "Unspecified", reason |-> ""],
     auth_rejected |-> NoTexts({"reason"}),
     transaction_result |-> [checkpoint |-> None, expected_txn_id |-> 0,
                             rejection_code |-> "none", reason |-> ""],
     replay_complete |-> [head_seq |-> 0, epoch |-> 0],
     claim_playback |-> [client_id |-> "", time |-> None],
     playback_claimed |-> NoTexts({"leader_client_id"}),
     playback_rejected |-> NoTexts({"reason", "current_leader_client_id"}),
     playback_control |-> [action |-> "", time |-> None, rate |-> None],
     playback_state |-> [time |-> Real(0), playing |-> FALSE, rate |-> Real(1),
                         leader_client_id |-> ""],
     layer_stack_state |-> [generation |-> "", revision |-> 0, layers |-> <<>>],
     layer_graph_state |-> [seq |-> 0, layers |-> <<>>]]

LayerMeaning(layer) ==
    IF "sublayers" \in DOMAIN layer
    THEN [layer EXCEPT !.sublayers = Map(@, SublayerMeaning)]
    ELSE layer @@ [label |-> "", muted |-> FALSE]

\* A result's codes are read as members of the wire's enumerations.
ValueSaid(key, v) ==
    CASE key = "layers" -> Map(v, LayerMeaning)
      [] key = "retry_after" -> Narrow(v)
      [] key = "status" /\ v \in DOMAIN TRANSACTION_STATUS_TO_FB ->
            TRANSACTION_STATUS_TO_FB[v]
      [] key = "rejection_code" /\ v \in DOMAIN TRANSACTION_REJECTION_TO_FB ->
            TRANSACTION_REJECTION_TO_FB[v]
      [] OTHER -> v

MessageMeaning(m) ==
    LET defaults == DictGet(MESSAGE_DEFAULTS, m.type, NoKeys)
        full == [key \in DOMAIN m \union DOMAIN defaults |->
                    IF key \in DOMAIN defaults THEN Filled(m, key, defaults[key])
                    ELSE m[key]]
    IN  [key \in DOMAIN full |-> ValueSaid(key, full[key])]

\* The events of the admitted transactions in the order of the log.
Relayed ==
    FlattenSeq(Map(admitted, LAMBDA a :
        Map(a.said.events, LAMBDA ev :
            [event |-> Canonical(ev), client |-> a.client,
             key |-> RouteKey(a.client, DictGet(a.said, "layer_key", ""), ev)])))

TextOrNone(s) == IF s = "" THEN None ELSE s

(***************************************************************************)
(* What a receiver decodes is what the producer submitted: every event of  *)
(* every admitted transaction, in order, with its meaning, its author and  *)
(* its layer, whichever readers, writers and cached templates it passed    *)
(* through on the way (codec.py).                                          *)
(***************************************************************************)
SurvivesTheWire ==
    \A i \in DOMAIN received :
        LET r == received[i]
            e == Relayed[i]
        IN  /\ r.seq = i
            /\ Meaning(r.event) = Meaning(e.event)
            /\ r.client_id = e.client.client_id /\ r.client = e.client.addr
            /\ r.origin = TextOrNone(e.client.origin)
            /\ r.layer_key = TextOrNone(e.key)

\* set_gprim_attrs as an adapter's method is told of it: the method has no
\* argument for how a primvar is declared or interpolated.
Tellable(ev) ==
    [key \in DOMAIN ev \ {"primvar_meta", "attr_interp"} |-> ev[key]]

(***************************************************************************)
(* The call an integration's adapter gets for an event says what the       *)
(* producer said: the event the stage adapter's method builds from it      *)
(* means the same ("Direct method calls construct the same events used by  *)
(* network delivery", adapters.py).                                        *)
(***************************************************************************)
CallsAgree ==
    \A i \in DOMAIN received :
        Meaning(Called(received[i].event)) = Meaning(Tellable(Relayed[i].event))

(***************************************************************************)
(* The list operation a receiver reads from its prim spec is the canonical *)
(* form of the last one sent: no bucket, offset or order is lost between   *)
(* apply_arc_state and read_arc_state, whatever was authored there before  *)
(* (sdf_arc_state.py).                                                     *)
(***************************************************************************)
ArcsArrive ==
    \A kind \in DOMAIN ARC_KEYS :
        LET sent == SelectSeq(SubSeq(Relayed, 1, Len(received)),
                              LAMBDA e : e.event.k = kind)
        IN  sent # <<>> =>
                ReadArcState(arcs[kind]) = CanonicalArcState(Last(sent).event)

(***************************************************************************)
(* The server never refuses as invalid a transaction that passed the same  *)
(* validate_events in the producer: "Validators describe the dictionary    *)
(* contract that must survive FlatBuffers encoding"                        *)
(* (protocol_validation.py).  A rejection is fatal to the producer session.*)
(***************************************************************************)
AdmittedAgain ==
    \A i \in DOMAIN uplink :
        uplink[i].checked =>
            ValidateEvents(DecodeTransaction(PayloadOf(uplink[i].wire), TRUE).events, mode)

(***************************************************************************)
(* An event that a producer may submit is admitted and arrives as it was   *)
(* submitted.                                                              *)
(***************************************************************************)
EventsArrive == AdmittedAgain /\ SurvivesTheWire

(***************************************************************************)
(* What an integration does with an event it received is what the producer *)
(* meant, whether its adapter is called or a prim spec is authored.        *)
(***************************************************************************)
AdaptersAgree == CallsAgree /\ ArcsArrive

(***************************************************************************)
(* The hand-written reader of transforms, transactions and broadcasts, the *)
(* reader that only looks at tag and sequence, and the generated accessors *)
(* read the same from every journalled frame, and a frame patched into a   *)
(* template reads like the one the general encoder writes for its record.  *)
(***************************************************************************)
PathsAgree ==
    /\ \A i \in DOMAIN log :
          LET wire == log[i].wire
          IN  /\ \A numpy \in BOOLEAN :
                    {("type" :> "event") @@ DictBroadcastEvent(PayloadOf(frame), numpy) :
                        frame \in {wire, EncodeMessage(log[i].record)}}
                    = {DecodeBroadcastEvent(PayloadOf(wire), numpy)}
              /\ PayloadTypeAndSequence(wire) = <<"BroadcastEvent", i>>
    /\ \A i \in DOMAIN uplink :
          uplink[i].said.type = "txn" =>
             DecodeTransaction(PayloadOf(uplink[i].wire), FALSE).events
                = DictTxn(PayloadOf(uplink[i].wire), FALSE).events

(***************************************************************************)
(* Handshakes, results, playback and layer states are read as they were    *)
(* said, with an absent key and its default taken for the same thing       *)
(* (codec.py, protocol.py).                                                *)
(***************************************************************************)
MessagesSurvive ==
    \A i \in DOMAIN heard :
        MessageMeaning(MessageToDict(heard[i].wire, TRUE)) = MessageMeaning(heard[i].said)
=============================================================================
