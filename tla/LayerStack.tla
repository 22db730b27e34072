----------------------------- MODULE LayerStack -----------------------------
(***************************************************************************)
(* Managed collaboration: the server's stack of department layers, the     *)
(* policy that assigns producers to them, and the receivers that rebuild   *)
(* the stack from its advertised states and the log                        *)
(* (server/collaboration.py, server/layer_stack.py, logical_layers.py,     *)
(* layer_key_router.py, dispatcher.py).                                    *)
(*                                                                         *)
(* The policy changes the stack under the scene lock and publishes it      *)
(* after the lock is released, so states reach a receiver late, twice or   *)
(* out of order, and records of a layer may precede the state that         *)
(* announces it.  A change of the stack has no place in the log.           *)
(*                                                                         *)
(* One prim is enough to see what a layer holds: a layer has its           *)
(* definition, an attribute opinion, both or neither.  Authoring a value   *)
(* needs the prim on the composed stage, and composition leaves out muted  *)
(* layers.                                                                 *)
(***************************************************************************)
EXTENDS Naturals, FiniteSets, SequencesExt

CONSTANTS
    Producers, Receivers, Departments, Values,
    DepartmentOf,       \* the department a producer names, or None
    Layered,            \* the receivers that ask for layered replay
    Configured,         \* department priorities the server may start with
    Orders,             \* priorities the dashboard may set
    Stages,             \* stages a receiver may be bound to
    Budgets,            \* who takes part, and how often each thing outside happens
    None

\* Receivers are processes: each layered one has at least a stage of its own.
ASSUME LayersAssumption ==
    /\ Layered \subseteq Receivers
    /\ IsFiniteSet(Stages) /\ IsFiniteSet(Layered)
    /\ Cardinality(Layered) <= Cardinality(Stages)
    /\ None \notin Stages \union Values

VARIABLES
    budget,         \* what may still happen
    config,         \* the priority on the server's command line
    priority,       \* department_priority
    stack,          \* CollaborationLayerStack
    opinions,       \* the layers: what each key's layer holds
    root,           \* what merging left in the stage's root layer
    assigned,       \* _client_layer_keys
    held,           \* the layer each connection's handler writes to
    flat,           \* flat receivers admitted
    log,            \* the event log
    owed,           \* threads between the scene lock and the broadcast queue
    link,           \* receivers' connections
    wire,           \* what is on its way to each receiver
    applied,        \* the receivers' cursors
    seen,           \* the server instance a receiver's cursor belongs to
    router,         \* LogicalLayerRouter; for a flat receiver its one layer
    session,        \* _StageSessionState: bound stage, baseline, events
    shown,          \* the synchronized metadata field of each stage
    disturbed       \* history: what has happened that a log cannot tell

serverVars == <<config, priority, stack, opinions, root, assigned, held, flat, log, owed>>
receiverVars == <<link, wire, applied, seen, router, session, shown>>
vars == <<budget, disturbed, serverVars, receiverVars>>

Default == "default"
Dashboard == "dashboard"
Joining == <<"joining">>
Due == <<"due">>
Keys == Departments \union {Default}
Threads == Producers \union {Dashboard}

Spends(what) == budget[what] > 0 /\ budget' = [budget EXCEPT ![what] = @ - 1]

-----------------------------------------------------------------------------
\* What a layer holds, and how events change it.

Blank == [def |-> FALSE, val |-> None]
HasSpec(layer) == layer # Blank

\* GetPrimAtPath: some layer that takes part in composition has a spec.
Composes(layers, visible) == \E key \in visible \intersect DOMAIN layers : HasSpec(layers[key])

\* ensure_prim, delete_prim and set_gprim_attrs on the edit target's layer.
ApplyOne(layers, visible, key, event) ==
    CASE event.k = "define" -> [layers EXCEPT ![key].def = TRUE]
      [] event.k = "delete" -> [layers EXCEPT ![key] = Blank]
      [] event.k = "value" /\ Composes(layers, visible) -> [layers EXCEPT ![key].val = event.v]
      [] OTHER -> layers

\* apply_events: deletes stay where they are, definitions overtake the values
\* between two of them.
InDependencyOrder(events) ==
    LET Flush(acc) == acc.done \o acc.defs \o acc.vals
        Step(acc, event) ==
            CASE event.k = "define" -> [acc EXCEPT !.defs = Append(@, event)]
              [] event.k = "value" -> [acc EXCEPT !.vals = Append(@, event)]
              [] OTHER -> [done |-> Append(Flush(acc), event), defs |-> <<>>, vals |-> <<>>]
    IN  Flush(FoldLeft(Step, [done |-> <<>>, defs |-> <<>>, vals |-> <<>>], events))

ApplyEvents(layers, visible, key, events) ==
    FoldLeft(LAMBDA acc, event : ApplyOne(acc, visible, key, event), layers,
             InDependencyOrder(events))

\* Adjacent records of one layer are applied together, in the order of the log.
Runs(records) ==
    FoldLeft(LAMBDA acc, record :
                IF acc # <<>> /\ Last(acc)[1].key = record.key
                THEN [acc EXCEPT ![Len(acc)] = Append(@, record)]
                ELSE Append(acc, <<record>>),
             <<>>, records)

ApplyRuns(layers, visible, records) ==
    FoldLeft(LAMBDA acc, run :
                IF run[1].key = "" THEN acc
                ELSE ApplyEvents(acc, visible, run[1].key, run),
             layers, Runs(records))

\* Records of the session layer: the last metadata among the frames of a batch.
IsSession(record) == record.k = "meta"
LastMeta(frames, old) ==
    LET last == SelectLastInSeq(frames, LAMBDA m : m.type = "record" /\ IsSession(m.record))
    IN  IF last = 0 THEN old ELSE frames[last].record.v

-----------------------------------------------------------------------------
\* CollaborationLayerStack.  Layers are anonymous: a serial tells one layer
\* from a later one under the same key.

HasLayer(key) == key \in DOMAIN stack.layers
WithoutDefault(order) == SelectSeq(order, LAMBDA key : key # Default)

EnsureLayer(s, key) ==
    IF key \in DOMAIN s.layers THEN s
    ELSE [s EXCEPT !.layers = [k \in DOMAIN @ \union {key} |->
                                  IF k = key THEN s.serial + 1 ELSE @[k]],
                   !.serial = @ + 1,
                   !.order = WithoutDefault(@) \o <<key, Default>>,
                   !.revision = @ + 1]

SetOrder(s, order) ==
    IF order = s.order THEN s ELSE [s EXCEPT !.order = order, !.revision = @ + 1]

RemoveLayer(s, key) ==
    [s EXCEPT !.layers = [k \in DOMAIN @ \ {key} |-> @[k]],
              !.order = SelectSeq(@, LAMBDA k : k # key),
              !.muted = @ \ {key},
              !.revision = @ + 1]

\* _apply_department_order_locked
ApplyDepartmentOrder(s, departments) ==
    LET listed == SelectSeq(departments, LAMBDA d : d \in DOMAIN s.layers)
        unlisted == SelectSeq(WithoutDefault(s.order), LAMBDA k : k \notin ToSet(listed))
    IN  SetOrder(s, listed \o unlisted \o <<Default>>)

NewStack(generation) ==
    [generation |-> generation, revision |-> 1, order |-> <<Default>>, muted |-> {},
     layers |-> [k \in {Default} |-> 0], serial |-> 0]

\* state(): what receivers are told.
StackState ==
    [generation |-> stack.generation, revision |-> stack.revision,
     order |-> stack.order, muted |-> stack.muted]

Unmuted(s) == ToSet(s.order) \ s.muted

-----------------------------------------------------------------------------
\* The receivers' router and session state.

NewRouter ==
    [ready |-> FALSE, generation |-> None, revision |-> 0, order |-> <<>>, muted |-> {},
     layers |-> [k \in {} |-> Blank]]
FlatRouter == [NewRouter EXCEPT !.layers = [k \in {Default} |-> Blank]]

\* Mutant: whatever arrives last is the state.
ApplyAnyState(r, state) ==
    [ready |-> TRUE, generation |-> state.generation, revision |-> state.revision,
     order |-> state.order, muted |-> state.muted,
     layers |-> [k \in ToSet(state.order) |->
                   IF k \in DOMAIN r.layers THEN r.layers[k] ELSE Blank]]

\* LayerKeyRouter.apply_state: an older or repeated state is left out.  New
\* keys get an empty layer, removed ones lose theirs.
ApplyState(r, state) ==
    IF r.generation = state.generation /\ state.revision <= r.revision THEN r
    ELSE [ready |-> TRUE, generation |-> state.generation, revision |-> state.revision,
          order |-> state.order, muted |-> state.muted,
          layers |-> [k \in ToSet(state.order) |->
                        IF k \in DOMAIN r.layers THEN r.layers[k] ELSE Blank]]

Cleared(r) == [r EXCEPT !.layers = [k \in DOMAIN @ |-> Blank]]

\* apply_routed_records: every route is resolved before anything is applied,
\* and the layers that are written to are unmuted meanwhile.
Routable(r, records) ==
    \A i \in DOMAIN records :
        IsSession(records[i]) \/ (r.ready /\ records[i].key \in ToSet(r.order))
ApplyRouted(r, records) ==
    LET targets == {records[i].key : i \in DOMAIN records}
    IN  [r EXCEPT !.layers = ApplyRuns(@, Unmuted(r) \union targets, records)]

\* A flat receiver writes everything to its edit target.
ApplyFlat(r, records) ==
    LET events == SelectSeq(records, LAMBDA e : ~IsSession(e))
    IN  [r EXCEPT !.layers = ApplyEvents(@, {Default}, Default, events)]

\* Mutant: the stage that is left keeps the synchronized metadata.
NotRestored(s, old) == old

\* The bound stage shows the remembered metadata, or its own.
Restored(s, old) == IF s.stage = None THEN old ELSE [old EXCEPT ![s.stage] = s.baseline]

Remembered(s, old) ==
    IF s.stage = None \/ s.meta = None THEN old ELSE [old EXCEPT ![s.stage] = s.meta]
NewSession == [stage |-> None, baseline |-> None, meta |-> None]

-----------------------------------------------------------------------------
Init ==
    /\ budget \in Budgets
    /\ config \in Configured /\ priority = config
    /\ stack = NewStack(1)
    /\ opinions = [k \in {Default} |-> Blank]
    /\ root = Blank
    /\ assigned = [p \in {} |-> Default]
    /\ held = [p \in Producers |-> None]
    /\ flat = 0
    /\ log = <<>>
    /\ owed = [t \in Threads |-> None]
    /\ link = [r \in Receivers |-> "down"]
    /\ wire = [r \in Receivers |-> <<>>]
    /\ applied = [r \in Receivers |-> 0]
    /\ seen = [r \in Receivers |-> None]
    /\ router = [r \in Receivers |-> IF r \in Layered THEN NewRouter ELSE FlatRouter]
    /\ session = [r \in Receivers |-> NewSession]
    /\ shown = [s \in Stages |-> s]
    /\ disturbed = {}

-----------------------------------------------------------------------------
\* Producers.

KeyFor(p) == IF DepartmentOf[p] = None THEN Default ELSE DepartmentOf[p]
\* Without a priority every producer writes to the default layer and is
\* assigned nowhere; otherwise the handler, which looked at the priority
\* without the lock, goes on to ask for a layer.
Join(p) ==
    /\ held[p] = None /\ p \in budget.who
    /\ Spends("join")
    /\ held' = [held EXCEPT ![p] =
                  IF priority = <<>> THEN <<Default, stack.layers[Default]>> ELSE Joining]
    /\ UNCHANGED <<config, priority, stack, opinions, root, assigned, flat, log, owed,
                   receiverVars, disturbed>>

\* get_or_create_client_layer.  The handler owes a broadcast once it has added
\* a layer.
GetOrCreateClientLayer(p) ==
    /\ held[p] = Joining
    /\ HasLayer(KeyFor(p)) \/ flat = 0
    /\ LET key == KeyFor(p)
       IN  /\ stack' = IF HasLayer(key) THEN stack
                       ELSE ApplyDepartmentOrder(EnsureLayer(stack, key), priority)
           /\ opinions' = [k \in DOMAIN stack'.layers |->
                              IF k \in DOMAIN opinions THEN opinions[k] ELSE Blank]
           /\ assigned' = [q \in DOMAIN assigned \union {p} |->
                              IF q = p THEN key ELSE assigned[q]]
           /\ held' = [held EXCEPT ![p] = <<key, stack'.layers[key]>>]
           /\ owed' = IF HasLayer(key) THEN owed ELSE [owed EXCEPT ![p] = Due]
    /\ UNCHANGED <<budget, config, priority, root, flat, log, receiverVars, disturbed>>

\* ReplayModeConflictError ends the connection.
JoinRefused(p) ==
    /\ held[p] = Joining
    /\ ~HasLayer(KeyFor(p)) /\ flat > 0
    /\ held' = [held EXCEPT ![p] = None]
    /\ UNCHANGED <<budget, config, priority, stack, opinions, root, assigned, flat, log,
                   owed, receiverVars, disturbed>>

\* The handler is done with connecting, its broadcast included.
Connected(p) == held[p] \notin {None, Joining} /\ owed[p] = None

Leave(p) ==
    /\ Connected(p)
    /\ held' = [held EXCEPT ![p] = None]
    /\ UNCHANGED <<config, priority, stack, opinions, root, assigned, flat, log, owed,
                   receiverVars, disturbed, budget>>

Managed(p) == HasLayer(held[p][1]) /\ stack.layers[held[p][1]] = held[p][2]
Record(p, key, event) ==
    [field \in DOMAIN event \union {"key", "client"} |->
        CASE field = "key" -> key [] field = "client" -> p [] OTHER -> event[field]]
Online(r) == link[r] = "up"

\* The commit and its broadcast; their own interleavings are ServerCommit's.
Commit(record) ==
    /\ log' = Append(log, record)
    /\ wire' = [r \in Receivers |->
                  IF Online(r) THEN Append(wire[r], [type |-> "record", seq |-> Len(log) + 1,
                                                     record |-> record])
                  ELSE wire[r]]

Write(p, event) ==
    /\ Connected(p) /\ Managed(p)
    /\ Spends("write")
    /\ LET key == held[p][1]
           visible == Unmuted(stack) \union {key}
           layers == opinions @@ ("/" :> root)
           after == ApplyOne(layers, visible \union {"/"}, key, event)
       IN  /\ opinions' = [k \in DOMAIN opinions |-> after[k]]
           /\ Commit(Record(p, key, event))
           /\ disturbed' = IF event.k = "value" /\ ~Composes(layers, visible \union {"/"})
                           THEN disturbed \union {"dropped"} ELSE disturbed
    /\ UNCHANGED <<config, priority, stack, root, assigned, held, flat, owed, link, applied,
                   seen, router, session, shown>>

\* "transaction target is not a managed collaboration layer": the rejection
\* ends the producer's session.
WriteRejected(p) ==
    /\ Connected(p) /\ ~Managed(p)
    /\ Spends("write")
    /\ held' = [held EXCEPT ![p] = None]
    /\ UNCHANGED <<config, priority, stack, opinions, root, assigned, flat, log, owed,
                   receiverVars, disturbed>>

\* Stage metadata belongs to no collaboration layer.
WriteMeta(p, v) ==
    /\ Connected(p)
    /\ Spends("meta")
    /\ Commit(Record(p, "", [k |-> "meta", v |-> v]))
    /\ UNCHANGED <<config, priority, stack, opinions, root, assigned, held, flat, owed, link,
                   applied, seen, router, session, shown, disturbed>>

-----------------------------------------------------------------------------
\* The dashboard.

DashboardIdle == owed[Dashboard] = None
Publishes(t) == owed' = [owed EXCEPT ![t] = Due]

\* set_department_priority: refused while a flat receiver is connected.
SetDepartmentPriority(order) ==
    /\ DashboardIdle /\ order # priority /\ flat = 0
    /\ Spends("order")
    /\ priority' = order
    /\ stack' = ApplyDepartmentOrder(stack, order)
    /\ Publishes(Dashboard)
    /\ UNCHANGED <<config, opinions, root, assigned, held, flat, log, receiverVars, disturbed>>

\* set_muted
SetMuted(key) ==
    /\ DashboardIdle /\ HasLayer(key) /\ flat = 0
    /\ Spends("mute")
    /\ stack' = [stack EXCEPT !.muted = IF key \in @ THEN @ \ {key} ELSE @ \union {key},
                              !.revision = @ + 1]
    /\ Publishes(Dashboard)
    /\ disturbed' = disturbed \union {"muted"}
    /\ UNCHANGED <<config, priority, opinions, root, assigned, held, flat, log, receiverVars>>

\* merge_layer_into_root: properties over an existing spec, or the whole spec.
Merged(layer) ==
    IF ~HasSpec(layer) THEN root
    ELSE IF HasSpec(root) THEN [root EXCEPT !.val = IF layer.val = None THEN @ ELSE layer.val]
    ELSE layer

\* release_client_assignment: merge_layer or delete_layer.
ReleaseClientAssignment(p, merge) ==
    /\ DashboardIdle /\ p \in DOMAIN assigned /\ assigned[p] # Default
    /\ Spends("release")
    /\ LET key == assigned[p]
           rest == [q \in DOMAIN assigned \ {p} |-> assigned[q]]
           removed == \A q \in DOMAIN rest : rest[q] # key
       IN  /\ assigned' = rest
           /\ root' = IF merge THEN Merged(opinions[key]) ELSE root
           /\ stack' = IF removed THEN RemoveLayer(stack, key) ELSE stack
           /\ opinions' = [k \in DOMAIN stack'.layers |-> opinions[k]]
           /\ owed' = IF removed THEN [owed EXCEPT ![Dashboard] = Due] ELSE owed
           /\ disturbed' = disturbed \union (IF removed THEN {"removed"} ELSE {})
                                     \union (IF merge THEN {"merged"} ELSE {})
    /\ UNCHANGED <<config, priority, held, flat, log, receiverVars>>

\* broadcast_layer_stack_state reads the stack under the lock, if a layered
\* receiver is there ...
ReadState(t) ==
    /\ owed[t] = Due
    /\ owed' = [owed EXCEPT ![t] =
                  IF \E r \in Layered : Online(r) THEN <<"post", StackState>> ELSE None]
    /\ UNCHANGED <<budget, disturbed, config, priority, stack, opinions, root, assigned,
                   held, flat, log, receiverVars>>

\* ... and queues it for the layered receivers of that later moment.
PostState(t) ==
    /\ owed[t] \notin {None, Due}
    /\ wire' = [r \in Receivers |->
                  IF r \in Layered /\ Online(r)
                  THEN Append(wire[r], [type |-> "state", state |-> owed[t][2]]) ELSE wire[r]]
    /\ owed' = [owed EXCEPT ![t] = None]
    /\ UNCHANGED <<budget, disturbed, config, priority, stack, opinions, root, assigned,
                   held, flat, log, link, applied, seen, router, session, shown>>

\* The process ends and starts again: _replay_log_into_stage.
Restart ==
    /\ Spends("restart")
    /\ LET records == SelectSeq(log, LAMBDA e : ~IsSession(e))
           all == FoldLeft(LAMBDA s, e : EnsureLayer(s, e.key),
                           NewStack(stack.generation + 1), records)
           authors == {records[i].client : i \in DOMAIN records}
       IN  /\ stack' = ApplyDepartmentOrder(all, config)
           /\ opinions' = ApplyRuns([k \in DOMAIN all.layers |-> Blank], DOMAIN all.layers, log)
           /\ assigned' = [p \in authors |->
                             Last(SelectSeq(records, LAMBDA e : e.client = p)).key]
    /\ priority' = config
    /\ root' = Blank
    /\ held' = [p \in Producers |-> None]
    /\ flat' = 0
    /\ owed' = [t \in Threads |-> None]
    /\ link' = [r \in Receivers |-> "down"]
    /\ wire' = [r \in Receivers |-> <<>>]
    /\ UNCHANGED <<config, log, applied, seen, router, session, shown, disturbed>>

-----------------------------------------------------------------------------
\* Receivers.

\* reserve_receiver_replay_mode
Admits(r) ==
    r \in Layered \/ (priority = <<>> /\ stack.order = <<Default>> /\ stack.muted = {})

\* Mutant: only a replay from the beginning comes with the stack's state.
WindowOfRecords(r) ==
    LET resync == applied[r] > 0 /\ seen[r] # stack.generation
        from == IF resync THEN 1 ELSE applied[r] + 1
    IN  (IF resync THEN <<[type |-> "resync", generation |-> stack.generation]>> ELSE <<>>)
        \o (IF r \in Layered /\ from = 1
            THEN <<[type |-> "state", state |-> StackState]>> ELSE <<>>)
        \o [i \in 1..(Len(log) + 1 - from) |->
              [type |-> "record", seq |-> from + i - 1, record |-> log[from + i - 1]]]

\* receiver_replay_window: stack state and records of one moment.
Window(r) ==
    LET resync == applied[r] > 0 /\ seen[r] # stack.generation
        from == IF resync THEN 1 ELSE applied[r] + 1
    IN  (IF resync THEN <<[type |-> "resync", generation |-> stack.generation]>> ELSE <<>>)
        \o (IF r \in Layered THEN <<[type |-> "state", state |-> StackState]>> ELSE <<>>)
        \o [i \in 1..(Len(log) + 1 - from) |->
              [type |-> "record", seq |-> from + i - 1, record |-> log[from + i - 1]]]

Connect(r) ==
    /\ ~Online(r) /\ r \in budget.who /\ Admits(r)
    /\ link' = [link EXCEPT ![r] = "up"]
    /\ wire' = [wire EXCEPT ![r] = Window(r)]
    /\ seen' = [seen EXCEPT ![r] = IF applied[r] = 0 THEN stack.generation ELSE @]
    /\ flat' = IF r \in Layered THEN flat ELSE flat + 1
    /\ UNCHANGED <<budget, disturbed, config, priority, stack, opinions, root, assigned,
                   held, log, owed, applied, router, session, shown>>

Disconnected(r) ==
    /\ link' = [link EXCEPT ![r] = "down"]
    /\ wire' = [wire EXCEPT ![r] = <<>>]
    /\ flat' = IF r \in Layered THEN flat ELSE flat - 1

Drop(r) ==
    /\ Online(r)
    /\ Spends("drop")
    /\ Disconnected(r)
    /\ UNCHANGED <<disturbed, config, priority, stack, opinions, root, assigned, held, log,
                   owed, applied, seen, router, session, shown>>

\* decode_messages: what is left of a drained batch.
SinceResync(batch) ==
    LET at == {i \in DOMAIN batch : batch[i].type = "resync"}
    IN  IF at = {} THEN batch
        ELSE SubSeq(batch, (CHOOSE i \in at : \A j \in at : j <= i) + 1, Len(batch))
HasResync(batch) == \E i \in DOMAIN batch : batch[i].type = "resync"
\* The identity of the history the receiver's cursor counts.
SeenAfter(r, batch) ==
    IF HasResync(batch) THEN batch[CHOOSE i \in DOMAIN batch : batch[i].type = "resync"].generation
    ELSE seen[r]
StatesIn(batch) == SelectSeq(SinceResync(batch), LAMBDA m : m.type = "state")
RecordsIn(batch) ==
    LET frames == SelectSeq(SinceResync(batch), LAMBDA m : m.type = "record")
    IN  [i \in DOMAIN frames |-> frames[i].record]

\* _last_seq: the sequence of the last record, counted from the start after a
\* resynchronization.
LastSeq(r, batch) ==
    LET frames == SinceResync(batch)
        last == SelectLastInSeq(frames, LAMBDA m : m.type = "record")
    IN  IF last # 0 THEN frames[last].seq
        ELSE IF HasResync(batch) THEN 0 ELSE applied[r]

\* The router once the stack states of the batch are in: before its records.
RouterFor(r, batch) ==
    FoldLeft(LAMBDA acc, m : ApplyState(acc, m.state),
             IF HasResync(batch) THEN Cleared(router[r]) ELSE router[r], StatesIn(batch))

\* A layered receiver has a stage (_bind_layer_router binds one), which is no
\* other receiver's.
IsFree(s) == \A q \in Receivers : session[q].stage # s
BoundSession(r) ==
    IF session[r].stage # None THEN session[r]
    ELSE LET s == CHOOSE s \in Stages : IsFree(s)
         IN  [session[r] EXCEPT !.stage = s, !.baseline = shown[s]]

\* The batch's metadata goes to the bound stage's session layer.  A resync
\* first gives the stage its own back and forgets what was remembered.
SessionStart(r, batch) ==
    IF HasResync(batch) THEN [BoundSession(r) EXCEPT !.meta = None] ELSE BoundSession(r)
ShownStart(r, batch) ==
    IF HasResync(batch) THEN Restored(BoundSession(r), shown) ELSE shown

\* drain_and_apply of a layered batch that can be routed.
ApplyLayered(r, n) ==
    /\ r \in Layered
    /\ LET batch == SubSeq(wire[r], 1, n)
           records == RecordsIn(batch)
           ready == RouterFor(r, batch)
           start == SessionStart(r, batch)
       IN  /\ Routable(ready, records)
           /\ router' = [router EXCEPT ![r] = ApplyRouted(ready, records)]
           /\ applied' = [applied EXCEPT ![r] = LastSeq(r, batch)]
           /\ seen' = [seen EXCEPT ![r] = SeenAfter(r, batch)]
           /\ session' = [session EXCEPT ![r] =
                            [start EXCEPT !.meta = LastMeta(SinceResync(batch), @)]]
           /\ shown' = [ShownStart(r, batch) EXCEPT
                            ![start.stage] = LastMeta(SinceResync(batch), @)]
    /\ wire' = [wire EXCEPT ![r] = SubSeq(@, n + 1, Len(@))]
    /\ UNCHANGED <<budget, disturbed, serverVars, link>>

\* A record names a layer the receiver was not told of: the states of the
\* batch stay applied, the records do not, and the receiver asks for them
\* again over a new connection.
ApplyFails(r, n) ==
    /\ r \in Layered
    /\ LET batch == SubSeq(wire[r], 1, n)
           ready == RouterFor(r, batch)
       IN  /\ ~Routable(ready, RecordsIn(batch))
           /\ router' = [router EXCEPT ![r] = ready]
           /\ applied' = [applied EXCEPT ![r] = IF HasResync(batch) THEN 0 ELSE @]
           /\ seen' = [seen EXCEPT ![r] = SeenAfter(r, batch)]
           /\ session' = [session EXCEPT ![r] = SessionStart(r, batch)]
           /\ shown' = ShownStart(r, batch)
    /\ Disconnected(r)
    /\ UNCHANGED <<budget, disturbed, config, priority, stack, opinions, root, assigned,
                   held, log, owed>>

\* A flat receiver's integration clears its scene when it is told to resync.
ApplyUnlayered(r, n) ==
    /\ r \notin Layered
    /\ LET batch == SubSeq(wire[r], 1, n)
           start == IF HasResync(batch) THEN Cleared(router[r]) ELSE router[r]
       IN  /\ router' = [router EXCEPT ![r] = ApplyFlat(start, RecordsIn(batch))]
           /\ applied' = [applied EXCEPT ![r] = LastSeq(r, batch)]
           /\ seen' = [seen EXCEPT ![r] = SeenAfter(r, batch)]
    /\ wire' = [wire EXCEPT ![r] = SubSeq(@, n + 1, Len(@))]
    /\ UNCHANGED <<budget, disturbed, serverVars, link, session, shown>>

\* bind_layered_stage: the old stage gets its own metadata back, the new one
\* shows the remembered.
BindLayeredStage(r, s) ==
    /\ r \in Layered /\ session[r].stage # s /\ router[r].ready
    /\ IsFree(s)
    /\ Spends("rebind")
    /\ LET back == Restored(session[r], shown)
           moved == [session[r] EXCEPT !.stage = s, !.baseline = back[s]]
       IN  /\ session' = [session EXCEPT ![r] = moved]
           /\ shown' = Remembered(moved, back)
    /\ UNCHANGED <<disturbed, serverVars, link, wire, applied, seen, router>>

\* unbind_stage forgets the remembered metadata as well.
UnbindStage(r) ==
    /\ r \in Layered /\ session[r].stage # None
    /\ Spends("rebind")
    /\ shown' = Restored(session[r], shown)
    /\ session' = [session EXCEPT ![r] = NewSession]
    /\ UNCHANGED <<disturbed, serverVars, link, wire, applied, seen, router>>

-----------------------------------------------------------------------------
Events == [k : {"define", "delete"}] \union [k : {"value"}, v : Values]

ServerNext ==
    \/ \E p \in Producers : 
           Join(p) \/ GetOrCreateClientLayer(p) \/ JoinRefused(p) \/ Leave(p) \/ WriteRejected(p)
    \/ \E p \in Producers, event \in Events : Write(p, event)
    \/ \E p \in Producers, v \in Values : WriteMeta(p, v)
    \/ \E order \in Orders : SetDepartmentPriority(order)
    \/ \E key \in Keys : SetMuted(key)
    \/ \E p \in Producers, merge \in BOOLEAN : ReleaseClientAssignment(p, merge)
    \/ \E t \in Threads : ReadState(t) \/ PostState(t)
    \/ Restart

ReceiverNext ==
    \E r \in Receivers :
        \/ Connect(r) \/ Drop(r) \/ UnbindStage(r)
        \/ \E n \in 1..Len(wire[r]) : ApplyLayered(r, n) \/ ApplyFails(r, n) \/ ApplyUnlayered(r, n)
        \/ \E s \in Stages : BindLayeredStage(r, s)

Next == ServerNext \/ ReceiverNext

Spec == Init /\ [][Next]_vars

\* Threads that hold a state get to post it, and receivers reconnect and
\* drain what they have; nothing obliges producers, users or the network.
Fairness ==
    /\ \A t \in Threads : WF_vars(ReadState(t)) /\ WF_vars(PostState(t))
    /\ \A r \in Receivers :
          /\ WF_vars(Connect(r))
          /\ WF_vars(\E n \in 1..Len(wire[r]) :
                        ApplyLayered(r, n) \/ ApplyFails(r, n) \/ ApplyUnlayered(r, n))

FairSpec == Spec /\ Fairness

-----------------------------------------------------------------------------
Silent == \A t \in Threads : owed[t] = None
CaughtUp(r) == Online(r) /\ wire[r] = <<>> /\ applied[r] = Len(log)

(***************************************************************************)
(* When no broadcast is owed and a layered receiver has drained its queue, *)
(* it has the server's stack: its generation, revision, order and muting,  *)
(* whatever order the states were published in, and each layer holds what  *)
(* the server's layer of that key holds (collaboration.py publishes after  *)
(* it has released the scene lock; layer_key_router.py drops old states).  *)
(***************************************************************************)
LayeredAgree ==
    Silent => \A r \in Layered : CaughtUp(r) =>
        /\ [generation |-> router[r].generation, revision |-> router[r].revision,
            order |-> router[r].order, muted |-> router[r].muted] = StackState
        /\ disturbed = {} => router[r].layers = opinions

(***************************************************************************)
(* While a flat receiver is connected there is one unmuted layer and no    *)
(* department policy, so that its single layer can hold what the server's  *)
(* holds (reserve_receiver_replay_mode, and the refusals of every change   *)
(* of the stack while it is there).                                        *)
(***************************************************************************)
FlatIsFaithful ==
    \A r \in Receivers \ Layered : Online(r) =>
        /\ stack.order = <<Default>> /\ stack.muted = {} /\ priority = <<>>
        /\ CaughtUp(r) /\ disturbed = {} => router[r].layers[Default] = opinions[Default]

(***************************************************************************)
(* What a receiver that is up to date shows is what the server's stage     *)
(* composes, in whichever mode the receiver replays.                       *)
(***************************************************************************)
ReceiversAgree == LayeredAgree /\ FlatIsFaithful

(***************************************************************************)
(* A stage shows the synchronized metadata while it is bound and its own   *)
(* once it is not, through any sequence of rebinds, resynchronizations and *)
(* failed batches (_StageSessionState).                                    *)
(***************************************************************************)
StageRestored ==
    \A s \in Stages :
        LET bound == {r \in Layered : session[r].stage = s /\ session[r].meta # None}
        IN  IF bound = {} THEN shown[s] = s
            ELSE \A r \in bound : shown[s] = session[r].meta

(***************************************************************************)
(* A layered receiver eventually has the server's stack and the whole log, *)
(* although records of a new layer may reach it before the state that      *)
(* announces the layer.  Left out are behaviours in which a layer was      *)
(* removed: records of it stay in the log, and a receiver that has yet to  *)
(* apply them can route them nowhere.                                      *)
(***************************************************************************)
LayersConverge ==
    \A r \in Layered :
        <>[](r \in budget.who /\ "removed" \notin disturbed => CaughtUp(r) /\ Silent)
=============================================================================
