---------------------------- MODULE SharedStage ----------------------------
(***************************************************************************)
(* Shared-stage mode: every process opens its own copy of a stage, and the *)
(* opinions authored in the layers of its root-layer graph are kept equal. *)
(* The server owns the graph: it gives each layer an opaque key, each      *)
(* parent a topology revision and the whole graph a generation             *)
(* (shared_layer_graph.py, the shared half of server/commit.py, state.py   *)
(* and maintenance.py).  A client's update() freezes its local edits,      *)
(* applies what the server has sent, puts the edits back on top and sends  *)
(* them (shared_stage_client.py, sdf_layer_tracker.py).                    *)
(*                                                                         *)
(* A layer is its content (the last edit of it, 0 for none) and the set of *)
(* its sublayers; paths, offsets and fields are abstracted away.  The      *)
(* connections are those of ProducerLink and ReceiverSync: transactions    *)
(* arrive once and in order, records in the order of the log, and a client *)
(* that resumes in another history is sent that history from its start.    *)
(* update() runs on one thread, so it is one action.                       *)
(***************************************************************************)
EXTENDS Naturals, Sequences, FiniteSets, SequencesExt, Functions

CONSTANTS
    Client,        \* participants
    Layer,         \* sequence of the layers, parents before children
    StageRuns      \* what may happen in one behaviour, see StageRare

Layers == Range(Layer)
Root   == Layer[1]
Server == "server"
StageRare == {"content", "topology", "compact", "restart", "offline", "asset"}

ASSUME StageConstants ==
    \A s \in StageRuns :
        /\ s.initial \in [Layers -> SUBSET Layers]       \* sublayers in the file everyone opens
        /\ s.missing \in [Client \cup {Server} -> SUBSET Layers]  \* assets that come later
        /\ s.joined \subseteq Client                     \* clients that have the baseline
        /\ s.writers \subseteq Client \X Layers          \* who edits the content of what
        /\ s.movers \subseteq Client \X Layers \X SUBSET Layers   \* and gives what which sublayers
        /\ s.budget \in [StageRare -> Nat]               \* how often each thing may happen

VARIABLES
    stage,       \* stage[p]: [content, sub] of the layers as p has them
    graph,       \* graph[p]: SharedLayerGraph of p
    avail,       \* layers p can open
    identity,    \* the server's durable key of each layer
    log,         \* records since the last compaction
    history,     \* <<server process, epoch>>: identity of the log
    tracker,     \* SdfLayerChangeTracker of each client
    feed,        \* what each client has received and applied
    outbox,      \* transactions sent and not yet answered
    refused,     \* clients whose producer needs recovery
    left,        \* how often each of StageRare may still happen
    run,         \* the one of StageRuns this behaviour is about
    edits,       \* content edits, numbered, and what became of them (auxiliary)
    stamp,       \* topology a user saw when changing it (auxiliary)
    overrode,    \* topology edits committed over an unseen one (auxiliary)
    rewound,     \* clients that a restarted server will not resume (auxiliary)
    stranded,    \* layers that a compaction forgot the content of (auxiliary)
    slips        \* layers with an edit that escaped the tracker (auxiliary)

stageVars == <<stage, graph, avail, identity, log, history, tracker, feed, outbox, refused,
               left, run, edits, stamp, overrode, rewound, stranded, slips>>

Procs == Client \cup {Server}
NoTop == [gen |-> 0, rev |-> 0, sub |-> {}, set |-> FALSE, rebound |-> FALSE]

\* Keys are numbered in the order the server gives them out; 0 is no key.
RootKey == 1

Spending(what) == left[what] > 0 /\ left' = [left EXCEPT ![what] = @ - 1]

-----------------------------------------------------------------------------
(* SharedLayerGraph.  A graph maps the key of each parent to its entries,   *)
(* that is to the key of each sublayer (0 while the server cannot open it), *)
(* and to its topology revision, and binds keys to local layers.            *)

\* Op applied to the elements of seq in turn.  The sets of one element make TLC
\* evaluate each result once.
Through(Op(_, _), base, seq) ==
    LET acc[i \in 0 .. Len(seq)] ==
            IF i = 0 THEN base ELSE CHOOSE y \in {Op(x, seq[i]) : x \in {acc[i - 1]}} : TRUE
    IN  acc[Len(seq)]

NoGraph == [ready |-> FALSE, gen |-> 0, rev |-> 0, entries |-> <<>>, revs |-> <<>>, bind |-> <<>>]

ChildKeys(entries, k) == IF k \in DOMAIN entries THEN Range(entries[k]) \ {0} ELSE {}

\* What Kids reaches from start: no path is longer than the list of layers.
Closure(start, Kids(_)) ==
    Through(LAMBDA R, l : R \cup UNION {Kids(y) : y \in R}, {start}, Layer)

ReachableKeys(g) ==
    IF g.ready THEN Closure(RootKey, LAMBDA k : ChildKeys(g.entries, k)) ELSE {}

ParentRevision(g, k) == IF k \in DOMAIN g.revs THEN g.revs[k] ELSE 0
KeyFor(g, l)  == IF l \in Range(g.bind) THEN CHOOSE k \in DOMAIN g.bind : g.bind[k] = l ELSE 0
LayerFor(g, k) == g.bind[k]
Mapped(g, k)  == k \in DOMAIN g.bind

\* A transaction for this key can be routed.
Routable(g, k) == Mapped(g, k) /\ k \in ReachableKeys(g)

\* Layers reachable in what a process has authored, with overrides.
LocalReachable(sub, open) == Closure(Root, LAMBDA l : sub[l] \cap open)

\* Keys of the children that this process can open.
Opened(entries, open) == { l \in DOMAIN entries : entries[l] # 0 /\ l \in open }

BindAll(bind, entries, open) ==
    [k \in {entries[l] : l \in Opened(entries, open)} |->
        CHOOSE l \in Opened(entries, open) : entries[l] = k] @@ bind

PruneUnreachable(g) ==
    LET keep == ReachableKeys(g)
    IN  [g EXCEPT !.entries = Restrict(@, DOMAIN @ \cap keep),
                  !.revs = Restrict(@, DOMAIN @ \cap keep)]

\* _materialize_states: bind what can be opened, parents before children, and
\* give every bound parent the sublayers of the graph.
Materialize(sg, open) ==
    LET Parent(acc, l) ==
            LET k == KeyFor(acc.g, l)
            IN  IF k \notin ReachableKeys(acc.g) THEN acc
                ELSE [g |-> [acc.g EXCEPT !.bind = BindAll(@, acc.g.entries[k], open)],
                      s |-> [acc.s EXCEPT !.sub[l] = DOMAIN acc.g.entries[k]]]
    IN  Through(Parent, sg, Layer)

\* apply_state: a baseline of the same generation that is not newer is ignored.
ApplyState(sg, rec, open) ==
    IF rec.gen = sg.g.gen /\ rec.rev <= sg.g.rev
    THEN sg
    ELSE Materialize(
            [g |-> [ready |-> TRUE, gen |-> rec.gen, rev |-> rec.rev, entries |-> rec.entries,
                    revs |-> rec.revs, bind |-> RootKey :> Root],
             s |-> sg.s], open)

\* accept_sublayers: the routing half of a topology record.
AcceptSublayers(g, k, rec, open) ==
    [g EXCEPT !.bind = BindAll(@, rec.entries, open),
              !.entries = k :> rec.entries @@ @,
              !.revs = k :> rec.rev @@ @,
              !.rev = @ + 1]

\* apply_sublayers refuses a record that does not follow what it has.
Follows(g, rec) ==
    /\ rec.gen = g.gen
    /\ rec.key \in ReachableKeys(g)
    /\ rec.rev = ParentRevision(g, rec.key) + 1

ApplySublayers(sg, rec, open) ==
    [g |-> PruneUnreachable(AcceptSublayers(sg.g, rec.key, rec,
                                IF Mapped(sg.g, rec.key) THEN open ELSE {})),
     s |-> IF Mapped(sg.g, rec.key)
           THEN [sg.s EXCEPT !.sub[LayerFor(sg.g, rec.key)] = DOMAIN rec.entries]
           ELSE sg.s]

-----------------------------------------------------------------------------
(* Records.                                                                 *)

StateRecord(g) ==
    [t |-> "state", key |-> RootKey, gen |-> g.gen, rev |-> g.rev, entries |-> g.entries,
     revs |-> g.revs, val |-> 0]
TopRecord(k, gen, rev, entries) ==
    [t |-> "top", key |-> k, gen |-> gen, rev |-> rev, entries |-> entries,
     revs |-> <<>>, val |-> 0]
ContentRecord(k, v) ==
    [t |-> "content", key |-> k, gen |-> 0, rev |-> 0, entries |-> <<>>, revs |-> <<>>, val |-> v]

\* The client must start over: another history follows.
Resync == [t |-> "resync"]

\* canonicalize_sublayers: the server's key for every sublayer it can open:
\* the one it has always had, or a new one.
FreshKey(ids) == Cardinality({l \in Layers : ids[l] # 0}) + 1

AssignKeys(ids, sub, open) ==
    Through(LAMBDA acc, l : IF l \in sub \cap open /\ acc[l] = 0
                             THEN [acc EXCEPT ![l] = FreshKey(acc)] ELSE acc,
             ids, Layer)

Entries(ids, sub, open) == [l \in sub |-> IF l \in open THEN ids[l] ELSE 0]

\* discover_sublayer_states: layers that the last record made reachable get a
\* topology record of their own, parents before children.
Discover(acc0, open) ==
    LET Visit(acc, l) ==
            LET k == acc.ids[l]
            IN  IF \/ k = 0 \/ ~Routable(acc.g, k) \/ k \in DOMAIN acc.g.entries
                THEN acc
                ELSE LET ids == AssignKeys(acc.ids, acc.s.sub[l], open)
                         rec == TopRecord(k, acc.g.gen, ParentRevision(acc.g, k) + 1,
                                          Entries(ids, acc.s.sub[l], open))
                     IN  [g |-> AcceptSublayers(acc.g, k, rec, open), s |-> acc.s, ids |-> ids,
                          recs |-> Append(acc.recs, rec)]
        all == Through(Visit, acc0, Layer)
    IN  [all EXCEPT !.g = PruneUnreachable(@)]

-----------------------------------------------------------------------------
(* The server.                                                              *)

\* _commit_shared rejects a transaction for a layer that is not reachable
\* (any more), and a topology edit based on another generation or revision.
Stale(txn) ==
    LET g == graph[Server]
    IN  \/ ~Routable(g, txn.key)
        \/ txn.top.set /\ (txn.top.gen # g.gen \/ txn.top.rev # ParentRevision(g, txn.key))

\* What an accepted transaction does to the server's graph and stage.
Committed(txn) ==
    LET g    == graph[Server]
        l    == LayerFor(g, txn.key)
        open == avail[Server]
        ids  == AssignKeys(identity, txn.top.sub, open)
        rec  == TopRecord(txn.key, g.gen, ParentRevision(g, txn.key) + 1,
                          Entries(ids, txn.top.sub, open))
        data == IF txn.val = 0 THEN <<>> ELSE <<ContentRecord(txn.key, txn.val)>>
        s1   == IF txn.val = 0 THEN stage[Server] ELSE [stage[Server] EXCEPT !.content[l] = txn.val]
    IN  IF ~txn.top.set
        THEN [g |-> g, s |-> s1, ids |-> identity, recs |-> data]
        ELSE Discover([g |-> AcceptSublayers(g, txn.key, rec, open),
                       s |-> [s1 EXCEPT !.sub[l] = txn.top.sub],
                       ids |-> ids, recs |-> <<rec>> \o data], open)

\* The revision the user saw is still the current one.
Unseen(txn) ==
    /\ txn.top.set /\ txn.seen.gen # 0
    /\ txn.seen # [gen |-> graph[Server].gen, rev |-> ParentRevision(graph[Server], txn.key)]

Install(r) ==
    /\ graph' = [graph EXCEPT ![Server] = r.g]
    /\ stage' = [stage EXCEPT ![Server] = r.s]
    /\ identity' = r.ids
    /\ log' = log \o r.recs

Commit(c) ==
    /\ outbox[c] # <<>> /\ c \notin refused
    /\ LET txn == Head(outbox[c])
       IN  IF Stale(txn)
           THEN /\ refused' = refused \cup {c}
                /\ UNCHANGED <<graph, stage, identity, log, outbox, edits, overrode>>
           ELSE /\ \E done \in {Committed(txn)} : Install(done)
                /\ outbox' = [outbox EXCEPT ![c] = Tail(@)]
                /\ overrode' = IF Unseen(txn) THEN overrode \cup {txn.top.rebound} ELSE overrode
                /\ edits' = IF txn.val = 0 THEN edits ELSE [edits EXCEPT ![txn.val].open = FALSE]
                /\ UNCHANGED refused
    /\ UNCHANGED <<avail, history, tracker, feed, left, run, stamp, rewound, stranded, slips>>

\* The last content of every layer that is reachable.
Contents ==
    LET keep    == ReachableKeys(graph[Server])
        last(k) == LET is == {i \in DOMAIN log : log[i].t = "content" /\ log[i].key = k}
                   IN  {i \in is : \A j \in is : j <= i}
        rows    == SetToSortSeq(UNION {last(k) : k \in keep}, <)
    IN  [i \in DOMAIN rows |-> log[rows[i]]]

\* MUTANT: the compacted graph keeps its generation.
CompactionSameGeneration ==
    LET base == [graph[Server] EXCEPT !.rev = 1,
                                      !.revs = [k \in ReachableKeys(graph[Server]) |-> 1]]
    IN  [g |-> base, recs |-> <<StateRecord(base)>> \o Contents]

\* compact_log: a new generation whose baseline is the current graph, and the
\* content of the layers that are reachable now.
Compaction ==
    LET base == [graph[Server] EXCEPT !.gen = @ + 1, !.rev = 1,
                                      !.revs = [k \in ReachableKeys(graph[Server]) |-> 1]]
    IN  [g |-> base, recs |-> <<StateRecord(base)>> \o Contents]

CompactLog ==
    /\ Spending("compact")
    /\ Len(log) > 1
    /\ graph' = [graph EXCEPT ![Server] = Compaction.g]
    /\ log' = Compaction.recs
    /\ history' = <<history[1], history[2] + 1>>
    /\ rewound' = {}
    /\ stranded' = stranded \cup {l \in Layers : stage[Server].content[l] # 0
                                    /\ ~Routable(graph[Server], identity[l])}
    /\ UNCHANGED <<stage, avail, identity, tracker, feed, outbox, refused, run, edits, stamp,
                   overrode, slips>>

\* The stage of a process that has just opened the file.
Opening == [content |-> [l \in Layers |-> 0], sub |-> run.initial]

\* _replay_shared_log.
Replayed ==
    Through(LAMBDA sg, rec :
                CASE rec.t = "state" -> ApplyState(sg, rec, avail[Server])
                  [] rec.t = "top" -> ApplySublayers(sg, rec, avail[Server])
                  [] OTHER -> [sg EXCEPT !.s.content[LayerFor(sg.g, rec.key)] = rec.val],
             [g |-> NoGraph, s |-> Opening], log)

\* A new process restores the stage and the graph from the log.  Its
\* generation stays, the identity of the history does not.
Restart ==
    /\ Spending("restart")
    /\ \E new \in {Replayed} : /\ graph' = [graph EXCEPT ![Server] = new.g]
                              /\ stage' = [stage EXCEPT ![Server] = new.s]
    /\ history' = <<history[1] + 1, 0>>
    /\ rewound' = IF \A i \in DOMAIN log : log[i].t # "top" THEN rewound
                  ELSE {c \in Client : feed[c].sent > 0 \/ graph[c].gen = graph[Server].gen}
    /\ UNCHANGED <<avail, log, tracker, feed, outbox, refused, run, edits, stamp, overrode,
                   stranded, slips>>

\* MUTANT: the key registry is not read back.
RestartForgetful == Restart /\ identity' = [l \in Layers |-> KeyFor(Replayed.g, l)]

\* The key registry is restored too.
RestartServer == Restart /\ UNCHANGED identity

\* refresh_resolved_sublayers after an asset became available: entries without
\* a key get one, and so do the layers below them.
ServerRefresh(l) ==
    /\ Spending("asset")
    /\ l \notin avail[Server]
    /\ avail' = [avail EXCEPT ![Server] = @ \cup {l}]
    /\ LET open == avail'[Server]
           Retry(acc, p) ==
               LET k == KeyFor(acc.g, p)
               IN  IF ~Routable(acc.g, k) THEN acc
                   ELSE IF 0 \notin Range(acc.g.entries[k]) THEN acc
                   ELSE LET ids == AssignKeys(acc.ids, acc.s.sub[p], open)
                            rec == TopRecord(k, acc.g.gen, ParentRevision(acc.g, k) + 1,
                                             Entries(ids, acc.s.sub[p], open))
                        IN  IF rec.entries = acc.g.entries[k] THEN acc
                            ELSE Discover([acc EXCEPT !.g = AcceptSublayers(@, k, rec, open),
                                                      !.ids = ids,
                                                      !.recs = Append(@, rec)], open)
       IN  Install(Through(Retry, [g |-> graph[Server], s |-> stage[Server], ids |-> identity,
                                    recs |-> <<>>], Layer))
    /\ UNCHANGED <<history, tracker, feed, outbox, refused, run, edits, stamp, overrode,
                   rewound, stranded, slips>>

-----------------------------------------------------------------------------
(* SdfLayerChangeTracker.  Its functions act on a client's record x:        *)
(* g graph, s stage, t tracker, open layers it can open, slip auxiliary.    *)

Capture(s, l) == [content |-> s.content[l], sub |-> s.sub[l]]

BatchOf(t, l)  == SelectSeq(t.prepared, LAMBDA b : b.layer = l)
Busy(t, l)     == l \in t.dirty \/ BatchOf(t, l) # <<>>

\* sync_graph: track what is reachable in the authored graph, frozen topology
\* edits included, and forget the edits of every other layer.
SyncGraph(x) ==
    LET sub == [l \in Layers |-> LET b == SelectSeq(BatchOf(x.t, l), LAMBDA a : a.top.set)
                                 IN  IF b = <<>> THEN x.s.sub[l] ELSE b[1].top.sub]
        now == LocalReachable(sub, x.open)
    IN  [x EXCEPT
            !.t = [prepared |-> SelectSeq(@.prepared, LAMBDA b : b.layer \in now),
                   dirty |-> @.dirty \cap now,
                   base |-> [l \in now |-> IF l \in DOMAIN @.base THEN @.base[l]
                                                                  ELSE Capture(x.s, l)]],
            !.slip = @ \cup {l \in Layers \ now : Busy(x.t, l)}]

\* The end of suppressed(): what the server wrote to a layer without local
\* edits is its new baseline.
Settle(x) ==
    LET y == SyncGraph(x)
    IN  [y EXCEPT !.t.base = [l \in DOMAIN @ |-> IF Busy(y.t, l) THEN @[l] ELSE Capture(y.s, l)]]

\* _bind_topology_base: a topology edit is based on what the graph says now.
BindBase(x, l, top) ==
    IF ~top.set \/ top.gen # 0 \/ ~x.g.ready \/ KeyFor(x.g, l) = 0 THEN top
    ELSE [top EXCEPT !.gen = x.g.gen, !.rev = ParentRevision(x.g, KeyFor(x.g, l))]

\* _diff_specs: what the specs of a layer say now, 0 if that is the baseline.
ChangedContent(base, now) == IF now.content = base.content THEN 0 ELSE now.content

\* The difference of one layer from its baseline, topology included, as a batch.
Difference(x, l) ==
    LET old == BatchOf(x.t, l)
        now == Capture(x.s, l)
        top == IF now.sub = x.t.base[l].sub THEN NoTop
               ELSE BindBase(x, l, [NoTop EXCEPT !.set = TRUE, !.sub = now.sub])
    IN  [layer |-> l, fresh |-> TRUE,
         val |-> ChangedContent(x.t.base[l], now),
         top |-> IF old = <<>> THEN top
                 ELSE [top EXCEPT !.rebound = \/ old[1].top.rebound
                                              \/ old[1].top.gen # 0 /\ old[1].top # top]]

\* prepare_local_changes: a layer that changed since its batch was frozen, if
\* only because the batch was put back, is compared again.
Prepare(x0) ==
    LET Freeze(x, l) ==
            LET old == BatchOf(x.t, l)
                new == Difference(x, l)
                pos == CHOOSE i \in DOMAIN x.t.prepared : x.t.prepared[i].layer = l
            IN  IF l \notin x.t.dirty \/ (old # <<>> /\ old[1].fresh) THEN x
                ELSE IF new.val = 0 /\ ~new.top.set
                THEN [x EXCEPT !.t.dirty = @ \ {l},
                               !.t.prepared = SelectSeq(@, LAMBDA b : b.layer # l)]
                ELSE IF old = <<>> THEN [x EXCEPT !.t.prepared = Append(@, new)]
                ELSE [x EXCEPT !.t.prepared[pos] = new]
        y == SyncGraph(x0)
    IN  Through(Freeze, y, SelectSeq(Layer, LAMBDA l : l \in DOMAIN y.t.base))

\* restore_prepared: the frozen edits go back on top of what was applied.
Restore(x0) ==
    LET Put(x, i) ==
            LET b == x.t.prepared[i]
            IN  IF b.layer \notin LocalReachable(x.s.sub, x.open) THEN x
                ELSE [x EXCEPT
                        !.s.sub[b.layer] = IF b.top.set THEN b.top.sub ELSE @,
                        !.s.content[b.layer] = IF b.val # 0 THEN b.val ELSE @,
                        !.t.prepared[i].fresh =
                            @ /\ ~b.top.set /\ b.val \in {0, x.s.content[b.layer]}]
    IN  IF ~x0.g.ready \/ x0.t.prepared = <<>> THEN x0
        ELSE Settle(Through(Put, x0, [i \in DOMAIN x0.t.prepared |-> i]))

\* MUTANT: the baseline stays behind what the server wrote.
AcceptNothing(x, l, v) == x

\* accept_authoritative_event and accept_authoritative_sublayers: the baseline
\* of a layer with local edits follows the server.
AcceptContent(x, l, v) ==
    IF Busy(x.t, l) /\ l \in DOMAIN x.t.base THEN [x EXCEPT !.t.base[l].content = v] ELSE x

AcceptSubs(x, l, sub) ==
    IF Busy(x.t, l) /\ l \in DOMAIN x.t.base THEN [x EXCEPT !.t.base[l].sub = sub] ELSE x

-----------------------------------------------------------------------------
(* SharedStageClient.                                                       *)

WriteContent(x, k, v) ==
    LET l == LayerFor(x.g, k) IN AcceptContent([x EXCEPT !.s.content[l] = v], l, v)

\* After the graph was replaced: its sublayers are every baseline's.
AcceptGraph(x) ==
    Through(LAMBDA y, l : IF KeyFor(y.g, l) \in ReachableKeys(y.g)
                           THEN AcceptSubs(y, l, DOMAIN y.g.entries[KeyFor(y.g, l)]) ELSE y,
             x, Layer)

\* _apply_record.  A record that does not follow the graph raises an error, and
\* one for a layer that is not mapped yet is deferred.
ApplyRecord(x, rec) ==
    LET sg == [g |-> x.g, s |-> x.s]
        On(r) == [x EXCEPT !.g = r.g, !.s = r.s, !.seq = @ + 1]
    IN  CASE ~x.ok -> x
          [] x.ok /\ rec.t = "state" -> SyncGraph(AcceptGraph(On(ApplyState(sg, rec, x.open))))
          [] x.ok /\ rec.t = "top" ->
                IF ~Follows(x.g, rec) THEN [x EXCEPT !.ok = FALSE]
                ELSE LET y == On(ApplySublayers(sg, rec, x.open))
                     IN  SyncGraph(IF Mapped(x.g, rec.key)
                                   THEN AcceptSubs(y, LayerFor(x.g, rec.key), DOMAIN rec.entries)
                                   ELSE y)
          [] x.ok /\ rec.t = "content" ->
                IF Mapped(x.g, rec.key) THEN WriteContent(On(sg), rec.key, rec.val)
                ELSE [On(sg) EXCEPT !.deferred = Append(@, rec)]

\* _apply_pending: deferred records whose layer has been mapped.
ApplyPending(x) ==
    LET now == SelectSeq(x.deferred, LAMBDA r : Mapped(x.g, r.key))
    IN  [Through(LAMBDA y, r : WriteContent(y, r.key, r.val), x, now)
            EXCEPT !.deferred = SelectSeq(x.deferred, LAMBDA r : ~Mapped(x.g, r.key))]

\* _apply_incoming.  A resync discards what was received before it.
ApplyIncoming(x, batch) ==
    LET cuts  == {i \in DOMAIN batch : batch[i].t = "resync"}
        start == IF cuts = {} THEN x ELSE [x EXCEPT !.seq = 0, !.deferred = <<>>]
        cut   == IF cuts = {} THEN 0 ELSE CHOOSE i \in cuts : \A j \in cuts : j <= i
        y     == Through(ApplyRecord, start, SubSeq(batch, cut + 1, Len(batch)))
    IN  IF batch = <<>> THEN x ELSE Settle(IF y.ok THEN ApplyPending(y) ELSE y)

\* What update() works on.
Local(c) ==
    [g |-> graph[c], s |-> stage[c], t |-> tracker[c], open |-> avail[c], slip |-> {},
     seq |-> feed[c].seq, deferred |-> feed[c].deferred, ok |-> TRUE]

\* The batches that can be routed are sent in order and become the baseline.
Send(x) ==
    LET out == SelectSeq(x.t.prepared, LAMBDA b : Routable(x.g, KeyFor(x.g, b.layer)))
        One(t, b) ==
            [prepared |-> SelectSeq(t.prepared, LAMBDA a : a.layer # b.layer),
             dirty |-> IF b.fresh THEN t.dirty \ {b.layer} ELSE t.dirty,
             base |-> [t.base EXCEPT ![b.layer] =
                         [content |-> IF b.val = 0 THEN @.content ELSE b.val,
                          sub |-> IF b.top.set THEN b.top.sub ELSE @.sub]]]
    IN  [t |-> Through(One, x.t, out), out |-> out]

Transaction(c, x, b) ==
    [key |-> KeyFor(x.g, b.layer), val |-> b.val, top |-> BindBase(x, b.layer, b.top),
     seen |-> stamp[c][b.layer], layer |-> b.layer]

Least(a, b) == IF a < b THEN a ELSE b
Minus(a, b) == IF a < b THEN 0 ELSE a - b

\* update(): freeze local edits, apply n queued records, put the edits back,
\* and send them unless older messages are still queued before them.
Update(c, n) ==
    LET f     == feed[c]
        batch == SubSeq(f.queue, 1, n)
        rest  == SubSeq(f.queue, n + 1, Len(f.queue))
    IN  \E x1 \in {Prepare(Local(c))} : \E x \in {Restore(ApplyIncoming(x1, batch))} :
        LET due  == IF tracker[c].prepared = <<>> /\ x1.t.prepared # <<>>
                    THEN Len(f.queue) ELSE f.ahead
            hold == Least(Minus(due, n), Len(rest))
            synchronized == x.g.ready /\ x.seq >= f.upTo /\ ~Contains(rest, Resync)
            may  == x.ok /\ synchronized /\ f.online /\ c \notin refused /\ hold = 0
        IN  \E sent \in {IF may THEN Send(x) ELSE [t |-> x.t, out |-> <<>>]} :
            /\ stage' = [stage EXCEPT ![c] = x.s]
            /\ graph' = [graph EXCEPT ![c] = x.g]
            /\ tracker' = [tracker EXCEPT ![c] = sent.t]
            /\ outbox' = [outbox EXCEPT ![c] =
                            @ \o [i \in DOMAIN sent.out |-> Transaction(c, x, sent.out[i])]]
            /\ feed' = [feed EXCEPT ![c] =
                          [@ EXCEPT !.seq = x.seq, !.deferred = x.deferred, !.ahead = hold,
                                    !.queue = IF x.ok THEN rest ELSE <<>>,
                                    !.sent = IF x.ok THEN @ ELSE x.seq,
                                    !.upTo = IF x.ok THEN @ ELSE Len(log)]]
            /\ slips' = slips \cup ({c} \X x.slip)
            /\ UNCHANGED <<avail, identity, log, history, refused, left, run, edits, stamp,
                           overrode, rewound, stranded>>

\* Everything that is queued, or one message of it.
Steps(c) == {Least(1, Len(feed[c].queue)), Len(feed[c].queue)}

\* refresh_layer_graph, after an asset became available to the client.
ClientRefresh(c, l) ==
    /\ Spending("asset")
    /\ l \notin avail[c] /\ graph[c].ready
    /\ avail' = [avail EXCEPT ![c] = @ \cup {l}]
    /\ \E x \in {[Local(c) EXCEPT !.open = @ \cup {l}]} :
       \E m \in {Materialize([g |-> x.g, s |-> x.s], x.open)} :
       \E x1 \in {AcceptGraph(SyncGraph([x EXCEPT !.g = m.g, !.s = m.s]))} :
       \E y \in {Restore(Settle(ApplyPending(x1)))} :
          /\ graph' = [graph EXCEPT ![c] = y.g]
          /\ stage' = [stage EXCEPT ![c] = y.s]
          /\ tracker' = [tracker EXCEPT ![c] = y.t]
          /\ feed' = [feed EXCEPT ![c].deferred = y.deferred]
          /\ slips' = slips \cup ({c} \X y.slip)
    /\ UNCHANGED <<identity, log, history, outbox, refused, run, edits, stamp, overrode, rewound, stranded>>

\* The next message arrives, or the news that the history is another one.
Arrive(c) ==
    /\ IF feed[c].seen # history
       THEN feed' = [feed EXCEPT ![c] = [@ EXCEPT !.seen = history, !.sent = 0, !.upTo = Len(log),
                                                  !.queue = Append(@, Resync)]]
       ELSE /\ feed[c].sent < Len(log)
            /\ feed' = [feed EXCEPT ![c] = [@ EXCEPT !.sent = @ + 1,
                                              !.queue = Append(@, log[feed[c].sent + 1])]]
    /\ UNCHANGED <<stage, graph, avail, identity, log, history, tracker, outbox, refused, left,
                   run,
                   edits, stamp, overrode, rewound, stranded, slips>>

\* The sender loses its connection and gets it back.
GoOffline(c) ==
    /\ Spending("offline")
    /\ feed' = [feed EXCEPT ![c].online = FALSE]
    /\ UNCHANGED <<stage, graph, avail, identity, log, history, tracker, outbox, refused, run,
                   edits, stamp, overrode, rewound, stranded, slips>>

GoOnline(c) ==
    /\ ~feed[c].online
    /\ feed' = [feed EXCEPT ![c].online = TRUE]
    /\ UNCHANGED <<stage, graph, avail, identity, log, history, tracker, outbox, refused, left,
                   run,
                   edits, stamp, overrode, rewound, stranded, slips>>

\* repair_and_resume: the application rebuilds the rejected transaction on the
\* current graph, if its layer is still there.
Repair(c) ==
    /\ c \in refused
    /\ LET txn == Head(outbox[c])
           k   == KeyFor(graph[c], txn.layer)
           top == [txn.top EXCEPT !.gen = graph[c].gen, !.rev = ParentRevision(graph[c], k)]
       IN  /\ Routable(graph[c], k)
           /\ outbox' = [outbox EXCEPT ![c][1] =
                            [txn EXCEPT !.key = k, !.top = IF @.set THEN top ELSE @,
                                        !.seen = [gen |-> top.gen, rev |-> top.rev]]]
    /\ refused' = refused \ {c}
    /\ UNCHANGED <<stage, graph, avail, identity, log, history, tracker, feed, left, run, edits,
                   stamp, overrode, rewound, stranded, slips>>

\* Edits of c in the layers S that its user has replaced or given up.
Close(c, S) ==
    [v \in DOMAIN edits |-> IF edits[v].who = c /\ edits[v].layer \in S
                            THEN [edits[v] EXCEPT !.open = FALSE] ELSE edits[v]]

\* recover_use_server: the rejected work is set aside and the history is
\* replayed onto a clean stage.
UseServer(c) ==
    /\ c \in refused
    /\ tracker[c].dirty = {} /\ tracker[c].prepared = <<>>
    /\ \E clean \in {[Local(c) EXCEPT !.g = NoGraph, !.s = Opening, !.seq = 0, !.deferred = <<>>,
                        !.t = [base |-> [l \in LocalReachable(run.initial, avail[c]) |->
                                            Capture(Opening, l)],
                               dirty |-> {}, prepared |-> <<>>]]} :
       \E x \in {ApplyIncoming(clean, log)} :
          /\ stage' = [stage EXCEPT ![c] = x.s]
          /\ graph' = [graph EXCEPT ![c] = x.g]
          /\ tracker' = [tracker EXCEPT ![c] = x.t]
          /\ feed' = [feed EXCEPT ![c] =
                        [@ EXCEPT !.seq = x.seq, !.deferred = x.deferred, !.seen = history,
                                  !.queue = <<>>, !.sent = Len(log), !.upTo = Len(log)]]
    /\ outbox' = [outbox EXCEPT ![c] = <<>>]
    /\ refused' = refused \ {c}
    /\ rewound' = rewound \ {c}
    /\ slips' = slips \ ({c} \X Layers)
    /\ edits' = Close(c, Layers)
    /\ UNCHANGED <<avail, identity, log, history, left, run, stamp, overrode, stranded>>

-----------------------------------------------------------------------------
(* The user of a client edits a layer of the stage.  The tracker hears of   *)
(* it if it tracks the layer.                                               *)

Notice(c, l) ==
    IF l \in DOMAIN tracker[c].base
    THEN /\ tracker' = [tracker EXCEPT ![c] =
                [@ EXCEPT !.dirty = @ \cup {l},
                          !.prepared = [i \in DOMAIN @ |->
                              IF @[i].layer = l THEN [@[i] EXCEPT !.fresh = FALSE] ELSE @[i]]]]
         /\ UNCHANGED slips
    ELSE slips' = slips \cup {<<c, l>>} /\ UNCHANGED tracker

EditContent(c, l) ==
    /\ <<c, l>> \in run.writers /\ Spending("content")
    /\ l \in LocalReachable(stage[c].sub, avail[c])
    /\ edits' = Append(Close(c, {l}), [who |-> c, layer |-> l, open |-> TRUE])
    /\ stage' = [stage EXCEPT ![c].content[l] = Len(edits')]
    /\ Notice(c, l)
    /\ UNCHANGED <<graph, avail, identity, log, history, feed, outbox, refused, run, stamp,
                   overrode, rewound, stranded>>

EditTopology(c, l, sub) ==
    /\ <<c, l, sub>> \in run.movers /\ Spending("topology")
    /\ l \in LocalReachable(stage[c].sub, avail[c])
    /\ sub # stage[c].sub[l]
    /\ stage' = [stage EXCEPT ![c].sub[l] = sub]
    /\ stamp' = [stamp EXCEPT ![c][l] =
                    [gen |-> IF KeyFor(graph[c], l) = 0 THEN 0 ELSE graph[c].gen,
                     rev |-> ParentRevision(graph[c], KeyFor(graph[c], l))]]
    /\ Notice(c, l)
    /\ UNCHANGED <<graph, avail, identity, log, history, feed, outbox, refused, run, edits,
                   overrode, rewound, stranded>>

-----------------------------------------------------------------------------
StageInit ==
    /\ run \in StageRuns
    /\ left = run.budget
    /\ avail = [p \in Procs |-> Layers \ run.missing[p]]
    /\ stage = [p \in Procs |-> Opening]
    /\ LET open == avail[Server]
           seen == LocalReachable(run.initial, open)
           ids  == AssignKeys([l \in Layers |-> 0], seen, open)
           g0   == [ready |-> TRUE, gen |-> 1, rev |-> 1,
                    entries |-> [k \in {ids[l] : l \in seen} |->
                        LET l == CHOOSE l \in seen : ids[l] = k IN Entries(ids, run.initial[l], open)],
                    revs |-> [k \in {ids[l] : l \in seen} |-> 1],
                    bind |-> [k \in {ids[l] : l \in seen} |-> CHOOSE l \in seen : ids[l] = k]]
       IN  /\ identity = ids
           /\ log = <<StateRecord(g0)>>
           /\ graph = [p \in Procs |->
                 CASE p = Server -> g0
                   [] p \in run.joined ->
                        ApplyState([g |-> NoGraph, s |-> Opening], log[1], avail[p]).g
                   [] OTHER -> NoGraph]
    /\ history = <<1, 0>>
    /\ tracker = [c \in Client |->
          [base |-> [l \in LocalReachable(run.initial, avail[c]) |-> Capture(Opening, l)],
           dirty |-> {}, prepared |-> <<>>]]
    /\ feed = [c \in Client |->
          LET n == IF c \in run.joined THEN 1 ELSE 0
          IN  [seq |-> n, seen |-> history, sent |-> n, queue |-> <<>>, ahead |-> 0,
               upTo |-> 1, deferred |-> <<>>, online |-> TRUE]]
    /\ outbox = [c \in Client |-> <<>>]
    /\ refused = {}
    /\ edits = <<>>
    /\ stamp = [c \in Client |-> [l \in Layers |-> [gen |-> 0, rev |-> 0]]]
    /\ overrode = {} /\ rewound = {} /\ stranded = {} /\ slips = {}

StageUsers ==
    \E c \in Client, l \in Layers :
        \/ EditContent(c, l)
        \/ \E sub \in SUBSET Layers : EditTopology(c, l, sub)

StageFaults ==
    \/ CompactLog \/ RestartServer
    \/ \E l \in Layers : ServerRefresh(l)
    \/ \E c \in Client : GoOffline(c) \/ (\E l \in Layers : ClientRefresh(c, l))

\* What a client's update loop, its connections and the server do unasked.
StageWork(c) ==
    \/ \E n \in Steps(c) : Update(c, n)
    \/ Arrive(c)
    \/ GoOnline(c)
    \/ Commit(c)

StageRecovery(c) == Repair(c) \/ UseServer(c)

StageNext ==
    \/ StageUsers
    \/ StageFaults
    \/ \E c \in Client : StageWork(c) \/ StageRecovery(c)

\* The update loop, the two connections and the server keep running.  Nobody
\* has to edit, and a rejected transaction waits for its application.  (An
\* update with nothing to do changes nothing: Due(c) is ENABLED of the update.)
Due(c) ==
    \/ feed[c].queue # <<>>
    \/ tracker[c].dirty # {} \/ tracker[c].prepared # <<>>

StageFairness ==
    \A c \in Client :
        /\ []<>~Due(c) \/ []<><<\E n \in Steps(c) : Update(c, n)>>_stageVars
        /\ WF_stageVars(Arrive(c))
        /\ WF_stageVars(GoOnline(c))
        /\ WF_stageVars(Commit(c))

StageSpec == StageInit /\ [][StageNext]_stageVars /\ StageFairness

-----------------------------------------------------------------------------
(* Properties.                                                              *)

\* A layer has one key, the same in every process and for ever, through
\* detaching, compaction and restarts (the registry of shared_layer_graph.py).
KeysAgree ==
    /\ \A k, l \in Layers : identity[k] # 0 /\ identity[k] = identity[l] => k = l
    /\ \A p \in Procs : \A k \in DOMAIN graph[p].bind : identity[graph[p].bind[k]] = k

\* The server never commits a topology edit over a list of sublayers that its
\* author had not seen, except one the client's tracker had bound to a newer
\* revision when it compared the layer again (_commit_shared's conflict check).
TopologyEditsSeen == overrode \subseteq {TRUE}

\* Between updates a layer without local edits is what its baseline says, so
\* nothing that the server wrote will ever be taken for a local edit, and no
\* local edit for the server's (suppressed() and mark_prepared_sent()).
CleanIsBaseline ==
    \A c \in Client : \A l \in DOMAIN tracker[c].base :
        ~Busy(tracker[c], l) => tracker[c].base[l] = Capture(stage[c], l)

\* An edit that is neither committed, replaced nor given up is on its way: sent,
\* frozen, or visible to the next comparison, and a client sends the edits of
\* its own user and no one else's (prepare and restore around the replay in
\* update(), accept_authoritative_event()).  Layers with slips are those whose
\* edits the tracker never heard of or dropped with a layer that was detached.
\* A clean layer is its baseline, and no topology edit overrides an unseen one.
EditsAccounted ==
    /\ CleanIsBaseline
    /\ TopologyEditsSeen
    /\ \A v \in DOMAIN edits :
         LET c == edits[v].who
             l == edits[v].layer
             t == tracker[c]
         IN  edits[v].open /\ <<c, l>> \notin slips =>
             \/ \E i \in DOMAIN outbox[c] : outbox[c][i].val = v
             \/ \E i \in DOMAIN t.prepared : t.prepared[i].val = v
             \/ l \in t.dirty /\ stage[c].content[l] = v /\ t.base[l].content # v
    /\ \A c \in Client : \A i \in DOMAIN outbox[c] :
         outbox[c][i].val # 0 => edits[outbox[c][i].val].who = c

\* Layer l is at client c as it is at the server, if c can open it.
Agrees(c, l) ==
    l \in LocalReachable(stage[Server].sub, avail[c] \cap avail[Server])
    => Capture(stage[c], l) = Capture(stage[Server], l)

\* Once the users rest, every client comes to hold the server's layers: after
\* conflicts, repairs, lost connections, compactions and late assets.  Not
\* claimed for a client that waits for a repair, one that a restarted server
\* cannot resume (RestartConverges), a layer with slips, and one that was
\* detached when the log was compacted.
StageConverges ==
    \A c \in Client : \A l \in Layers :
        <>[](c \notin refused \cup rewound /\ <<c, l>> \notin slips /\ l \notin stranded
             => Agrees(c, l))

\* "clients reconnect and converge after server restart", whatever the history
\* the server restored holds.
RestartConverges ==
    \A c \in Client : \A l \in Layers :
        <>[](c \notin refused /\ <<c, l>> \notin slips /\ l \notin stranded => Agrees(c, l))
=============================================================================
