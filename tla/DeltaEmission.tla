--------------------------- MODULE DeltaEmission ---------------------------
(***************************************************************************)
(* How a managed client turns USD notices into events and receivers turn   *)
(* the events back into opinions: ManagedClient.update, NoticeEmitter      *)
(* (emitter.py), the appliers (event_apply.py, sdf_spec_delta.py) and the  *)
(* transform coalescing window.                                            *)
(*                                                                         *)
(* A layer maps the key of a spec, <<prim>> or <<prim, property>>, to the  *)
(* fields it authors; <<>> is an absent spec. A stage is a sequence of     *)
(* layers, strongest first. USD's composition, editing calls and notices   *)
(* are external: they are modelled from how the code uses them.            *)
(***************************************************************************)
EXTENDS Naturals, SequencesExt

CONSTANTS
    Plans,      \* a sequence of scenarios: what is on the stage and what the users may do
    Foreign     \* bound: transactions of another client

VARIABLES
    plan,       \* the scenario
    local,      \* the client's authoring layer
    mirror,     \* its received copy of its own collaboration layer
    seen,       \* its received copy of another client's layer
    copy,       \* the client's layer as the server and the receivers hold it
    other,      \* the other client's layer there
    wire,       \* committed transactions the client has not applied
    em,         \* the state of NoticeEmitter
    prepared,   \* _prepared_events, <<>> is None
    ahead,      \* BacklogHold._ahead
    buffering,  \* TransformCoalescingWindow._deadline is set
    edits, foreign,  \* bounds
    log,        \* history: the committed events of the client's layer
    forgotten   \* history: keys whose unsent notices were discarded

vars == <<plan, local, mirror, seen, copy, other, wire, em, prepared, ahead,
          buffering, edits, foreign, log, forgotten>>

Prim == {"par", "kid"}
Prop == {"vis", "attr", "custom", "trs"}
\* Properties the prim definition of every typed prim declares.
Schema == {"vis", "attr"}
Key == {<<p>> : p \in Prim} \cup (Prim \X Prop)
Under(p) == IF p = "par" THEN Prim ELSE {"kid"}
Depth(p) == IF p = "par" THEN 1 ELSE 2
\* Parents before children, a prim before its properties.
KeyOrder == <<<<"par">>, <<"par", "attr">>, <<"par", "custom">>, <<"par", "trs">>,
              <<"par", "vis">>, <<"kid">>, <<"kid", "attr">>, <<"kid", "custom">>,
              <<"kid", "trs">>, <<"kid", "vis">>>>
Nil == ""
Block == "block"
Types == {"A", "B"}
All == {"*"}            \* a resync: None in _dirty_sdf_specs
ValueFields == {"default", "timeSamples"}

-----------------------------------------------------------------------------
(* Layers and composition.                                                 *)

Blank == [k \in Key |-> <<>>]
Has(l, k) == l[k] # <<>>
Specifier(l, p) == IF Has(l, <<p>>) THEN l[<<p>>].specifier ELSE Nil

\* Authoring a spec creates overs for the missing prims above it.
WithPrim(l, p) ==
    [k \in Key |-> IF Len(k) = 1 /\ p \in Under(k[1]) /\ ~Has(l, k)
                     THEN [specifier |-> "over"] ELSE l[k]]
Author(l, k, v) ==
    [WithPrim(l, k[1]) EXCEPT
       ![k] = v @@ (IF Len(k) = 2 THEN "decl" :> Nil ELSE <<>>) @@ @]
Define(l, p, t) == Author(l, <<p>>, "specifier" :> t)
Without(l, k, fs) == [l EXCEPT ![k] = Restrict(@, DOMAIN @ \ fs)]
RemovePrim(l, p) == [k \in Key |-> IF k[1] \in Under(p) THEN <<>> ELSE l[k]]

Opinion(s, k, f) ==
    LET at == {i \in DOMAIN s : f \in DOMAIN s[i][k]}
    IN IF at = {} THEN Nil ELSE s[CHOOSE i \in at : \A j \in at : i <= j][k][f]
Active(s, p) == Opinion(s, <<p>>, "active") # "off"
\* Usd.Stage.GetPrimAtPath finds a prim.
Composed(s, p) ==
    /\ \E i \in DOMAIN s : Has(s[i], <<p>>)
    /\ p = "kid" => Active(s, "par")
Defined(s, p) ==
    /\ Composed(s, p)
    /\ \A q \in {"par", p} : \E i \in DOMAIN s : Specifier(s[i], q) \in Types \cup {"def"}
\* The prim's composed type.
TypeAt(s, p) ==
    LET at == {i \in DOMAIN s : Specifier(s[i], p) \in Types}
    IN IF at = {} THEN Nil
       ELSE Specifier(s[CHOOSE i \in at : \A j \in at : i <= j], p)
HasProp(s, k) ==
    /\ Composed(s, k[1])
    /\ \/ k[2] \in Schema /\ TypeAt(s, k[1]) # Nil
       \/ \E i \in DOMAIN s : Has(s[i], k)

\* The client's stage and the stage of every receiver.
ClientStage(l) == <<seen, mirror, l, plan.base>>
ReceiverStage == <<other, copy, plan.base>>

-----------------------------------------------------------------------------
(* Application of events (event_apply.py). The event kinds are ensure,     *)
(* ops, set, erase, exact and remove (set_sdf_spec_fields), delete and      *)
(* deactivate.                                                             *)

\* f are the fields the event is about and v the values it carries.
Event(k, key, f, v) == [k |-> k, key |-> key, f |-> f, v |-> v]

\* _apply_ensure_prim and get_or_define_prim. A prim below an inactive one
\* cannot be defined.
ApplyEnsure(s, l, p, t) ==
    IF p = "kid" /\ ~Active(s, "par") THEN l
    ELSE IF p = "kid" /\ ~Defined(s, "par") THEN Define(Define(l, "par", "def"), p, t)
    ELSE Define(l, p, t)

\* ensure_canonical_ops.
ApplyOps(s, l, p) ==
    LET m == IF Composed(s, p) THEN l ELSE ApplyEnsure(s, l, p, "A")
    IN IF Has(m, <<p, "trs">>) \/ (p = "kid" /\ ~Active(s, "par")) THEN m
       ELSE Author(m, <<p, "trs">>, <<>>)

\* apply_spec_delta_to_layer: replaces the fields e.f.
ApplyExact(l, e) ==
    LET m == IF Has(l, e.key) THEN l
             ELSE IF Len(e.key) = 2 THEN Author(l, e.key, <<>>)
             ELSE WithPrim(l, e.key[1])
    IN [m EXCEPT ![e.key] = e.v @@ Restrict(@, DOMAIN @ \ e.f)]

\* One applier on stage s whose edit target is layer i.
ApplyEvent(s, i, e) ==
    LET l == s[i]  p == e.key[1] IN
    [s EXCEPT ![i] =
       CASE e.k = "ensure" -> ApplyEnsure(s, l, p, e.v.specifier)
         [] e.k = "ops" -> ApplyOps(s, l, p)
         [] e.k = "set" -> IF HasProp(s, e.key) THEN Author(l, e.key, e.v) ELSE l
         [] e.k = "erase" -> Without(l, e.key, {"timeSamples"})
         [] e.k = "exact" -> ApplyExact(l, e)
         [] e.k = "remove" -> [l EXCEPT ![e.key] = <<>>]
         [] e.k = "delete" -> RemovePrim(l, p)
         [] e.k = "deactivate" -> IF Composed(s, p) THEN Author(l, <<p>>, "active" :> "off") ELSE l]

\* Variant: the removal of a spec is reordered like other exact edits.
BarrierSamples(e) ==
    \/ e.k \in {"delete", "erase"}
    \/ e.k = "exact" /\ "timeSamples" \in e.f
\* is_sample_history_barrier, deletes.
Barrier(e) ==
    \/ e.k \in {"delete", "erase", "remove"}
    \/ e.k = "exact" /\ "timeSamples" \in e.f

\* apply_events and _apply_segment: between barriers, creates by depth, then
\* the other structural events, then values.
Rank(evs, j) ==
    LET e == evs[j]
        earlier == Len(SelectSeq(SubSeq(evs, 1, j - 1), Barrier))
    IN <<2 * earlier + (IF Barrier(e) THEN 1 ELSE 0),
         CASE e.k = "ensure" -> Depth(e.key[1])
           [] e.k \in {"ops", "exact", "remove"} -> 3
           [] OTHER -> 4,
         j>>
Before(a, b) ==
    \/ a[1] < b[1]
    \/ a[1] = b[1] /\ a[2] < b[2]
    \/ a[1] = b[1] /\ a[2] = b[2] /\ a[3] < b[3]
InOrder(evs) ==
    LET order == SetToSortSeq({Rank(evs, j) : j \in DOMAIN evs}, Before)
    IN [n \in DOMAIN order |-> evs[order[n][3]]]
Apply(s, i, evs) ==
    FoldLeft(LAMBDA t, e : ApplyEvent(t, i, e), s, InOrder(evs))

-----------------------------------------------------------------------------
(* NoticeEmitter: what it records when USD notifies it.                    *)

NoNotices ==
    [dirty |-> {}, attrs |-> [p \in Prim |-> {}], samples |-> [p \in Prim |-> {}],
     deactivations |-> {}, removed |-> {}, resynced |-> {},
     marks |-> <<>>, subtrees |-> <<>>, full |-> FALSE]
NoCaches ==
    [known |-> {}, cache |-> [k \in Key |-> Nil], ts |-> [k \in Key |-> Nil],
     fields |-> [k \in Key |-> {}], sdf |-> [k \in Key |-> {}],
     state |-> [p \in Prim |-> Nil]]
\* out collects the events of the batch being built.
Emitter == NoNotices @@ NoCaches @@ [out |-> <<>>]

\* _mark_exact_sdf_spec.
Mark(e, k, fs) ==
    LET old == IF k \in DOMAIN e.marks THEN e.marks[k] ELSE {}
    IN [e EXCEPT !.marks = (k :> (IF "*" \in old \cup fs THEN All ELSE old \cup fs)) @@ @]

\* _mark_sdf_property_spec: l and s are the layer and the stage as they are now.
MarkProp(e, l, s, k, fs) ==
    IF Has(l, k) \/ e.sdf[k] # {} THEN Mark(e, k, fs)
    ELSE IF HasProp(s, k) THEN Mark(e, k, IF fs = All THEN e.fields[k] ELSE fs)
    ELSE e

\* _record_prim_resync. PrimResyncType.Delete is a prim no layer composes.
RecordPrimResync(e, l, s, p) ==
    IF ~Composed(s, p) THEN [e EXCEPT !.deactivations = @ \cup {p}]
    ELSE IF e.state[p] \notin {Nil, "over"} /\ Specifier(l, p) \in {Nil, "over"}
      THEN [e EXCEPT !.removed = @ \cup {p}, !.resynced = @ \cup {p}]
    ELSE IF ~Active(s, p) /\ (p \in e.known \/ "active" \in DOMAIN l[<<p>>])
      THEN [e EXCEPT !.deactivations = @ \cup {p}]
    ELSE [e EXCEPT !.dirty = @ \cup {p}, !.resynced = @ \cup {p}]

\* _on_changed for a resynced prim path; fs are the changed fields.
PrimResynced(e, l, s, p, fs) ==
    LET m == [e EXCEPT !.subtrees =
                (p :> (Has(l, <<p>>) \/ (p \in DOMAIN e.subtrees /\ e.subtrees[p]))) @@ @]
    IN RecordPrimResync(IF fs # {} /\ Has(l, <<p>>) THEN Mark(m, <<p>>, fs) ELSE m, l, s, p)

\* _on_changed for a resynced property path: its spec appeared or vanished.
PropResynced(e, l, s, k) ==
    RecordPrimResync(MarkProp(e, l, s, k, All), l, s, k[1])

\* _on_changed and _record_property_change for a changed field f of a spec.
PropChanged(e, l, s, k, f) ==
    LET m == [e EXCEPT !.dirty = @ \cup {k[1]}, !.attrs[k[1]] = @ \cup {k[2]},
                       !.samples[k[1]] = IF f = "timeSamples" THEN @ \cup {k[2]} ELSE @]
        handled == k[2] \in {"vis", "trs"} \/ (k[2] \in Schema /\ TypeAt(s, k[1]) # Nil)
        exact == ~handled \/ f \notin DOMAIN l[k] \/ l[k][f] = Block
    IN IF exact THEN Mark(m, k, {f}) ELSE m

HasNotices(e) ==
    \/ e.full
    \/ [f \in DOMAIN NoNotices |-> e[f]] # NoNotices

-----------------------------------------------------------------------------
(* NoticeEmitter: building a batch.                                        *)

\* _purge_caches and _purge_sdf_paths.
Purge(e, p, deep, preserveSdf) ==
    LET below == IF deep THEN Under(p) ELSE {p}
        paths == {p} \cup (below \cap e.known)
        kept(k) == k[1] \notin below \/ preserveSdf
        Reset(f, v) == [k \in Key |-> IF k[1] \in paths THEN v ELSE f[k]]
    IN [e EXCEPT
          !.known = @ \ paths, !.dirty = @ \ paths,
          !.cache = Reset(@, Nil), !.ts = Reset(@, Nil),
          !.attrs = [q \in Prim |-> IF q \in paths THEN {} ELSE @[q]],
          !.samples = [q \in Prim |-> IF q \in paths THEN {} ELSE @[q]],
          !.state = [q \in Prim |-> IF q \in paths THEN Nil ELSE @[q]],
          !.fields = [k \in Key |-> IF k[1] \in below THEN {} ELSE @[k]],
          !.sdf = [k \in Key |-> IF kept(k) THEN @[k] ELSE {}],
          !.marks = Restrict(@, {k \in DOMAIN @ : kept(k)}),
          !.subtrees = Restrict(@, {q \in DOMAIN @ : kept(<<q>>)})]

Emit(e, k, key, f, v) == [e EXCEPT !.out = Append(@, Event(k, key, f, v))]

\* Folds Op(e, p) over the prims of ps, parents first.
ForPrims(Op(_, _), e, ps) ==
    FoldLeft(LAMBDA x, p : IF p \in ps THEN Op(x, p) ELSE x, e, <<"par", "kid">>)

\* _build_local_definition_removal_events.
BuildRemovals(e, l, s) ==
    LET One(x, p) ==
          LET y == Purge(Emit(x, "delete", <<p>>, {}, <<>>), p, TRUE, TRUE)
          IN IF Composed(s, p) /\ Has(l, <<p>>)
               THEN [y EXCEPT !.dirty = @ \cup {p}, !.resynced = @ \cup {p}] ELSE y
    IN ForPrims(One, [e EXCEPT !.removed = {}], e.removed)

\* _build_deactivation_events. _local_prim_spec needs a composed prim.
BuildDeactivations(e, l, s) ==
    LET One(x, p) ==
          LET send == \/ Composed(s, p) /\ "active" \in DOMAIN l[<<p>>]
                      \/ x.state[p] \notin {Nil, "over"}
          IN Purge(IF send THEN Emit(x, "deactivate", <<p>>, {}, <<>>) ELSE x, p, FALSE, TRUE)
    IN ForPrims(One, [e EXCEPT !.deactivations = {}], e.deactivations)

\* The walk of resynced subtrees: Usd.PrimRange visits active, defined prims.
Shown(s, p) == Defined(s, p) /\ Active(s, p)
WalkResynced(e, s) ==
    IF "par" \in e.resynced /\ Shown(s, "par") /\ Shown(s, "kid")
      THEN [e EXCEPT !.dirty = @ \cup {"kid"}, !.resynced = @ \cup {"kid"}] ELSE e

\* One dirty prim is built in the order of _build_dirty_prim_events. b holds
\* what the function establishes first.
Reading(e, l, p) ==
    LET full == p \notin e.known \/ p \in e.resynced
        noticed == e.attrs[p]
        attributes == noticed # {} /\ ~full
        only == attributes /\ e.subtrees = <<>> /\ \A k \in DOMAIN e.marks : Len(k) = 2
    IN [p |-> p, first |-> p \notin e.known, full |-> full, noticed |-> noticed,
        attributes |-> attributes, only |-> only, previous |-> e.state[p],
        src |-> [x \in Prop |-> IF only /\ x \notin noticed THEN {} ELSE DOMAIN l[<<p, x>>]]]

\* A cleared field is marked for an exact event before it is forgotten.
RecordClears(e, l, s, b) ==
    LET names == b.noticed \cup (IF b.only THEN {} ELSE {x \in Prop : b.src[x] # {}})
        One(y, x) ==
          LET k == <<b.p, x>>
              cleared == y.fields[k] \ b.src[x]
          IN [(IF cleared = {} THEN y ELSE MarkProp(y, l, s, k, cleared))
                EXCEPT !.fields[k] = b.src[x]]
    IN FoldLeft(LAMBDA y, x : IF x \in names THEN One(y, x) ELSE y, e,
                <<"attr", "custom", "trs", "vis">>)

\* _build_prim_structure_events.
BuildStructure(e, l, b) ==
    LET type == Specifier(l, b.p)
        ensure == type \in Types /\ (b.first \/ b.previous \notin {Nil, type})
        x == IF ensure THEN Emit(e, "ensure", <<b.p>>, {}, "specifier" :> type) ELSE e
        y == IF b.first /\ b.src["trs"] # {} THEN Emit(x, "ops", <<b.p>>, {}, <<>>) ELSE x
    IN IF b.only THEN e ELSE IF b.first THEN [y EXCEPT !.known = @ \cup {b.p}] ELSE y

\* The local default of a property, Nil when it has none or a block.
LocalDefault(l, k) ==
    IF "default" \in DOMAIN l[k] /\ l[k].default # Block THEN l[k].default ELSE Nil
\* _filter_events_to_local_opinions for one value event.
EmitLocal(e, l, k, f, v) ==
    IF f \in DOMAIN l[k] /\ l[k][f] # Block THEN Emit(e, "set", k, {f}, f :> v) ELSE e

\* VisibilityChannel through _build_prim_channel_events.
BuildVisibility(e, l, s, b) ==
    LET k == <<b.p, "vis">>
        v == LocalDefault(l, k)
        reads == b.full \/ b.noticed = {} \/ "vis" \in b.noticed
    IN IF ~reads \/ v = Nil \/ v = e.cache[k] THEN e
       ELSE [EmitLocal(e, l, k, "default", v) EXCEPT !.cache[k] = v]

\* _build_default_xform_event with _local_canonical_trs.
Transform(l, s, b) ==
    LET k == <<b.p, "trs">>
        composed == Opinion(s, k, "default")
        own == LocalDefault(l, k)
    IN IF own # Nil /\ (b.full \/ b.noticed = {} \/ "trs" \in b.noticed) THEN own
       ELSE IF composed \in {Nil, Block} THEN "zero" ELSE composed
BuildTransform(e, l, s, b) ==
    LET k == <<b.p, "trs">>
        v == Transform(l, s, b)
    IN IF (b.only /\ "trs" \notin b.noticed) \/ ~HasProp(s, k) \/ v = e.cache[k] THEN e
       ELSE [EmitLocal(e, l, k, "default", v) EXCEPT !.cache[k] = v]

\* Variant: the value last read is kept when the opinion is cleared.
BuildAttributeStale(e, l, s, b) ==
    LET k == <<b.p, "attr">>
        v == LocalDefault(l, k)
        reads == \/ "attr" \in b.noticed
                 \/ b.full \/ (b.noticed = {} /\ e.cache[k] = Nil)
    IN IF ~reads \/ ~HasProp(s, k) \/ v \in {Nil, e.cache[k]} THEN e
       ELSE [EmitLocal(e, l, k, "default", v) EXCEPT !.cache[k] = v]
\* _build_default_gprim_event.
BuildAttribute(e, l, s, b) ==
    LET k == <<b.p, "attr">>
        v == LocalDefault(l, k)
        reads == \/ "attr" \in b.noticed
                 \/ b.full \/ (b.noticed = {} /\ e.cache[k] = Nil)
    IN IF ~reads \/ ~HasProp(s, k) \/ v = e.cache[k] THEN e
       ELSE IF v = Nil THEN [e EXCEPT !.cache[k] = Nil]
       ELSE [EmitLocal(e, l, k, "default", v) EXCEPT !.cache[k] = v]

\* _build_time_sample_events and _collect_sample_changes.
BuildSamples(e, l, s, b) ==
    LET k == <<b.p, "attr">>
        v == IF "timeSamples" \in DOMAIN l[k] THEN l[k].timeSamples ELSE Nil
        reads == IF b.attributes THEN "attr" \in e.samples[b.p]
                 ELSE "timeSamples" \in b.src["attr"] \/ e.ts[k] # Nil
    IN IF ~reads \/ ~HasProp(s, k) \/ v = e.ts[k] THEN e
       ELSE [IF v = Nil THEN Emit(e, "erase", k, {}, <<>>)
             ELSE EmitLocal(e, l, k, "timeSamples", v) EXCEPT !.ts[k] = v]

\* _build_dirty_prim_events.
BuildPrim(e, l, s, p) ==
    LET b == Reading(e, l, p)
        x == BuildStructure(RecordClears(e, l, s, b), l, b)
        y == BuildAttribute(BuildTransform(BuildVisibility(x, l, s, b), l, s, b), l, s, b)
        z == BuildSamples(y, l, s, b)
    IN [z EXCEPT !.attrs[p] = {}, !.samples[p] = {}, !.resynced = @ \ {p},
                 !.state[p] = IF ~b.only /\ (b.full \/ b.previous = Nil)
                                THEN Specifier(l, p) ELSE @]

BuildDirty(e, l, s) ==
    LET One(x, p) == IF Composed(s, p) THEN BuildPrim(x, l, s, p)
                     ELSE [x EXCEPT !.attrs[p] = {}, !.samples[p] = {}, !.resynced = @ \ {p}]
    IN [ForPrims(One, [e EXCEPT !.dirty = {}], e.dirty) EXCEPT !.resynced = {}]

\* _generic_sdf_fields: what no other event carries.
GenericFields(l, s, k) ==
    IF Len(k) = 1 THEN {}
    ELSE IF k[2] = "custom" \/ ~Composed(s, k[1])
             \/ (k[2] = "attr" /\ TypeAt(s, k[1]) = Nil) THEN DOMAIN l[k]
    ELSE {f \in ValueFields \cap DOMAIN l[k] : l[k][f] = Block}

\* One candidate of _build_sdf_spec_events.
BuildSpec(e, l, s, k, marked, fs, scanned, resync) ==
    LET generic == GenericFields(l, s, k)
        previous == e.sdf[k]
        changed == IF fs = All THEN {} ELSE fs
        selected == (IF e.full \/ (marked /\ fs = All) \/ resync \/ (scanned /\ previous = {})
                       THEN generic \cup previous
                     ELSE IF marked THEN changed \cap (generic \cup previous)
                     ELSE (generic \cup previous) \ (generic \cap previous))
                    \cup (changed \ DOMAIN l[k])
    IN IF ~Has(l, k)
         THEN IF previous # {} \/ (marked /\ Len(k) = 2)
                THEN [Emit(e, "remove", k, previous \cup changed, <<>>) EXCEPT !.sdf[k] = {}]
                ELSE e
       ELSE [(IF selected = {} THEN e
              ELSE Emit(e, "exact", k, selected, Restrict(l[k], selected \cap DOMAIN l[k])))
               EXCEPT !.sdf[k] = (previous \cup selected) \cap generic]

\* _build_sdf_spec_events: removals deepest first, then the other specs.
BuildSpecs(e, l, s) ==
    LET roots == DOMAIN e.subtrees
        Marked(k) == k \in DOMAIN e.marks
        Scanned(k) == \E r \in roots : k[1] \in Under(r)
        Resync(k) == \E r \in roots : e.subtrees[r] /\ k[1] \in Under(r)
        candidates == {k \in Key : Marked(k) \/ ((e.full \/ Scanned(k)) /\ (Has(l, k) \/ e.sdf[k] # {}))}
        One(x, k) == BuildSpec(x, l, s, k, Marked(k),
                               IF Marked(k) THEN e.marks[k] ELSE {}, Scanned(k), Resync(k))
        Each(x, order, Which(_)) ==
            FoldLeft(LAMBDA y, k : IF k \in candidates /\ Which(k) THEN One(y, k) ELSE y, x, order)
        gone == Each(e, Reverse(KeyOrder), LAMBDA k : ~Has(l, k))
    IN [Each(gone, KeyOrder, LAMBDA k : Has(l, k))
          EXCEPT !.marks = <<>>, !.subtrees = <<>>, !.full = FALSE]

\* _build_events_for_dirty_current_target.
Build(e, l, s) ==
    BuildSpecs(BuildDirty(WalkResynced(BuildDeactivations(BuildRemovals(e, l, s), l, s), s), l, s), l, s)

-----------------------------------------------------------------------------
(* The client.                                                             *)

TransformValue(e) == e.k = "set" /\ e.key[2] = "trs"
TransformOnly(batch) == \A j \in DOMAIN batch : TransformValue(batch[j])

\* merge_latest_transform_events: a value replaces the last one of the same
\* prim unless another event lies between.
MergeOne(batch, e) ==
    LET same == {j \in DOMAIN batch :
                   /\ TransformValue(e) /\ batch[j].key = e.key
                   /\ TransformOnly(SubSeq(batch, j, Len(batch)))}
    IN IF same = {} THEN Append(batch, e)
       ELSE [batch EXCEPT ![CHOOSE j \in same : \A i \in same : i <= j] = e]
Merge(pending, incoming) == FoldLeft(MergeOne, pending, incoming)

\* invalidate_for_event while the dispatcher writes another layer than the
\* authoring layer.
InvalidatePrim(e, ev) ==
    IF ev.k = "ensure" THEN [e EXCEPT !.known = @ \cup {ev.key[1]}]
    ELSE Purge(e, ev.key[1], TRUE, FALSE)
InvalidateSpec(e, ev) == [e EXCEPT !.marks = Restrict(@, DOMAIN @ \ {ev.key})]
Invalidate(e, ev) ==
    CASE ev.k \in {"ensure", "delete", "deactivate"} -> InvalidatePrim(e, ev)
      [] ev.k \in {"exact", "remove"} -> InvalidateSpec(e, ev)
      [] OTHER -> e

\* Keys with a notice that no batch has consumed.
Pending(e) ==
    {k \in Key : \/ k[1] \in e.dirty \cup e.resynced \cup e.removed \cup e.deactivations
                 \/ k \in DOMAIN e.marks
                 \/ \E r \in DOMAIN e.subtrees : k[1] \in Under(r)}

\* What a batch built from e leaves out or gets wrong:
\* a clear, when the spec was removed and made again since the last batch and
\* the mark of the resync names no fields;
LostClears(e) ==
    {k \in DOMAIN e.marks : e.marks[k] = All /\ Has(local, k) /\ e.fields[k] \ DOMAIN local[k] # {}}
\* a visibility or transform authored again with the value last read, which
\* a clear does not make the channel forget;
Swallowed(e) ==
    {k \in Prim \X {"vis", "trs"} : /\ "default" \in DOMAIN local[k] \ e.fields[k]
                                    /\ local[k].default = e.cache[k]}
\* a transform whose composed value is sent for the local one, because other
\* attributes of the prim were noticed, in a batch with a resync.
Masked(e) ==
    {k \in Prim \X {"trs"} :
       /\ k[1] \in (e.dirty \cap e.known) \ e.resynced
       /\ LocalDefault(local, k) \notin {Nil, Transform(local, ClientStage(local), Reading(e, local, k[1]))}}
\* A value receivers have no property for: a transform of a prim they already
\* know without one, as ops are only announced when a prim is first met, or an
\* attribute of a prim whose definition the client itself has just removed.
Dropped(batch) ==
    LET s == Apply(ReceiverStage, 2, batch)
    IN {k \in Prim \X Prop : /\ \E j \in DOMAIN batch : batch[j].k = "set" /\ batch[j].key = k
                            /\ ~HasProp(s, k)}
\* A value cleared after it was set in the same run: exact events are applied
\* before values.
Overtaken(evs) ==
    {k \in Prim \X Prop : \E i, j \in DOMAIN evs :
        /\ i < j /\ evs[i].key = k /\ evs[i].k = "set"
        /\ evs[j].key = k /\ evs[j].k = "exact" /\ evs[i].f \subseteq evs[j].f
        /\ "timeSamples" \notin evs[j].f}
\* A prim whose deactivation or removal was noticed and which is there again:
\* handling that notice discards what else was noticed of the prim.
Revived(e) ==
    LET s == ClientStage(local)
    IN {k \in Key : k[1] \in e.deactivations /\ Composed(s, k[1]) /\ Active(s, k[1])}
\* A definition of a prim already known without a local spec is not announced.
Undeclared(e) ==
    {k \in Key : k[1] \in e.known /\ e.state[k[1]] = Nil /\ Specifier(local, k[1]) \in Types}
Slips(e) == LostClears(e) \cup Revived(e)  \cup Undeclared(e) \cup Swallowed(e) \cup Masked(e)

\* TransformCoalescingWindow: a batch of transforms waits until the deadline
\* set when it was first seen; the window stays open until the batch is sent.
\* Variant: a deadline that has passed is set anew.
WindowRestarts(waits, due) == [open |-> waits /\ ~(buffering /\ due), send |-> ~waits]
Window(waits, due) == [open |-> waits, send |-> ~waits \/ (buffering /\ due)]

\* TransformCoalescingWindow.prepare after prepare_events_for_send or its
\* coalescing form: the emitter, the prepared batch, whether the window is
\* open, and whether the batch may be sent now. e is the emitter and batch
\* what it has prepared.
Prepare(e, batch, due) ==
    LET built == Build(e, local, ClientStage(local))
        fresh == [built EXCEPT !.out = <<>>]
        merged == Merge(batch, built.out)
        waits == merged # <<>> /\ TransformOnly(merged)
    IN IF plan.coalesce
         THEN [em |-> fresh, batch |-> merged, buffering |-> Window(waits, due).open,
               send |-> Window(waits, due).send, slips |-> Slips(e)]
       ELSE [em |-> IF batch = <<>> THEN fresh ELSE e,
             batch |-> IF batch = <<>> THEN built.out ELSE batch,
             buffering |-> FALSE, send |-> TRUE,
             slips |-> IF batch = <<>> THEN Slips(e) ELSE {}]

Init ==
    /\ \E i \in DOMAIN Plans : plan = Plans[i]
    /\ local = Blank /\ mirror = Blank /\ seen = Blank /\ copy = Blank /\ other = Blank
    /\ wire = <<>> /\ em = Emitter /\ prepared = <<>> /\ ahead = 0 /\ buffering = FALSE
    /\ edits = 0 /\ foreign = 0 /\ log = <<>> /\ forgotten = {}

\* The removal of an over above a weaker prim is sent only if the over was a
\* definition when its prim was last read.
OversRemoved(l) ==
    {k \in Key : \E p \in Prim : /\ k[1] \in Under(p) /\ Has(local, <<p>>) /\ ~Has(l, <<p>>)
                               /\ em.state[p] \notin Types}
\* Activating a prim again sends the field but not all that changed below it.
Reactivated(l) ==
    {k \in Key : \E p \in Prim : k[1] \in Under(p) /\ ~Active(<<local>>, p) /\ Active(<<l>>, p)}

\* The user edits the stage: the layer becomes l and the emitter e.
Edited(l, e) ==
    /\ l # local /\ edits < plan.budget
    /\ local' = l /\ em' = e /\ edits' = edits + 1
    /\ forgotten' = forgotten \cup OversRemoved(l) \cup Reactivated(l)
    /\ UNCHANGED <<plan, mirror, seen, copy, other, wire, prepared, ahead, buffering, foreign, log>>

DefinePrim(p, t) ==
    /\ TypeAt(ClientStage(local), p) # t \/ ~Defined(ClientStage(local), p)
    /\ p = "kid" => Shown(ClientStage(local), "par")
    /\ LET l == Define(local, p, t)
       IN Edited(l, PrimResynced(em, l, ClientStage(l), p, {"specifier"}))

\* Usd.Stage.RemovePrim in the authoring layer.
RemoveLocal(p) ==
    /\ Composed(ClientStage(local), p)
    /\ LET l == RemovePrim(local, p)
       IN Edited(l, PrimResynced(em, l, ClientStage(l), p, {}))

SetActive(p, v) ==
    /\ Composed(ClientStage(local), p)
    /\ LET l == IF v = Nil THEN Without(local, <<p>>, {"active"})
                ELSE Author(local, <<p>>, "active" :> v)
       IN Edited(l, PrimResynced(em, l, ClientStage(l), p, {"active"}))

SetField(k, f, v) ==
    /\ Composed(ClientStage(local), k[1])
    /\ k[2] \in Schema => HasProp(ClientStage(local), k)
    /\ LET l == Author(local, k, f :> v)
       IN Edited(l, IF Has(local, k) THEN PropChanged(em, l, ClientStage(l), k, f)
                    ELSE PropResynced(em, l, ClientStage(l), k))

ClearField(k, f) ==
    /\ Composed(ClientStage(local), k[1]) /\ f \in DOMAIN local[k]
    /\ LET l == Without(local, k, {f})
       IN Edited(l, PropChanged(em, l, ClientStage(l), k, f))

RemoveProperty(k) ==
    /\ Composed(ClientStage(local), k[1]) /\ Has(local, k)
    /\ LET l == [local EXCEPT ![k] = <<>>]
       IN Edited(l, PropResynced(em, l, ClientStage(l), k))

\* Another client commits a transaction on its own, stronger layer.
OtherCommits(batch) ==
    /\ foreign < Foreign /\ foreign' = foreign + 1
    /\ other' = Apply(ReceiverStage, 1, batch)[1] /\ other' # other
    /\ wire' = Append(wire, [own |-> FALSE, events |-> batch])
    /\ UNCHANGED <<plan, local, mirror, seen, copy, em, prepared, ahead, buffering,
                   edits, log, forgotten>>

\* The rest of ManagedClient.update with max_messages 1 once the local batch
\* is prepared: hold it behind the queued messages unless it is an older one,
\* apply a message, send. queued messages have arrived.
Outcome(prep, older, queued, online) ==
    LET count == IF queued = 0 THEN 0 ELSE 1
        held == IF ~older /\ prep.batch # <<>> THEN queued ELSE ahead
        left == IF held < count THEN 0 ELSE held - count
        holding == IF left <= queued - count THEN left ELSE queued - count
    IN [count |-> count, ahead |-> holding,
        sends |-> online /\ prep.send /\ prep.batch # <<>> /\ holding = 0,
        em |-> IF count = 0 THEN prep.em ELSE FoldLeft(Invalidate, prep.em, Head(wire).events),
        stage |-> IF count = 0 THEN ClientStage(local)
                  ELSE Apply(ClientStage(local), IF Head(wire).own THEN 2 ELSE 1, Head(wire).events)]
Proceed(prep, older, queued, online) ==
    \E o \in {Outcome(prep, older, queued, online)} :
       /\ ahead' = o.ahead /\ em' = o.em /\ seen' = o.stage[1] /\ mirror' = o.stage[2]
       /\ copy' = IF o.sends THEN Apply(ReceiverStage, 2, prep.batch)[2] ELSE copy
       /\ log' = IF o.sends /\ plan.replay THEN log \o prep.batch ELSE log
       /\ prepared' = IF o.sends THEN <<>> ELSE prep.batch
       /\ buffering' = (~o.sends /\ prep.buffering)
       /\ wire' = SubSeq(wire, 1 + o.count, Len(wire))
                    \o (IF o.sends THEN <<[own |-> TRUE, events |-> prep.batch]>> ELSE <<>>)
       /\ forgotten' = forgotten \cup (Pending(prep.em) \ Pending(o.em))
                                 \cup (DOMAIN prep.em.marks \ DOMAIN o.em.marks)
                                 \cup prep.slips
                                 \cup (IF o.sends THEN Dropped(prep.batch) \cup Overtaken(prep.batch)
                                       ELSE {})
       /\ UNCHANGED <<plan, local, other, foreign>>

\* ManagedClient.update; due: the coalescing deadline has passed.
Update(queued, online, due) ==
    \E prep \in {Prepare(em, prepared, due)} :
        Proceed(prep, prepared # <<>>, queued, online) /\ UNCHANGED edits

\* publish_current_edit_target: a snapshot of the authoring layer, then update.
Publish(queued, online) ==
    /\ prepared = <<>> /\ local # Blank /\ edits < plan.budget /\ edits' = edits + 1
    /\ LET s == ClientStage(local)
           e == [em EXCEPT !.full = TRUE, !.dirty = @ \cup {p \in Prim : Shown(s, p)}]
       IN \E built \in {Build(e, local, s)} :
          \E prep \in {[Prepare([built EXCEPT !.out = <<>>], built.out, FALSE)
                            EXCEPT !.slips = Slips(e)]} :
             Proceed(prep, built.out # <<>>, queued, online)

Edit(a) ==
    \/ a.op = "define" /\ DefinePrim(a.key[1], a.v)
    \/ a.op = "delete" /\ RemoveLocal(a.key[1])
    \/ a.op = "active" /\ SetActive(a.key[1], a.v)
    \/ a.op = "set" /\ SetField(a.key, a.f, a.v)
    \/ a.op = "clear" /\ ClearField(a.key, a.f)
    \/ a.op = "remove" /\ RemoveProperty(a.key)

Next ==
    \/ \E a \in plan.edits : Edit(a)
    \/ \E i \in DOMAIN plan.foreign : OtherCommits(plan.foreign[i])
    \/ \E queued \in 0..Len(wire), online \in BOOLEAN, due \in {plan.coalesce, FALSE} :
          Update(queued, online, due)
    \/ \E queued \in 0..Len(wire), online \in BOOLEAN :
          plan.publish /\ Publish(queued, online)

Spec == Init /\ [][Next]_vars

\* Update(Len(wire), TRUE, TRUE) changes the state: its ENABLED, written out
\* because TLC does not get far with it.
Changes ==
    \E prep \in {Prepare(em, prepared, TRUE)} :
    \E o \in {Outcome(prep, prepared # <<>>, Len(wire), TRUE)} :
        \/ o.sends \/ o.count = 1 \/ o.em # em \/ o.ahead # ahead
        \/ prep.batch # prepared \/ prep.buffering # buffering \/ ~(prep.slips \subseteq forgotten)

\* The application calls update() again and again, connections come back and
\* the deadline passes: weak fairness of such a call.
FairSpec ==
    /\ Spec
    /\ []<>~Changes \/ []<><<Update(Len(wire), TRUE, TRUE)>>_vars

-----------------------------------------------------------------------------
(* Properties.                                                             *)

\* has_local_changes: the emitter holds an unsent batch or unread notices.
HasLocalChanges == prepared # <<>> \/ HasNotices(em)
Quiet == ~HasLocalChanges

ValuesOf(l, k) == Restrict(l[k], DOMAIN l[k] \cap ValueFields)
Visible(p) ==
    LET s == ClientStage(local) IN
    Composed(s, p) /\ Active(s, p) /\ Composed(ReceiverStage, p) /\ Active(ReceiverStage, p)

\* Once nothing is left to send, receivers hold exactly the defaults, samples
\* and definitions the authoring layer holds, for every prim both sides see:
\* values, blocks and clears survive the emitter's caches, partial reads,
\* retained batches, echoes and another client's edits, and no composed value
\* of another layer is copied into the client's. Keys the emitter is known to
\* lose, each for a reason named above, are excepted.
OpinionsSent ==
    Quiet => \A k \in Key \ forgotten :
        Visible(k[1]) => IF Len(k) = 2
                           THEN ValuesOf(copy, k) = ValuesOf(local, k)
                         ELSE Specifier(local, k[1]) \in Types =>
                                Specifier(copy, k[1]) = Specifier(local, k[1])

\* A receiver that drains all committed records in one update, and a server
\* that restores its scene from the log, apply them in one apply_events call,
\* which reorders them; they end with the layer that applying transaction by
\* transaction gave, except for values set and later cleared in that run.
ReplayAgrees ==
    plan.replay => \A k \in Key \ Overtaken(log) :
                     Apply(<<Blank, Blank, plan.base>>, 2, log)[2][k] = copy[k]

\* Local changes never stay behind: neither the backlog hold, the coalescing
\* window, an outage nor a mark that is never consumed keeps update() from
\* sending everything once the user rests.
Settles == []<>Quiet
=============================================================================
