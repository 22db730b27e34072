---------------------------- MODULE StageAdapter ----------------------------
(***************************************************************************)
(* Where a received event ends: the call an adapter's method gets for it   *)
(* (adapters.py), the event the stage adapter's method builds from such a  *)
(* call, and the reference and payload list operations an event leaves on  *)
(* a prim spec (sdf_arc_state.py).                                         *)
(*                                                                         *)
(* A list operation is None (not authored) or [explicit, items], items     *)
(* from list positions to sequences of references or payloads.             *)
(***************************************************************************)
EXTENDS WireCodec

CONSTANTS
    Posix,          \* from asset paths with "\" to the same with "/"
    CustomText      \* from fragments to what Sdf exports for the custom data
                    \* they hold, "" when they hold none

-----------------------------------------------------------------------------
\* Calls: the keyword arguments of the method named like the event's kind.

TrsKwargs(ev) == [f \in ToSet(ev.fields) \intersect TRS_FIELDS |-> ev[f]]
\* Mutant: the default time is taken for none.
TruthyTimeKwarg(ev) ==
    LET time == DictGet(ev, "time", None)
    IN  KeyIf(time # None /\ time # Real(0), "time", time)

TimeKwarg(ev) == KeyIf(Given(ev, "time"), "time", DictGet(ev, "time", None))

ArcStateKwargs(ev, key) ==
    LET explicit == DictGet(ev, "list_op_explicit", FALSE)
    IN  [list_op_authored |->
            DictGet(ev, "list_op_authored", ev[key] # <<>> \/ explicit),
         list_op_explicit |-> explicit]

\* The listed keys as they are, the optional ones with their default.
Args(ev, keys, defaults) ==
    [prim_path |-> ev.prim]
    @@ [key \in keys |-> ev[key]]
    @@ [key \in DOMAIN defaults |-> DictGet(ev, key, defaults[key])]

DISPATCH(ev) ==
    CASE ev.k = "ensure_prim" ->
            [type_name |-> ev.typeName] @@ Args(ev, {}, [api_schemas |-> <<>>])
      [] ev.k \in {"ensure_xform_ops", "delete_prim", "load_payload", "unload_payload"} ->
            Args(ev, {}, NoKeys)
      [] ev.k = "set_xform_trs" -> Args(ev, {}, NoKeys) @@ TimeKwarg(ev) @@ TrsKwargs(ev)
      [] ev.k = "deactivate_prim" -> Args(ev, {"active"}, NoKeys)
      [] ev.k = "rename_prim" -> Args(ev, {"new_name"}, NoKeys)
      [] ev.k = "set_visibility" -> Args(ev, {"visible"}, NoKeys) @@ TimeKwarg(ev)
      [] ev.k = "set_gprim_attrs" -> Args(ev, {"attrs"}, NoKeys) @@ TimeKwarg(ev)
      [] ev.k = "set_sdf_spec_fields" ->
            Args(ev, {"spec_path", "spec_kind"},
                 [fields |-> <<>>, fragment |-> "", removed |-> FALSE])
      [] ev.k = "erase_time_samples" -> Args(ev, {"spec_path", "times"}, NoKeys)
      [] ev.k = "replace_sdf_layer_content" -> [fragment |-> ev.fragment]
      [] ev.k = "set_sublayers" ->
            [sublayers |-> DictGet(ev, "sublayers", <<>>),
             generation |-> DictGet(ev, "generation", ""),
             revision |-> DictGet(ev, "revision", 0)]
      [] ev.k = "set_reference" -> Args(ev, {"refs"}, NoKeys) @@ ArcStateKwargs(ev, "refs")
      [] ev.k = "set_payload" ->
            Args(ev, {"payloads"}, NoKeys) @@ ArcStateKwargs(ev, "payloads")
      [] ev.k = "set_variant_selections" -> Args(ev, {"selections"}, NoKeys)
      [] ev.k = "set_material_binding" ->
            Args(ev, {"material_path"}, [material_purpose |-> ""])
      [] ev.k = "set_connectable_input" ->
            Args(ev, {"info_id", "inputs"}, [input_types |-> NoKeys]) @@ TimeKwarg(ev)
      [] ev.k = "set_connectable_connection" ->
            Args(ev, {"connections"}, [disconnections |-> <<>>])
      [] ev.k = "set_stage_metadata" ->
            [key \in STAGE_METADATA_KEYS \intersect DOMAIN ev |-> ev[key]]
      [] ev.k = "set_instanceable" -> Args(ev, {"instanceable"}, NoKeys)
      [] ev.k = "set_point_instancer" ->
            Args(ev, ToSet(ev.fields) \intersect ToSet(POINT_INSTANCER_FIELDS), NoKeys)
            @@ TimeKwarg(ev)

-----------------------------------------------------------------------------
\* UsdStageAdapter: the event each method builds.

Built(kind, kw, keys) == [k |-> kind, prim |-> kw.prim_path] @@ [key \in keys |-> kw[key]]
\* An argument left out, or None, leaves its key out.
Passed(kw, keys) == [key \in {key \in keys : Given(kw, key)} |-> kw[key]]

SceneMethods(kind, kw) ==
    CASE kind = "ensure_prim" ->
            [typeName |-> DictGet(kw, "type_name", "Xform"),
             api_schemas |-> Filled(kw, "api_schemas", <<>>)] @@ Built(kind, kw, {})
      [] kind = "set_xform_trs" ->
            [fields |-> SelectSeq(<<"t", "r", "s">>, LAMBDA f : Given(kw, f))]
            @@ Built(kind, kw, {}) @@ Passed(kw, TRS_FIELDS \union {"time"})
      [] kind = "deactivate_prim" ->
            [active |-> DictGet(kw, "active", FALSE)] @@ Built(kind, kw, {})
      [] kind = "rename_prim" -> Built(kind, kw, {"new_name"})
      [] kind = "set_visibility" -> Built(kind, kw, {"visible"}) @@ Passed(kw, {"time"})
      [] kind = "set_gprim_attrs" -> Built(kind, kw, {"attrs"}) @@ Passed(kw, {"time"})
      [] OTHER -> Built(kind, kw, {})      \* ensure_xform_ops, delete_prim

ExactMethods(kind, kw) ==
    CASE kind = "set_sdf_spec_fields" ->
            [removed |-> DictGet(kw, "removed", FALSE)]
            @@ Built(kind, kw, {"spec_path", "spec_kind", "fields", "fragment"})
      [] kind = "set_sublayers" ->
            [k |-> kind, prim |-> "/"]
            @@ [key \in {"sublayers", "generation", "revision"} |-> kw[key]]
      [] kind = "erase_time_samples" -> Built(kind, kw, {"spec_path", "times"})
      [] kind = "replace_sdf_layer_content" ->
            [k |-> kind, prim |-> "/", fragment |-> kw.fragment]

ArcMethods(kind, kw) ==
    LET flags == [list_op_authored |-> DictGet(kw, "list_op_authored", TRUE),
                  list_op_explicit |-> DictGet(kw, "list_op_explicit", FALSE)]
    IN  CASE kind = "set_reference" -> flags @@ Built(kind, kw, {"refs"})
          [] kind = "set_payload" -> flags @@ Built(kind, kw, {"payloads"})
          [] kind = "set_variant_selections" -> Built(kind, kw, {"selections"})
          [] OTHER -> Built(kind, kw, {})  \* load_payload, unload_payload

ShadeMethods(kind, kw) ==
    CASE kind = "set_material_binding" ->
            KeyText("material_purpose", DictGet(kw, "material_purpose", ""))
            @@ Built(kind, kw, {"material_path"})
      [] kind = "set_connectable_input" ->
            Built(kind, kw, {"info_id", "inputs", "input_types"}) @@ Passed(kw, {"time"})
      [] kind = "set_stage_metadata" -> [k |-> kind] @@ Passed(kw, STAGE_METADATA_KEYS)
      [] kind = "set_connectable_connection" ->
            [disconnections |-> Filled(kw, "disconnections", <<>>)]
            @@ Built(kind, kw, {"connections"})

InstanceMethods(kind, kw) ==
    CASE kind = "set_instanceable" -> Built(kind, kw, {"instanceable"})
      [] kind = "set_point_instancer" ->
            [fields |-> SelectSeq(POINT_INSTANCER_FIELDS, LAMBDA f : Given(kw, f))]
            @@ Built(kind, kw, {})
            @@ Passed(kw, ToSet(POINT_INSTANCER_FIELDS) \union {"time"})

MethodEvent(kind, kw) ==
    CASE kind \in DOMAIN ExactEvents \ {"set_point_instancer", "set_instanceable"} ->
            ExactMethods(kind, kw)
      [] kind \in {"set_reference", "set_payload", "load_payload", "unload_payload",
                   "set_variant_selections"} -> ArcMethods(kind, kw)
      [] kind \in {"set_material_binding", "set_connectable_input", "set_stage_metadata",
                   "set_connectable_connection"} -> ShadeMethods(kind, kw)
      [] kind \in {"set_instanceable", "set_point_instancer"} -> InstanceMethods(kind, kw)
      [] OTHER -> SceneMethods(kind, kw)

\* DCCAdapter.apply_event: the event the stage adapter would build for the
\* call.
Called(ev) == MethodEvent(ev.k, DISPATCH(ev))

-----------------------------------------------------------------------------
\* Reference and payload list operations.

LIST_OP_FIELDS == <<"added", "prepended", "appended", "deleted", "ordered">>
ARC_KEYS == [set_reference |-> "refs", set_payload |-> "payloads"]

Forward(path) == DictGet(Posix, path, path)
CustomDataText(fragment) == IF fragment = "" THEN "" ELSE CustomText[fragment]

CanonicalArc(entry, explicit) ==
    LET said == ArcMeaning(entry, explicit)
    IN  KeyText("asset_path", Forward(said.asset_path))
        @@ KeyText("prim_path", said.prim_path)
        @@ KeyIf(~explicit /\ said.list_position # "prepended",
                 "list_position", said.list_position)
        @@ KeyIf(said.layer_offset # Real(0), "layer_offset", said.layer_offset)
        @@ KeyIf(said.layer_scale # Real(1), "layer_scale", said.layer_scale)
        @@ KeyText("custom_data_fragment", CustomDataText(said.custom_data_fragment))

PositionOf(entry) == DictGet(entry, "list_position", "prepended")
InPosition(entries, position) ==
    SelectSeq(entries, LAMBDA e : PositionOf(e) = position)

\* canonical_arc_state: entries normalised and, unless explicit, grouped by
\* position.
CanonicalArcState(ev) ==
    LET key == ARC_KEYS[ev.k]
        explicit == DictGet(ev, "list_op_explicit", FALSE)
        entries == Map(ev[key], LAMBDA e : CanonicalArc(e, explicit))
    IN  [entries |-> IF explicit THEN entries
                     ELSE FlattenSeq(Map(LIST_OP_FIELDS,
                                         LAMBDA p : InPosition(entries, p))),
         list_op_authored |-> Filled(ev, "list_op_authored", entries # <<>> \/ explicit),
         list_op_explicit |-> explicit]

SdfArcItem(entry) ==
    [asset |-> DictGet(entry, "asset_path", ""), prim |-> DictGet(entry, "prim_path", ""),
     offset |-> DictGet(entry, "layer_offset", Real(0)),
     scale |-> DictGet(entry, "layer_scale", Real(1)),
     custom |-> DictGet(entry, "custom_data_fragment", "")]

\* apply_arc_state: the list operation that replaces the prim spec's.
ApplyArcState(ev) ==
    LET state == CanonicalArcState(ev)
    IN  IF ~state.list_op_authored THEN None
        ELSE [explicit |-> state.list_op_explicit,
              items |-> IF state.list_op_explicit
                        THEN "explicit" :> Map(state.entries, SdfArcItem)
                        ELSE [p \in ToSet(LIST_OP_FIELDS) |->
                                Map(InPosition(state.entries, p), SdfArcItem)]]

ReadArcItem(item, position, explicit) ==
    KeyText("asset_path", Forward(item.asset))
    @@ KeyText("prim_path", item.prim)
    @@ KeyIf(~explicit /\ position # "prepended", "list_position", position)
    @@ KeyIf(item.offset # Real(0), "layer_offset", item.offset)
    @@ KeyIf(item.scale # Real(1), "layer_scale", item.scale)
    @@ KeyText("custom_data_fragment", item.custom)

\* read_arc_state: what an emitter, or the dispatcher that compares a
\* received arc with the stage, reads from a prim spec.
ReadArcState(op) ==
    IF op = None
    THEN [entries |-> <<>>, list_op_authored |-> FALSE, list_op_explicit |-> FALSE]
    ELSE LET buckets == IF op.explicit THEN <<"explicit">> ELSE LIST_OP_FIELDS
         IN  [entries |->
                FlattenSeq(Map(buckets, LAMBDA p :
                    Map(op.items[p], LAMBDA item : ReadArcItem(item, p, op.explicit)))),
              list_op_authored |-> TRUE, list_op_explicit |-> op.explicit]

=============================================================================
