----------------------------- MODULE WireCodec -----------------------------
(***************************************************************************)
(* codec.py: how a message becomes a FlatBuffers envelope and how each     *)
(* reader turns it back into a dictionary.  Three readers and two writers  *)
(* exist side by side and must agree: the generated accessors, the hand-   *)
(* written reader of transforms, transactions and broadcasts that walks    *)
(* vtable offsets, the reader that only looks at the payload's tag and     *)
(* sequence number; the general encoder, and the broadcast encoder that    *)
(* patches numbers into a cached template.                                 *)
(***************************************************************************)
EXTENDS EventContract

SCHEMA_VERSION == 10

-----------------------------------------------------------------------------
\* Filling slots from a dictionary.  Each yields a function from slot names.

Nothing == <<>>
Put(m, key, slot) == slot :> m[key]
PutIf(cond, slot, v) == IF cond THEN slot :> v ELSE Nothing
PutGiven(m, key, slot) == IF Given(m, key) THEN slot :> m[key] ELSE Nothing
PutTrue(m, key, zero, slot) ==
    IF Given(m, key) /\ m[key] # zero THEN slot :> m[key] ELSE Nothing
PutDefault(m, key, d, slot) == slot :> DictGet(m, key, d)

\* The strings of a dictionary that are written only when they are not empty.
PutStrings(m, slots) ==
    LET keys == {key \in DOMAIN slots : Given(m, key) /\ m[key] # ""}
    IN  [slot \in {slots[key] : key \in keys} |->
            m[CHOOSE key \in keys : slots[key] = slot]]

\* A dictionary becomes a vector of tables and back; a later entry wins.
EntriesOf(d, Entry(_, _)) ==
    LET names == SetToSeq(DOMAIN d)
    IN  [i \in DOMAIN names |-> Entry(names[i], d[names[i]])]
DictOf(vector, Name(_), Val(_)) ==
    [n \in {Name(vector[i]) : i \in DOMAIN vector} |->
        Val(vector[CHOOSE i \in DOMAIN vector :
                /\ Name(vector[i]) = n
                /\ \A j \in DOMAIN vector : Name(vector[j]) = n => j <= i])]
Map(s, Op(_)) == [i \in DOMAIN s |-> Op(s[i])]

\* Keys a reader adds only under a condition.
KeyIf(cond, key, v) == IF cond THEN key :> v ELSE Nothing
KeyGiven(key, v) == KeyIf(v # None, key, v)
KeyText(key, v) == KeyIf(v # None /\ v # "", key, v)
OrEmpty(v) == IF v = None THEN "" ELSE v

-----------------------------------------------------------------------------
\* Messages: the encoders.

LAYER_MODE_TO_FB == [managed |-> "Managed", shared_stage |-> "SharedStage"]
FB_TO_LAYER_MODE == [Managed |-> "managed", SharedStage |-> "shared_stage"]
TRANSACTION_STATUS_TO_FB ==
    [acknowledged |-> "Acknowledged", rejected |-> "Rejected"]
TRANSACTION_REJECTION_TO_FB ==
    [none |-> "None", invalid_identity |-> "InvalidIdentity",
     unexpected_id |-> "UnexpectedId", stale_layer_graph |-> "StaleLayerGraph",
     invalid_transaction |-> "InvalidTransaction"]

EncodeHello(m) ==
    Build(Hello,
        PutGiven(m, "replay_server_instance", "ReplayServerInstance")
        @@ PutGiven(m, "replay_epoch", "ReplayEpoch")
        @@ Put(m, "role", "Role")
        @@ PutDefault(m, "protocol_version", 0, "ProtocolVersion")
        @@ PutGiven(m, "sync_from", "SyncFrom")
        @@ PutStrings(m, [client_id |-> "ClientId", origin |-> "Origin",
                          department |-> "Department", token |-> "Token",
                          producer_session_id |-> "ProducerSessionId"])
        @@ PutTrue(m, "layered_replay", FALSE, "LayeredReplay")
        @@ ("LayerMode" :> LAYER_MODE_TO_FB[DictGet(m, "layer_mode", "managed")]))

STAGE_META_FB_NUMERIC ==
    [timeCodesPerSecond |-> "TimeCodesPerSecond",
     framesPerSecond |-> "FramesPerSecond", startTimeCode |-> "StartTimeCode",
     endTimeCode |-> "EndTimeCode", metersPerUnit |-> "MetersPerUnit"]

EncodeStageMetadata(meta) ==
    LET keys == DOMAIN STAGE_META_FB_NUMERIC \intersect DOMAIN meta
    IN  Build(SetStageMetadata,
            [slot \in {STAGE_META_FB_NUMERIC[key] : key \in keys} |->
                meta[CHOOSE key \in keys : STAGE_META_FB_NUMERIC[key] = slot]]
            @@ PutTrue(meta, "upAxis", "", "UpAxis"))

DecodeStageMetadata(w) ==
    LET keys == {key \in DOMAIN STAGE_META_FB_NUMERIC :
                    Get(SetStageMetadata, w, STAGE_META_FB_NUMERIC[key]) # None}
    IN  [key \in keys |-> Get(SetStageMetadata, w, STAGE_META_FB_NUMERIC[key])]
        @@ KeyText("upAxis", Get(SetStageMetadata, w, "UpAxis"))

EncodeHelloOk(m) ==
    LET meta == Filled(m, "stage_metadata", Nothing)
    IN  Build(HelloOk,
            PutGiven(m, "replay_epoch", "ReplayEpoch")
            @@ PutTrue(m, "replay_identity", FALSE, "ReplayIdentity")
            @@ PutStrings(m, [server_instance |-> "ServerInstance",
                              token |-> "Token"])
            @@ PutIf(meta # Nothing, "StageMetadata", EncodeStageMetadata(meta))
            @@ PutTrue(m, "layered_replay", FALSE, "LayeredReplay")
            @@ ("LayerMode" :> LAYER_MODE_TO_FB[DictGet(m, "layer_mode", "managed")])
            @@ PutTrue(m, "committed_through", 0, "CommittedThrough"))

EncodeHelloRejected(m) ==
    Build(HelloRejected, PutDefault(m, "code", "Unspecified", "Code")
                         @@ PutDefault(m, "reason", "", "Reason"))

EncodeTransactionResult(m) ==
    Build(TransactionResult,
        Put(m, "txn_id", "TxnId")
        @@ PutIf(Given(m, "checkpoint"), "Checkpoint",
              Build(TransactionCheckpoint,
                    Put(m.checkpoint, "epoch", "Epoch")
                    @@ Put(m.checkpoint, "head_seq", "HeadSeq")))
        @@ ("Status" :> TRANSACTION_STATUS_TO_FB[m.status])
        @@ PutDefault(m, "expected_txn_id", 0, "ExpectedTxnId")
        @@ ("RejectionCode" :>
              TRANSACTION_REJECTION_TO_FB[DictGet(m, "rejection_code", "none")])
        @@ PutTrue(m, "reason", "", "Reason"))

EncodeReplayComplete(m) ==
    Build(ReplayComplete, PutDefault(m, "head_seq", 0, "HeadSeq")
                          @@ PutDefault(m, "epoch", 0, "Epoch"))

\* Resync, compact, ping and quit carry nothing.
EncodeEmpty(m) == Build(Resync, Nothing)

EncodeRateLimited(m) == Build(RateLimited, Put(m, "retry_after", "RetryAfter"))

EncodePlaybackClaim(m) ==
    Build(ClaimPlayback, PutDefault(m, "client_id", "", "ClientId")
                         @@ PutGiven(m, "time", "Time"))

EncodePlaybackAnswer(m) ==
    IF m.type = "playback_claimed"
    THEN Build(PlaybackClaimed, PutDefault(m, "leader_client_id", "", "LeaderClientId"))
    ELSE Build(PlaybackRejected,
               PutDefault(m, "reason", "", "Reason")
               @@ PutDefault(m, "current_leader_client_id", "", "CurrentLeaderClientId"))

\* Mutant: a time or rate of zero is taken for none.
EncodeNonzeroControl(m) ==
    Build(PlaybackControl, PutDefault(m, "action", "", "Action")
                           @@ PutTrue(m, "time", Real(0), "Time")
                           @@ PutTrue(m, "rate", Real(0), "Rate"))

EncodePlaybackControl(m) ==
    Build(PlaybackControl, PutDefault(m, "action", "", "Action")
                           @@ PutGiven(m, "time", "Time")
                           @@ PutGiven(m, "rate", "Rate"))

EncodePlaybackState(m) ==
    Build(PlaybackState, PutDefault(m, "time", Real(0), "Time")
                         @@ PutDefault(m, "playing", FALSE, "Playing")
                         @@ PutDefault(m, "rate", Real(1), "Rate")
                         @@ PutDefault(m, "leader_client_id", "", "LeaderClientId"))

EncodeLogicalLayer(state) ==
    Build(LogicalLayerState, Put(state, "layer_key", "LayerKey")
                             @@ PutTrue(state, "muted", FALSE, "Muted")
                             @@ PutTrue(state, "label", "", "Label"))

EncodeLayerStackState(m) ==
    LET layers == DictGet(m, "layers", <<>>)
    IN  Build(LayerStackState,
            PutDefault(m, "generation", "", "Generation")
            @@ PutDefault(m, "revision", 0, "Revision")
            @@ PutIf(layers # <<>>, "Layers", Map(layers, EncodeLogicalLayer)))

EncodeSublayerEntry(entry) ==
    Build(SublayerEntry, Put(entry, "authored_path", "AuthoredPath")
                         @@ PutDefault(entry, "offset", Real(0), "Offset")
                         @@ PutDefault(entry, "scale", Real(1), "Scale")
                         @@ PutTrue(entry, "layer_key", "", "LayerKey"))

EncodeSharedLayer(state) ==
    LET entries == DictGet(state, "sublayers", <<>>)
    IN  Build(SharedLayerState,
            Put(state, "layer_key", "LayerKey")
            @@ PutIf(entries # <<>>, "Sublayers", Map(entries, EncodeSublayerEntry))
            @@ Put(state, "revision", "Revision"))

EncodeLayerGraphState(m) ==
    LET layers == DictGet(m, "layers", <<>>)
    IN  Build(LayerGraphState,
            PutDefault(m, "seq", 0, "Seq")
            @@ Put(m, "generation", "Generation")
            @@ Put(m, "revision", "Revision")
            @@ Put(m, "root_layer_key", "RootLayerKey")
            @@ PutIf(layers # <<>>, "Layers", Map(layers, EncodeSharedLayer)))

-----------------------------------------------------------------------------
\* Events: the encoders.

EncodePrimOnly(ev) == Build(DeletePrim, Put(ev, "prim", "Prim"))

EncodeEnsurePrim(ev) ==
    Build(EnsurePrim, Put(ev, "prim", "Prim") @@ Put(ev, "typeName", "TypeName")
                      @@ PutTrue(ev, "api_schemas", <<>>, "ApiSchemas"))

TRS_BITS == [t |-> 1, r |-> 2, s |-> 4]
TRS_SLOTS == [t |-> "T", r |-> "R", s |-> "S"]
Mask(fields, bits) == FoldSet(LAMBDA f, sum : sum + bits[f], 0, fields)
HasBit(mask, bit) == (mask \div bit) % 2 = 1

EncodeSetXformTrs(ev) ==
    LET fields == ToSet(ev.fields)
    IN  Build(SetXformTrs,
            Put(ev, "prim", "Prim")
            @@ ("Fields" :> Mask(fields, TRS_BITS))
            @@ [slot \in {TRS_SLOTS[f] : f \in fields} |->
                    Singles(ev[CHOOSE f \in fields : TRS_SLOTS[f] = slot])]
            @@ PutGiven(ev, "time", "Time"))

EncodeDeactivatePrim(ev) ==
    Build(DeactivatePrim, Put(ev, "prim", "Prim") @@ Put(ev, "active", "Active"))

EncodeRenamePrim(ev) ==
    Build(RenamePrim, Put(ev, "prim", "Prim") @@ Put(ev, "new_name", "NewName"))

EncodeSetVisibility(ev) ==
    Build(SetVisibility, Put(ev, "prim", "Prim") @@ Put(ev, "visible", "Visible")
                         @@ PutGiven(ev, "time", "Time"))

Typed(T, type, slot, v) == Build(T, ("ValueType" :> type) @@ (slot :> v))

\* json.dumps: lists, strings, booleans and numbers keep their form.
Json(v) == Typed(AttrValue, "NestedList", "NestedJson", [json |-> v])

WithStride(type, slot, v, stride) ==
    Build(AttrValue, ("ValueType" :> type) @@ (slot :> v) @@ ("Stride" :> stride))

EncodeAttrArray(v) ==
    CASE v.array = <<>> -> Json([list |-> <<>>])
      [] v.array # <<>> /\ v.dtype = "f" ->
            WithStride("FloatArray", "FloatArray", Singles(v.array), v.stride)
      [] v.array # <<>> /\ v.dtype = "i" ->
            WithStride("IntArray", "IntArray", v.array, v.stride)
      [] OTHER -> Json([list |-> Map(v.array, LAMBDA b : [bool |-> b = 1])])

\* The first element decides: a list of ints is cast to int32, which drops
\* the fraction of any float further on.
Truncate(x) == x \div 2
EncodeAttrList(v) ==
    CASE v.list = <<>> -> Json(v)
      [] v.list # <<>> /\ IsA(v.list[1], "float") ->
            WithStride("FloatArray", "FloatArray",
                       Singles(Map(v.list, NumberOf)), 1)
      [] v.list # <<>> /\ IsA(v.list[1], "int") ->
            WithStride("IntArray", "IntArray",
                       Map(v.list, LAMBDA x : Truncate(NumberOf(x))), 1)
      [] OTHER -> Json(v)

EncodeAttrRows(v) ==
    IF v.nested[1] # <<>> /\ IsNumber(v.nested[1][1])
    THEN WithStride("FloatArray", "FloatArray",
                    Singles(Map(FlattenSeq(v.nested), NumberOf)), Len(v.nested[1]))
    ELSE Json(v)

EncodeAttrValue(v) ==
    CASE IsA(v, "bool")   -> Typed(AttrValue, "ScalarBool", "ScalarBool", v.bool)
      [] IsA(v, "int")    -> Typed(AttrValue, "ScalarInt", "ScalarInt", v.int)
      [] IsA(v, "float")  -> Typed(AttrValue, "ScalarFloat", "ScalarFloat", v.float)
      [] IsA(v, "str")    -> Typed(AttrValue, "ScalarString", "ScalarString", v.str)
      [] IsA(v, "array")  -> EncodeAttrArray(v)
      [] IsA(v, "list")   -> EncodeAttrList(v)
      [] IsA(v, "nested") -> EncodeAttrRows(v)

EncodeNamedAttr(name, v) ==
    Build(NamedAttr, ("Name" :> name) @@ ("Value" :> EncodeAttrValue(v)))

EncodePrimvarMeta(name, meta) ==
    Build(PrimvarMeta, ("AttrName" :> name)
                       @@ PutDefault(meta, "typeName", "", "TypeName")
                       @@ PutTrue(meta, "interpolation", "", "Interpolation"))

EncodeAttrInterp(name, interpolation) ==
    Build(AttrInterp, ("AttrName" :> name) @@ ("Interpolation" :> interpolation))

EncodeSetGprimAttrs(ev) ==
    LET meta == DictGet(ev, "primvar_meta", Nothing)
        interp == DictGet(ev, "attr_interp", Nothing)
    IN  Build(SetGprimAttrs,
            Put(ev, "prim", "Prim")
            @@ ("Attrs" :> EntriesOf(ev.attrs, EncodeNamedAttr))
            @@ PutIf(meta # Nothing, "PrimvarMeta", EntriesOf(meta, EncodePrimvarMeta))
            @@ PutIf(interp # Nothing, "AttrInterp", EntriesOf(interp, EncodeAttrInterp))
            @@ PutGiven(ev, "time", "Time"))

ARC_POSITION_TO_FB ==
    [explicit |-> "Explicit", added |-> "Added", prepended |-> "Prepended",
     appended |-> "Appended", deleted |-> "Deleted", ordered |-> "Ordered"]
FB_TO_ARC_POSITION ==
    [Explicit |-> "explicit", Added |-> "added", Prepended |-> "prepended",
     Appended |-> "appended", Deleted |-> "deleted", Ordered |-> "ordered"]

DefaultPosition(explicit) == IF explicit THEN "explicit" ELSE "prepended"

EncodeArcEntry(entry, explicit) ==
    Build(ArcEntry,
        PutStrings(entry, [asset_path |-> "AssetPath", prim_path |-> "PrimPath",
                           custom_data_fragment |-> "CustomDataFragment"])
        @@ ("ListPosition" :>
              ARC_POSITION_TO_FB[DictGet(entry, "list_position", DefaultPosition(explicit))])
        @@ PutGiven(entry, "layer_offset", "LayerOffset")
        @@ PutGiven(entry, "layer_scale", "LayerScale"))

\* References and payloads.
EncodeArcs(T, slot, ev, key) ==
    LET explicit == DictGet(ev, "list_op_explicit", FALSE)
        authored == DictGet(ev, "list_op_authored", ev[key] # <<>> \/ explicit)
    IN  Build(T, Put(ev, "prim", "Prim")
                 @@ (slot :> Map(ev[key], LAMBDA e : EncodeArcEntry(e, explicit)))
                 @@ ("ListOpAuthored" :> authored)
                 @@ ("ListOpExplicit" :> explicit))

EncodeSetReference(ev) == EncodeArcs(SetReference, "Refs", ev, "refs")
EncodeSetPayload(ev) == EncodeArcs(SetPayload, "Payloads", ev, "payloads")

EncodeSetVariantSelections(ev) ==
    Build(SetVariantSelections,
        Put(ev, "prim", "Prim")
        @@ ("Selections" :> EntriesOf(ev.selections, LAMBDA n, v :
                Build(StringPair, ("Key" :> n) @@ ("Value" :> v)))))

EncodeSetMaterialBinding(ev) ==
    Build(SetMaterialBinding,
        Put(ev, "prim", "Prim") @@ Put(ev, "material_path", "MaterialPath")
        @@ PutTrue(ev, "material_purpose", "", "MaterialPurpose"))

\* The items of a list or of an array, as numbers.
Items(v) ==
    CASE IsA(v, "list") -> Map(v.list, NumberOf)
      [] IsA(v, "array") /\ v.dtype = "f" -> v.array
      [] IsA(v, "array") /\ v.dtype = "i" -> Map(v.array, Real)
AreStrings(v) ==
    IsA(v, "list") /\ v.list # <<>> /\ \A i \in DOMAIN v.list : IsA(v.list[i], "str")
AreInts(v) ==
    \/ IsA(v, "array") /\ v.dtype = "i"
    \/ IsA(v, "list") /\ \A i \in DOMAIN v.list : IsA(v.list[i], "int")

\* One wire slot per input, chosen by the value and the declared type.  A
\* numpy scalar matches none of the cases: no slot is written.
InputSlot(v, floats) ==
    CASE IsA(v, "bool") -> <<"ScalarBool", v.bool>>
      [] IsA(v, "int") /\ ~floats -> <<"ScalarInt", v.int>>
      [] IsA(v, "int") /\ floats -> <<"ScalarFloat", Real(v.int)>>
      [] IsA(v, "float") -> <<"ScalarFloat", v.float>>
      [] IsA(v, "str") -> <<"ScalarString", v.str>>
      [] AreStrings(v) -> <<"StringArray", Map(v.list, LAMBDA e : e.str)>>
      [] AreInts(v) /\ ~floats -> <<"IntArray", Map(Items(v), Truncate)>>
      [] IsA(v, "numpy") -> <<"None", None>>
      [] OTHER -> <<"FloatArray", Singles(Items(v))>>

EncodeInput(name, type, v) ==
    LET slot == InputSlot(v, type \in FLOAT_WIRE_TYPES)
    IN  Build(ConnectableInputValue,
            ("Name" :> name) @@ ("TypeName" :> type)
            @@ PutIf(slot[1] # "None", "ValueType", slot[1])
            @@ PutIf(slot[1] # "None", slot[1], slot[2]))

EncodeSetConnectableInput(ev) ==
    LET types == DictGet(ev, "input_types", Nothing)
    IN  Build(SetConnectableInput,
            Put(ev, "prim", "Prim") @@ Put(ev, "info_id", "InfoId")
            @@ ("Inputs" :> EntriesOf(ev.inputs, LAMBDA n, v :
                    EncodeInput(n, DictGet(types, n, ""), v)))
            @@ PutGiven(ev, "time", "Time"))

EncodeSetConnectableConnection(ev) ==
    Build(SetConnectableConnection,
        Put(ev, "prim", "Prim")
        @@ ("Connections" :> EntriesOf(ev.connections, LAMBDA n, c :
                Build(Connection, ("LocalAttr" :> n)
                                  @@ Put(c, "source_prim", "SourcePrim")
                                  @@ Put(c, "source_attr", "SourceAttr"))))
        @@ PutDefault(ev, "disconnections", <<>>, "Disconnections"))

EncodeSetInstanceable(ev) ==
    Build(SetInstanceable, Put(ev, "prim", "Prim")
                           @@ Put(ev, "instanceable", "Instanceable"))

PI_SLOTS ==
    [prototypes |-> "Prototypes", proto_indices |-> "ProtoIndices",
     positions |-> "Positions", orientations |-> "Orientations",
     scales |-> "Scales", velocities |-> "Velocities",
     accelerations |-> "Accelerations", angular_velocities |-> "AngularVelocities",
     ids |-> "Ids", invisible_ids |-> "InvisibleIds", inactive_ids |-> "InactiveIds"]
PI_BITS ==
    [f \in ToSet(POINT_INSTANCER_FIELDS) |->
        2 ^ ((CHOOSE i \in 1..11 : POINT_INSTANCER_FIELDS[i] = f) - 1)]

\* np.asarray(v, dtype).ravel()
Ravel(f, v) ==
    CASE f = "prototypes" -> v
      [] f \in DOMAIN PointArrayWidth -> Singles(FlattenSeq(v.rows))
      [] OTHER -> v.flat

EncodeSetPointInstancer(ev) ==
    LET fields == ToSet(ev.fields)
    IN  Build(SetPointInstancer,
            Put(ev, "prim", "Prim")
            @@ ("Fields" :> Mask(fields, PI_BITS))
            @@ [slot \in {PI_SLOTS[f] : f \in fields} |->
                    LET f == CHOOSE f \in fields : PI_SLOTS[f] = slot
                    IN  Ravel(f, ev[f])]
            @@ PutGiven(ev, "time", "Time"))

EncodeEraseTimeSamples(ev) ==
    Build(EraseTimeSamples, Put(ev, "prim", "Prim")
                            @@ Put(ev, "spec_path", "SpecPath")
                            @@ Put(ev, "times", "Times"))

SDF_SPEC_KIND_TO_FB ==
    [layer |-> "Layer", prim |-> "Prim", attribute |-> "Attribute",
     relationship |-> "Relationship", variant_set |-> "VariantSet",
     variant |-> "Variant", property |-> "Property"]
FB_TO_SDF_SPEC_KIND ==
    [f \in ToSet(SdfSpecKind) |->
        CHOOSE kind \in SDF_SPEC_KINDS : SDF_SPEC_KIND_TO_FB[kind] = f]

EncodeSetSdfSpecFields(ev) ==
    Build(SetSdfSpecFields,
        Put(ev, "prim", "Prim") @@ Put(ev, "spec_path", "SpecPath")
        @@ ("SpecKind" :> SDF_SPEC_KIND_TO_FB[ev.spec_kind])
        @@ PutDefault(ev, "fields", <<>>, "Fields")
        @@ PutDefault(ev, "fragment", "", "Fragment")
        @@ PutDefault(ev, "removed", FALSE, "Removed"))

EncodeReplaceSdfLayerContent(ev) ==
    Build(ReplaceSdfLayerContent, Put(ev, "prim", "Prim")
                                  @@ Put(ev, "fragment", "Fragment"))

EncodeSetSublayers(ev) ==
    Build(SetSublayers,
        Put(ev, "prim", "Prim") @@ Put(ev, "generation", "Generation")
        @@ PutDefault(ev, "revision", 0, "Revision")
        @@ PutIf(ev.sublayers # <<>>, "Sublayers",
                 Map(ev.sublayers, EncodeSublayerEntry)))

\* The tag each kind is registered with.
EVENT_TAG ==
    [ensure_prim |-> "EnsurePrim", ensure_xform_ops |-> "EnsureXformOps",
     set_xform_trs |-> "SetXformTrs", delete_prim |-> "DeletePrim",
     deactivate_prim |-> "DeactivatePrim", rename_prim |-> "RenamePrim",
     set_visibility |-> "SetVisibility", set_gprim_attrs |-> "SetGprimAttrs",
     set_reference |-> "SetReference", set_payload |-> "SetPayload",
     load_payload |-> "LoadPayload", unload_payload |-> "UnloadPayload",
     set_variant_selections |-> "SetVariantSelections",
     set_material_binding |-> "SetMaterialBinding",
     set_connectable_input |-> "SetConnectableInput",
     set_connectable_connection |-> "SetConnectableConnection",
     set_stage_metadata |-> "SetStageMetadata",
     set_instanceable |-> "SetInstanceable",
     set_point_instancer |-> "SetPointInstancer",
     set_sdf_spec_fields |-> "SetSdfSpecFields",
     replace_sdf_layer_content |-> "ReplaceSdfLayerContent",
     set_sublayers |-> "SetSublayers", erase_time_samples |-> "EraseTimeSamples"]
KindOfTag(tag) == CHOOSE kind \in EVENT_KEYS : EVENT_TAG[kind] = tag

EncodeEventTable(ev) ==
    CASE ev.k = "ensure_prim" -> EncodeEnsurePrim(ev)
      [] ev.k \in {"ensure_xform_ops", "delete_prim", "load_payload", "unload_payload"} ->
            EncodePrimOnly(ev)
      [] ev.k = "set_xform_trs" -> EncodeSetXformTrs(ev)
      [] ev.k = "deactivate_prim" -> EncodeDeactivatePrim(ev)
      [] ev.k = "rename_prim" -> EncodeRenamePrim(ev)
      [] ev.k = "set_visibility" -> EncodeSetVisibility(ev)
      [] ev.k = "set_gprim_attrs" -> EncodeSetGprimAttrs(ev)
      [] ev.k = "set_reference" -> EncodeSetReference(ev)
      [] ev.k = "set_payload" -> EncodeSetPayload(ev)
      [] ev.k = "set_variant_selections" -> EncodeSetVariantSelections(ev)
      [] ev.k = "set_material_binding" -> EncodeSetMaterialBinding(ev)
      [] ev.k = "set_connectable_input" -> EncodeSetConnectableInput(ev)
      [] ev.k = "set_connectable_connection" -> EncodeSetConnectableConnection(ev)
      [] ev.k = "set_stage_metadata" -> EncodeStageMetadata(ev)
      [] ev.k = "set_instanceable" -> EncodeSetInstanceable(ev)
      [] ev.k = "set_point_instancer" -> EncodeSetPointInstancer(ev)
      [] ev.k = "erase_time_samples" -> EncodeEraseTimeSamples(ev)
      [] ev.k = "set_sdf_spec_fields" -> EncodeSetSdfSpecFields(ev)
      [] ev.k = "replace_sdf_layer_content" -> EncodeReplaceSdfLayerContent(ev)
      [] ev.k = "set_sublayers" -> EncodeSetSublayers(ev)

EncodeEventWrapper(ev) ==
    Build(EventWrapper, ("EventType" :> EVENT_TAG[ev.k])
                        @@ ("Event" :> EncodeEventTable(ev)))

EncodeTxn(m) ==
    Build(Txn, ("Events" :> Map(m.events, EncodeEventWrapper))
               @@ PutTrue(m, "layer_key", "", "LayerKey")
               @@ PutTrue(m, "txn_id", 0, "TxnId"))

EncodeBroadcastEvent(m) ==
    Build(BroadcastEvent,
        Put(m, "seq", "Seq") @@ ("Event" :> EncodeEventWrapper(m.event))
        @@ PutStrings(m, [origin |-> "Origin", client_id |-> "ClientId",
                          client |-> "Client", layer_key |-> "LayerKey"]))

PAYLOAD_TAG ==
    [hello |-> "Hello", hello_ok |-> "HelloOk", auth_rejected |-> "AuthRejected",
     hello_rejected |-> "HelloRejected", txn |-> "Txn",
     transaction_result |-> "TransactionResult",
     replay_complete |-> "ReplayComplete", event |-> "BroadcastEvent",
     resync |-> "Resync", compact |-> "Compact", ping |-> "Ping", quit |-> "Quit",
     rate_limited |-> "RateLimited", claim_playback |-> "ClaimPlayback",
     playback_claimed |-> "PlaybackClaimed",
     playback_rejected |-> "PlaybackRejected",
     playback_control |-> "PlaybackControl", playback_state |-> "PlaybackState",
     layer_stack_state |-> "LayerStackState",
     layer_graph_state |-> "LayerGraphState"]
TypeOfTag(tag) == CHOOSE type \in DOMAIN PAYLOAD_TAG : PAYLOAD_TAG[type] = tag

EncodePayload(m) ==
    CASE m.type = "hello" -> EncodeHello(m)
      [] m.type = "hello_ok" -> EncodeHelloOk(m)
      [] m.type = "auth_rejected" -> Build(AuthRejected, PutDefault(m, "reason", "", "Reason"))
      [] m.type = "hello_rejected" -> EncodeHelloRejected(m)
      [] m.type = "txn" -> EncodeTxn(m)
      [] m.type = "transaction_result" -> EncodeTransactionResult(m)
      [] m.type = "replay_complete" -> EncodeReplayComplete(m)
      [] m.type = "event" -> EncodeBroadcastEvent(m)
      [] m.type \in {"resync", "compact", "ping", "quit"} -> EncodeEmpty(m)
      [] m.type = "rate_limited" -> EncodeRateLimited(m)
      [] m.type = "claim_playback" -> EncodePlaybackClaim(m)
      [] m.type \in {"playback_claimed", "playback_rejected"} -> EncodePlaybackAnswer(m)
      [] m.type = "playback_control" -> EncodePlaybackControl(m)
      [] m.type = "playback_state" -> EncodePlaybackState(m)
      [] m.type = "layer_stack_state" -> EncodeLayerStackState(m)
      [] m.type = "layer_graph_state" -> EncodeLayerGraphState(m)

EncodeMessage(m) ==
    Build(Envelope, ("PayloadType" :> PAYLOAD_TAG[m.type])
                    @@ ("Payload" :> EncodePayload(m))
                    @@ ("SchemaVersion" :> SCHEMA_VERSION))

-----------------------------------------------------------------------------
\* Events: the readers behind the generated accessors.

Key(T, w, slot, key) == key :> Get(T, w, slot)
KeySet(T, w, slot, key) == KeyGiven(key, Get(T, w, slot))
Kind(kind) == "k" :> kind

DictPrimOnly(w, kind) == Kind(kind) @@ Key(DeletePrim, w, "Prim", "prim")

DictEnsurePrim(w, kind) ==
    Kind(kind) @@ Key(EnsurePrim, w, "Prim", "prim")
    @@ KeySet(EnsurePrim, w, "TypeName", "typeName")
    @@ KeyIf(Get(EnsurePrim, w, "ApiSchemas") # <<>>, "api_schemas",
             Get(EnsurePrim, w, "ApiSchemas"))

DictSetXformTrs(w, kind) ==
    LET mask == Get(SetXformTrs, w, "Fields")
        fields == SelectSeq(<<"t", "r", "s">>, LAMBDA f : HasBit(mask, TRS_BITS[f]))
    IN  Kind(kind) @@ Key(SetXformTrs, w, "Prim", "prim")
        @@ [f \in ToSet(fields) |-> Get(SetXformTrs, w, TRS_SLOTS[f])]
        @@ ("fields" :> fields)
        @@ KeySet(SetXformTrs, w, "Time", "time")

DictDeactivatePrim(w, kind) ==
    Kind(kind) @@ Key(DeactivatePrim, w, "Prim", "prim")
    @@ Key(DeactivatePrim, w, "Active", "active")

DictRenamePrim(w, kind) ==
    Kind(kind) @@ Key(RenamePrim, w, "Prim", "prim")
    @@ Key(RenamePrim, w, "NewName", "new_name")

DictSetVisibility(w, kind) ==
    Kind(kind) @@ Key(SetVisibility, w, "Prim", "prim")
    @@ Key(SetVisibility, w, "Visible", "visible")
    @@ KeySet(SetVisibility, w, "Time", "time")

\* Rows of a given width.
Reshape(s, width) ==
    [i \in 1..(Len(s) \div width) |-> SubSeq(s, (i - 1) * width + 1, i * width)]

\* The server keeps arrays as numpy views, other readers make lists.
ArrayValue(s, dtype, stride, numpy) ==
    LET Boxed(x) == IF dtype = "f" THEN [float |-> x] ELSE [int |-> x]
    IN  CASE numpy -> [array |-> s, dtype |-> dtype, stride |-> stride]
          [] ~numpy /\ stride <= 1 -> [list |-> Map(s, Boxed)]
          [] ~numpy /\ stride > 1 -> [nested |-> Reshape(Map(s, Boxed), stride)]

AttrValueToPython(w, numpy) ==
    LET type == Get(AttrValue, w, "ValueType")
        Is(slot) == Get(AttrValue, w, slot)
    IN  CASE type = "ScalarFloat" -> [float |-> Is("ScalarFloat")]
          [] type = "ScalarInt" -> [int |-> Is("ScalarInt")]
          [] type = "ScalarBool" -> [bool |-> Is("ScalarBool")]
          [] type = "ScalarString" -> [str |-> Is("ScalarString")]
          [] type = "FloatArray" -> ArrayValue(Is("FloatArray"), "f", Is("Stride"), numpy)
          [] type = "IntArray" -> ArrayValue(Is("IntArray"), "i", Is("Stride"), numpy)
          [] type = "NestedList" -> Is("NestedJson").json
          [] OTHER -> None

DictSetGprimAttrs(w, kind, numpy) ==
    LET meta == Get(SetGprimAttrs, w, "PrimvarMeta")
        interp == Get(SetGprimAttrs, w, "AttrInterp")
    IN  Kind(kind) @@ Key(SetGprimAttrs, w, "Prim", "prim")
        @@ ("attrs" :> DictOf(Get(SetGprimAttrs, w, "Attrs"),
                LAMBDA a : Get(NamedAttr, a, "Name"),
                LAMBDA a : AttrValueToPython(Get(NamedAttr, a, "Value"), numpy)))
        @@ KeyIf(meta # <<>>, "primvar_meta", DictOf(meta,
                LAMBDA e : Get(PrimvarMeta, e, "AttrName"),
                LAMBDA e : ("typeName" :> Get(PrimvarMeta, e, "TypeName"))
                           @@ KeyText("interpolation", Get(PrimvarMeta, e, "Interpolation"))))
        @@ KeyIf(interp # <<>>, "attr_interp", DictOf(interp,
                LAMBDA e : Get(AttrInterp, e, "AttrName"),
                LAMBDA e : Get(AttrInterp, e, "Interpolation")))
        @@ KeySet(SetGprimAttrs, w, "Time", "time")

DictArcEntry(w, explicit) ==
    LET position == FB_TO_ARC_POSITION[Get(ArcEntry, w, "ListPosition")]
        offset == Get(ArcEntry, w, "LayerOffset")
        scale == Get(ArcEntry, w, "LayerScale")
    IN  KeyText("asset_path", Get(ArcEntry, w, "AssetPath"))
        @@ KeyText("prim_path", Get(ArcEntry, w, "PrimPath"))
        @@ KeyIf(position # DefaultPosition(explicit), "list_position", position)
        @@ KeyIf(offset # Real(0), "layer_offset", offset)
        @@ KeyIf(scale # Real(1), "layer_scale", scale)
        @@ KeyText("custom_data_fragment", Get(ArcEntry, w, "CustomDataFragment"))

DictArcs(T, slot, key, w, kind) ==
    LET explicit == Get(T, w, "ListOpExplicit")
    IN  Kind(kind) @@ Key(T, w, "Prim", "prim")
        @@ (key :> Map(Get(T, w, slot), LAMBDA e : DictArcEntry(e, explicit)))
        @@ Key(T, w, "ListOpAuthored", "list_op_authored")
        @@ ("list_op_explicit" :> explicit)

DictSetReference(w, kind) == DictArcs(SetReference, "Refs", "refs", w, kind)
DictSetPayload(w, kind) == DictArcs(SetPayload, "Payloads", "payloads", w, kind)

DictSetVariantSelections(w, kind) ==
    Kind(kind) @@ Key(SetVariantSelections, w, "Prim", "prim")
    @@ ("selections" :> DictOf(Get(SetVariantSelections, w, "Selections"),
            LAMBDA e : Get(StringPair, e, "Key"),
            LAMBDA e : Get(StringPair, e, "Value")))

DictSetMaterialBinding(w, kind) ==
    Kind(kind) @@ Key(SetMaterialBinding, w, "Prim", "prim")
    @@ Key(SetMaterialBinding, w, "MaterialPath", "material_path")
    @@ KeyText("material_purpose", Get(SetMaterialBinding, w, "MaterialPurpose"))

InputValue(w) ==
    LET type == Get(ConnectableInputValue, w, "ValueType")
        v == Get(ConnectableInputValue, w, type)
    IN  CASE type = "FloatArray" -> [list |-> Map(v, LAMBDA x : [float |-> x])]
          [] type = "IntArray" -> [list |-> Map(v, LAMBDA x : [int |-> x])]
          [] type = "StringArray" -> [list |-> Map(v, LAMBDA x : [str |-> x])]
          [] type = "ScalarString" -> [str |-> v]
          [] type = "ScalarBool" -> [bool |-> v]
          [] type = "ScalarInt" -> [int |-> v]
          [] type = "ScalarFloat" -> [float |-> v]

\* An input without a value keeps its type and loses its entry.
DictSetConnectableInput(w, kind) ==
    LET inputs == Get(SetConnectableInput, w, "Inputs")
        Name(e) == Get(ConnectableInputValue, e, "Name")
        HasValue(e) == Get(ConnectableInputValue, e, "ValueType") # "None"
    IN  Kind(kind) @@ Key(SetConnectableInput, w, "Prim", "prim")
        @@ Key(SetConnectableInput, w, "InfoId", "info_id")
        @@ ("inputs" :> DictOf(SelectSeq(inputs, HasValue), Name, InputValue))
        @@ ("input_types" :> DictOf(inputs, Name,
                LAMBDA e : Get(ConnectableInputValue, e, "TypeName")))
        @@ KeySet(SetConnectableInput, w, "Time", "time")

DictSetConnectableConnection(w, kind) ==
    LET cut == Get(SetConnectableConnection, w, "Disconnections")
    IN  Kind(kind) @@ Key(SetConnectableConnection, w, "Prim", "prim")
        @@ ("connections" :> DictOf(Get(SetConnectableConnection, w, "Connections"),
                LAMBDA e : Get(Connection, e, "LocalAttr"),
                LAMBDA e : [source_prim |-> Get(Connection, e, "SourcePrim"),
                            source_attr |-> Get(Connection, e, "SourceAttr")]))
        @@ KeyIf(cut # <<>>, "disconnections", cut)

DictSetInstanceable(w, kind) ==
    Kind(kind) @@ Key(SetInstanceable, w, "Prim", "prim")
    @@ Key(SetInstanceable, w, "Instanceable", "instanceable")

PointField(w, f, numpy) ==
    LET s == Get(SetPointInstancer, w, PI_SLOTS[f])
        dtype == IF ~numpy THEN "list"
                 ELSE IF f \in DOMAIN PointArrayWidth THEN "f" ELSE "i"
    IN  CASE f = "prototypes" -> s
          [] f \in DOMAIN PointArrayWidth ->
                [rows |-> Reshape(s, PointArrayWidth[f]), dtype |-> dtype]
          [] OTHER -> [flat |-> s, dtype |-> dtype]

DictSetPointInstancer(w, kind, numpy) ==
    LET mask == Get(SetPointInstancer, w, "Fields")
        fields == SelectSeq(POINT_INSTANCER_FIELDS, LAMBDA f : HasBit(mask, PI_BITS[f]))
    IN  Kind(kind) @@ Key(SetPointInstancer, w, "Prim", "prim")
        @@ [f \in ToSet(fields) |-> PointField(w, f, numpy)]
        @@ ("fields" :> fields)
        @@ KeySet(SetPointInstancer, w, "Time", "time")

DictEraseTimeSamples(w, kind) ==
    Kind(kind) @@ Key(EraseTimeSamples, w, "Prim", "prim")
    @@ Key(EraseTimeSamples, w, "SpecPath", "spec_path")
    @@ Key(EraseTimeSamples, w, "Times", "times")

DictSetSdfSpecFields(w, kind) ==
    Kind(kind) @@ Key(SetSdfSpecFields, w, "Prim", "prim")
    @@ Key(SetSdfSpecFields, w, "SpecPath", "spec_path")
    @@ ("spec_kind" :> FB_TO_SDF_SPEC_KIND[Get(SetSdfSpecFields, w, "SpecKind")])
    @@ Key(SetSdfSpecFields, w, "Fields", "fields")
    @@ Key(SetSdfSpecFields, w, "Fragment", "fragment")
    @@ Key(SetSdfSpecFields, w, "Removed", "removed")

DictReplaceSdfLayerContent(w, kind) ==
    Kind(kind)
    @@ ("prim" :> OrEmpty(Get(ReplaceSdfLayerContent, w, "Prim")))
    @@ ("fragment" :> OrEmpty(Get(ReplaceSdfLayerContent, w, "Fragment")))

DictSublayerEntry(w) ==
    ("authored_path" :> OrEmpty(Get(SublayerEntry, w, "AuthoredPath")))
    @@ Key(SublayerEntry, w, "Offset", "offset")
    @@ Key(SublayerEntry, w, "Scale", "scale")
    @@ KeyText("layer_key", Get(SublayerEntry, w, "LayerKey"))

DictSetSublayers(w, kind) ==
    Kind(kind)
    @@ ("prim" :> OrEmpty(Get(SetSublayers, w, "Prim")))
    @@ ("generation" :> OrEmpty(Get(SetSublayers, w, "Generation")))
    @@ Key(SetSublayers, w, "Revision", "revision")
    @@ ("sublayers" :> Map(Get(SetSublayers, w, "Sublayers"), DictSublayerEntry))

EventToDict(w, numpy) ==
    LET kind == KindOfTag(Get(EventWrapper, w, "EventType"))
        table == Get(EventWrapper, w, "Event")
    IN  CASE kind = "ensure_prim" -> DictEnsurePrim(table, kind)
          [] kind \in {"ensure_xform_ops", "delete_prim", "load_payload", "unload_payload"} ->
                DictPrimOnly(table, kind)
          [] kind = "set_xform_trs" -> DictSetXformTrs(table, kind)
          [] kind = "deactivate_prim" -> DictDeactivatePrim(table, kind)
          [] kind = "rename_prim" -> DictRenamePrim(table, kind)
          [] kind = "set_visibility" -> DictSetVisibility(table, kind)
          [] kind = "set_gprim_attrs" -> DictSetGprimAttrs(table, kind, numpy)
          [] kind = "set_reference" -> DictSetReference(table, kind)
          [] kind = "set_payload" -> DictSetPayload(table, kind)
          [] kind = "set_variant_selections" -> DictSetVariantSelections(table, kind)
          [] kind = "set_material_binding" -> DictSetMaterialBinding(table, kind)
          [] kind = "set_connectable_input" -> DictSetConnectableInput(table, kind)
          [] kind = "set_connectable_connection" -> DictSetConnectableConnection(table, kind)
          [] kind = "set_stage_metadata" -> Kind(kind) @@ DecodeStageMetadata(table)
          [] kind = "set_instanceable" -> DictSetInstanceable(table, kind)
          [] kind = "set_point_instancer" -> DictSetPointInstancer(table, kind, numpy)
          [] kind = "erase_time_samples" -> DictEraseTimeSamples(table, kind)
          [] kind = "set_sdf_spec_fields" -> DictSetSdfSpecFields(table, kind)
          [] kind = "replace_sdf_layer_content" -> DictReplaceSdfLayerContent(table, kind)
          [] kind = "set_sublayers" -> DictSetSublayers(table, kind)

-----------------------------------------------------------------------------
\* The readers that address vtable offsets themselves.

Field(w, offset, absent) == IF offset \in DOMAIN w THEN w[offset] ELSE absent

DecodeXformTable(w) ==
    LET mask == Field(w, 6, 0)
        offset == [t |-> 8, r |-> 10, s |-> 12]
        fields == SelectSeq(<<"t", "r", "s">>, LAMBDA f : HasBit(mask, TRS_BITS[f]))
    IN  Kind("set_xform_trs") @@ ("prim" :> Field(w, 4, None))
        @@ ("fields" :> fields)
        @@ [f \in ToSet(fields) |-> Field(w, offset[f], <<>>)]
        @@ KeyIf(14 \in DOMAIN w, "time", Field(w, 14, None))

DecodeEventWrapper(w, numpy) ==
    IF Field(w, 4, "NONE") = "SetXformTrs"
    THEN DecodeXformTable(w[6])
    ELSE EventToDict(w, numpy)

DecodeTransaction(w, numpy) ==
    [events    |-> Map(Field(w, 4, <<>>), LAMBDA e : DecodeEventWrapper(e, numpy)),
     txn_id    |-> Field(w, 8, 0),
     layer_key |-> Field(w, 6, "")]

\* Routing strings that are absent or empty read as None.
OptionalString(w, offset) ==
    IF Field(w, offset, "") = "" THEN None ELSE w[offset]

DecodeReceivedEvent(w, numpy) ==
    [seq       |-> Field(w, 4, 0),
     event     |-> IF 6 \in DOMAIN w THEN DecodeEventWrapper(w[6], numpy) ELSE Nothing,
     origin    |-> OptionalString(w, 8),
     client_id |-> OptionalString(w, 10),
     client    |-> OptionalString(w, 12),
     layer_key |-> OptionalString(w, 14)]

DecodeBroadcastEvent(w, numpy) ==
    LET Dict(record) ==
            [type |-> "event", seq |-> record.seq, event |-> record.event]
            @@ KeyGiven("origin", record.origin) @@ KeyGiven("client_id", record.client_id)
            @@ KeyGiven("client", record.client) @@ KeyGiven("layer_key", record.layer_key)
    IN  Dict(DecodeReceivedEvent(w, numpy))

\* The tag and, for what the log orders, the sequence number.
PayloadTypeAndSequence(w) ==
    LET tag == Field(w, 4, "NONE")
    IN  <<tag, IF tag \in {"BroadcastEvent", "LayerGraphState"} THEN Field(w[6], 4, 0) ELSE 0>>

-----------------------------------------------------------------------------
\* Messages: the readers behind the generated accessors.

Text(T, w, slot, key) == key :> OrEmpty(Get(T, w, slot))
KeyTrue(T, w, slot, zero, key) == KeyIf(Get(T, w, slot) # zero, key, Get(T, w, slot))

\* A mode is named only when it is not the managed one.
KeyMode(T, w) ==
    LET mode == FB_TO_LAYER_MODE[Get(T, w, "LayerMode")]
    IN  KeyIf(mode # "managed", "layer_mode", mode)

DecodeHello(w) ==
    Key(Hello, w, "Role", "role")
    @@ Key(Hello, w, "ProtocolVersion", "protocol_version")
    @@ KeySet(Hello, w, "ReplayServerInstance", "replay_server_instance")
    @@ KeySet(Hello, w, "ReplayEpoch", "replay_epoch")
    @@ KeyTrue(Hello, w, "SyncFrom", 0, "sync_from")
    @@ KeyText("client_id", Get(Hello, w, "ClientId"))
    @@ KeyText("origin", Get(Hello, w, "Origin"))
    @@ KeyText("department", Get(Hello, w, "Department"))
    @@ KeyText("token", Get(Hello, w, "Token"))
    @@ KeyText("producer_session_id", Get(Hello, w, "ProducerSessionId"))
    @@ KeyTrue(Hello, w, "LayeredReplay", FALSE, "layered_replay")
    @@ KeyMode(Hello, w)

DictHelloOk(w) ==
    LET table == Get(HelloOk, w, "StageMetadata")
        meta == IF table = None THEN Nothing ELSE DecodeStageMetadata(table)
    IN  KeySet(HelloOk, w, "ReplayEpoch", "replay_epoch")
        @@ KeyTrue(HelloOk, w, "ReplayIdentity", FALSE, "replay_identity")
        @@ KeyText("server_instance", Get(HelloOk, w, "ServerInstance"))
        @@ KeyText("token", Get(HelloOk, w, "Token"))
        @@ KeyIf(meta # Nothing, "stage_metadata", meta)
        @@ KeyTrue(HelloOk, w, "LayeredReplay", FALSE, "layered_replay")
        @@ KeyTrue(HelloOk, w, "CommittedThrough", 0, "committed_through")
        @@ KeyMode(HelloOk, w)

DictClaimPlayback(w) ==
    Text(ClaimPlayback, w, "ClientId", "client_id")
    @@ KeySet(ClaimPlayback, w, "Time", "time")

DictPlaybackClaimed(w) == Text(PlaybackClaimed, w, "LeaderClientId", "leader_client_id")

DictPlaybackRejected(w) ==
    Text(PlaybackRejected, w, "Reason", "reason")
    @@ Text(PlaybackRejected, w, "CurrentLeaderClientId", "current_leader_client_id")

\* "no opinion" stays apart from "explicit zero".
DictPlaybackControl(w) ==
    Text(PlaybackControl, w, "Action", "action")
    @@ KeySet(PlaybackControl, w, "Time", "time")
    @@ KeySet(PlaybackControl, w, "Rate", "rate")

DictPlaybackState(w) ==
    Key(PlaybackState, w, "Time", "time") @@ Key(PlaybackState, w, "Playing", "playing")
    @@ Key(PlaybackState, w, "Rate", "rate")
    @@ Text(PlaybackState, w, "LeaderClientId", "leader_client_id")

DictLayerStackState(w) ==
    Text(LayerStackState, w, "Generation", "generation")
    @@ Key(LayerStackState, w, "Revision", "revision")
    @@ ("layers" :> Map(Get(LayerStackState, w, "Layers"), LAMBDA item :
            Text(LogicalLayerState, item, "LayerKey", "layer_key")
            @@ Text(LogicalLayerState, item, "Label", "label")
            @@ Key(LogicalLayerState, item, "Muted", "muted")))

DictLayerGraphState(w) ==
    Key(LayerGraphState, w, "Seq", "seq")
    @@ Text(LayerGraphState, w, "Generation", "generation")
    @@ Key(LayerGraphState, w, "Revision", "revision")
    @@ Text(LayerGraphState, w, "RootLayerKey", "root_layer_key")
    @@ ("layers" :> Map(Get(LayerGraphState, w, "Layers"), LAMBDA item :
            Text(SharedLayerState, item, "LayerKey", "layer_key")
            @@ Key(SharedLayerState, item, "Revision", "revision")
            @@ ("sublayers" :> Map(Get(SharedLayerState, item, "Sublayers"),
                                   DictSublayerEntry))))

DictHelloRejected(w) ==
    Key(HelloRejected, w, "Code", "code") @@ Text(HelloRejected, w, "Reason", "reason")

DictTxn(w, numpy) ==
    ("events" :> Map(Get(Txn, w, "Events"), LAMBDA e : EventToDict(e, numpy)))
    @@ KeyText("layer_key", Get(Txn, w, "LayerKey"))
    @@ KeyTrue(Txn, w, "TxnId", 0, "txn_id")

DictTransactionResult(w) ==
    LET checkpoint == Get(TransactionResult, w, "Checkpoint")
    IN  Key(TransactionResult, w, "TxnId", "txn_id")
        @@ Key(TransactionResult, w, "Status", "status")
        @@ Key(TransactionResult, w, "ExpectedTxnId", "expected_txn_id")
        @@ Key(TransactionResult, w, "RejectionCode", "rejection_code")
        @@ KeyText("reason", Get(TransactionResult, w, "Reason"))
        @@ (IF checkpoint = None THEN Nothing
            ELSE "checkpoint" :>
                    (Key(TransactionCheckpoint, checkpoint, "Epoch", "epoch")
                     @@ Key(TransactionCheckpoint, checkpoint, "HeadSeq", "head_seq")))

DictReplayComplete(w) ==
    Key(ReplayComplete, w, "HeadSeq", "head_seq") @@ Key(ReplayComplete, w, "Epoch", "epoch")

DictBroadcastEvent(w, numpy) ==
    LET wrapper == Get(BroadcastEvent, w, "Event")
    IN  Key(BroadcastEvent, w, "Seq", "seq")
        @@ ("event" :> IF wrapper = None THEN Nothing ELSE EventToDict(wrapper, numpy))
        @@ KeyText("origin", Get(BroadcastEvent, w, "Origin"))
        @@ KeyText("client_id", Get(BroadcastEvent, w, "ClientId"))
        @@ KeyText("client", Get(BroadcastEvent, w, "Client"))
        @@ KeyText("layer_key", Get(BroadcastEvent, w, "LayerKey"))

\* Every reader refuses an envelope of another schema.
Supported(envelope) == Get(Envelope, envelope, "SchemaVersion") = SCHEMA_VERSION

PayloadToDict(type, w, numpy) ==
    CASE type = "hello" -> DecodeHello(w)
      [] type = "hello_ok" -> DictHelloOk(w)
      [] type = "auth_rejected" -> Text(AuthRejected, w, "Reason", "reason")
      [] type = "hello_rejected" -> DictHelloRejected(w)
      [] type = "txn" -> DictTxn(w, numpy)
      [] type = "transaction_result" -> DictTransactionResult(w)
      [] type = "replay_complete" -> DictReplayComplete(w)
      [] type = "event" -> DictBroadcastEvent(w, numpy)
      [] type \in {"resync", "compact", "ping", "quit"} -> Nothing
      [] type = "rate_limited" -> Key(RateLimited, w, "RetryAfter", "retry_after")
      [] type = "claim_playback" -> DictClaimPlayback(w)
      [] type = "playback_claimed" -> DictPlaybackClaimed(w)
      [] type = "playback_rejected" -> DictPlaybackRejected(w)
      [] type = "playback_control" -> DictPlaybackControl(w)
      [] type = "playback_state" -> DictPlaybackState(w)
      [] type = "layer_stack_state" -> DictLayerStackState(w)
      [] type = "layer_graph_state" -> DictLayerGraphState(w)

PayloadOf(envelope) == Get(Envelope, envelope, "Payload")

MessageToDict(envelope, numpy) ==
    LET type == TypeOfTag(Get(Envelope, envelope, "PayloadType"))
    IN  ("type" :> type) @@ PayloadToDict(type, PayloadOf(envelope), numpy)

-----------------------------------------------------------------------------
\* The broadcast encoder.  A template is the encoding of a prototype in which
\* every number that will be patched is stored, so that it has a place.

IsTemplated(m) == m.event.k = "set_xform_trs" /\ ToSet(m.event.fields) # {}

OrNone(m, key) == IF Given(m, key) /\ m[key] # "" THEN m[key] ELSE None

\* Mutant: animated and static transforms share a template.
UntimedTemplateKey(m) ==
    [prim      |-> m.event.prim,
     mask      |-> Mask(ToSet(m.event.fields), TRS_BITS),
     has_time  |-> FALSE,
     origin    |-> OrNone(m, "origin"),
     client_id |-> OrNone(m, "client_id"),
     client    |-> OrNone(m, "client"),
     layer_key |-> OrNone(m, "layer_key")]

TemplateKey(m) ==
    [prim      |-> m.event.prim,
     mask      |-> Mask(ToSet(m.event.fields), TRS_BITS),
     has_time  |-> Given(m.event, "time"),
     origin    |-> OrNone(m, "origin"),
     client_id |-> OrNone(m, "client_id"),
     client    |-> OrNone(m, "client"),
     layer_key |-> OrNone(m, "layer_key")]

\* Mutant: the prototype has the default sequence, which is not stored.
BuildUnnumbered(key) ==
    LET fields == SelectSeq(<<"t", "r", "s">>, LAMBDA f : HasBit(key.mask, TRS_BITS[f]))
        Ones(f) == [i \in 1..(IF f = "r" THEN 4 ELSE 3) |-> Real(1)]
        event == [k |-> "set_xform_trs", prim |-> key.prim, fields |-> fields]
                 @@ [f \in ToSet(fields) |-> Ones(f)]
                 @@ KeyIf(key.has_time, "time", Real(1))
    IN  EncodeMessage([type |-> "event", seq |-> 0, event |-> event,
                       origin |-> key.origin, client_id |-> key.client_id,
                       client |-> key.client, layer_key |-> key.layer_key])

BuildTemplate(key) ==
    LET fields == SelectSeq(<<"t", "r", "s">>, LAMBDA f : HasBit(key.mask, TRS_BITS[f]))
        Ones(f) == [i \in 1..(IF f = "r" THEN 4 ELSE 3) |-> Real(1)]
        event == [k |-> "set_xform_trs", prim |-> key.prim, fields |-> fields]
                 @@ [f \in ToSet(fields) |-> Ones(f)]
                 @@ KeyIf(key.has_time, "time", Real(1))
    IN  EncodeMessage([type |-> "event", seq |-> 1, event |-> event,
                       origin |-> key.origin, client_id |-> key.client_id,
                       client |-> key.client, layer_key |-> key.layer_key])

\* Patch the sequence, the vectors and the time where the template stores
\* them: the envelope's payload, its event, and that event's table.
XFORM_VECTOR_OFFSETS == [t |-> 8, r |-> 10, s |-> 12]
Render(template, m) ==
    LET At(o) == CHOOSE f \in TRS_FIELDS : XFORM_VECTOR_OFFSETS[f] = o
        Patched(table) ==
            [o \in DOMAIN table |->
                CASE o \in {8, 10, 12} -> Singles(m.event[At(o)])
                  [] o = 14 -> DictGet(m.event, "time", None)
                  [] OTHER -> table[o]]
    IN  [template EXCEPT ![6][4] = m.seq, ![6][6][6] = Patched(@)]

\* templates: the cached <<key, template>> pairs, least recently used first.
EncodeBroadcast(templates, m, maxTemplates) ==
    LET key == TemplateKey(m)
        hits == SelectSeq(templates, LAMBDA e : e[1] = key)
        others == SelectSeq(templates, LAMBDA e : e[1] # key)
        kept == IF Len(others) < maxTemplates THEN others ELSE Tail(others)
        Using(template) == [wire |-> Render(template, m),
                            templates |-> Append(kept, <<key, template>>)]
    IN  IF IsTemplated(m)
        THEN Using(IF hits # <<>> THEN hits[1][2] ELSE BuildTemplate(key))
        ELSE [wire |-> EncodeMessage(m), templates |-> templates]

-----------------------------------------------------------------------------
\* protocol.py: the messages a client and the server build.

PROTOCOL_VERSION == 13

\* args holds the keyword arguments that are not None.
HelloAllowed(args) ==
    LET shared == args.layer_mode = "shared_stage"
    IN  /\ args.role \in {"emitter", "receiver"}
        /\ shared => "department" \notin DOMAIN args
        /\ shared => ~DictGet(args, "layered_replay", FALSE)

MakeHello(args) ==
    LET layered == DictGet(args, "layered_replay",
                       args.role = "receiver" /\ args.layer_mode = "managed")
        given == DOMAIN args \ {"layered_replay", "layer_mode"}
    IN  [type |-> "hello", protocol_version |-> PROTOCOL_VERSION]
        @@ [key \in given |-> args[key]]
        @@ KeyIf(layered, "layered_replay", TRUE)
        @@ KeyIf(args.layer_mode # "managed", "layer_mode", args.layer_mode)

MakeTxn(events, layer_key, txn_id) ==
    [type |-> "txn", events |-> events]
    @@ KeyIf(layer_key # "", "layer_key", layer_key)
    @@ KeyIf(txn_id # 0, "txn_id", txn_id)

MakeTransactionResult(txn_id, status, expected, code, reason, checkpoint) ==
    [type |-> "transaction_result", txn_id |-> txn_id, status |-> status]
    @@ KeyIf(expected # 0, "expected_txn_id", expected)
    @@ KeyIf(code # "none", "rejection_code", code)
    @@ KeyIf(reason # "", "reason", reason)
    @@ KeyGiven("checkpoint", checkpoint)

MakeReplayComplete(head_seq, epoch) ==
    [type |-> "replay_complete", head_seq |-> head_seq, epoch |-> epoch]

MakeClaimPlayback(client_id, time) ==
    [type |-> "claim_playback", client_id |-> client_id] @@ KeyGiven("time", time)

MakePlaybackControl(action, time, rate) ==
    [type |-> "playback_control", action |-> action]
    @@ KeyGiven("time", time) @@ KeyGiven("rate", rate)
=============================================================================
