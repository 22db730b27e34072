-------------------------- MODULE MCWireExchange --------------------------
(***************************************************************************)
(* One conversation per question.  Every kind of event is submitted in     *)
(* each of its shapes (optional keys absent, at their default, at another  *)
(* value; numbers a float32 holds and numbers it does not), every other    *)
(* message is said in each of its shapes, and runs of transforms by two    *)
(* clients share the template cache.                                       *)
(***************************************************************************)
EXTENDS WireExchange

MCPaths ==
    [p \in {"/", "/A", "/A/B", "/A.x", "/A{v=}", "/A{v=s}", "/A{v=s}B", "/A{v=s}.x"} |->
        CASE p = "/" -> "root" [] p \in {"/A", "/A/B"} -> "prim"
          [] p = "/A.x" -> "property" [] p = "/A{v=}" -> "variant set"
          [] p = "/A{v=s}" -> "variant" [] p = "/A{v=s}B" -> "variant prim"
          [] p = "/A{v=s}.x" -> "variant property"]
MCOwner ==
    [p \in DOMAIN MCPaths |->
        CASE p = "/" -> "/" [] p = "/A/B" -> "/A/B" [] OTHER -> "/A"]
MCIdentifiers == {"size", "s", "B"}
MCNamespaced == {"size", "primvars:c", "a:b"}
MCTypeNames == {"float", "int", "color3f", "string"}
MCQualified == {"inputs:i", "outputs:o"}
MCFragments ==
    [f \in {"#layer", "#prim", "#sub"} |->
        [specs |-> IF f = "#prim"
                   THEN {<<"/A", "prim">>, <<"/A.x", "attribute">>,
                         <<"/A{v=}", "variant_set">>, <<"/A{v=s}", "variant">>,
                         <<"/A{v=s}B", "prim">>, <<"/A{v=s}.x", "relationship">>}
                   ELSE {<<"/", "layer">>},
         sublayers |-> f = "#sub"]]
MCPosix == [p \in {"d\\x.usd"} |-> "d/x.usd"]
MCCustomText == [f \in DOMAIN MCFragments |-> IF f = "#layer" THEN "" ELSE f]
MCLayerKeys == [p \in {"a.usd"} |-> "key-a"]
-----------------------------------------------------------------------------
Half == 3       \* a double between two floats

Optional(key, values) == {NoKeys} \union {key :> v : v \in values}
Join(S, T) == {x @@ y : x \in S, y \in T}
Event(kind, keys) == [k |-> kind, prim |-> "/A"] @@ keys
Times == Optional("time", {Real(0), Half})

Vec(n, x) == [i \in 1..n |-> x]
Transform(fields, x, time) ==
    Event("set_xform_trs",
        [fields |-> fields] @@ time
        @@ [f \in ToSet(fields) |-> Vec(IF f = "r" THEN 4 ELSE 3, x)])
Transforms ==
    {Transform(fields, x, time) :
        fields \in {<<"t">>, <<"r">>, <<"s", "t">>, <<"t", "r", "s">>},
        x \in {Real(0), Half}, time \in Times}

PrimInputs ==
    {Event("ensure_prim", x) :
        x \in Join({"typeName" :> "", "typeName" :> "Xform"},
                   Optional("api_schemas", {<<>>, <<"a:b", "size">>}))}
    \union {Event(k, NoKeys) :
        k \in {"ensure_xform_ops", "delete_prim", "load_payload", "unload_payload"}}
    \union {Event("deactivate_prim", "active" :> b) : b \in BOOLEAN}
    \union {Event("set_instanceable", "instanceable" :> b) : b \in BOOLEAN}
    \union {Event("rename_prim", "new_name" :> n) : n \in {"B", "no name"}}
    \union {Event("set_visibility", ("visible" :> b) @@ t) : b \in BOOLEAN, t \in Times}

Ints(s) == [i \in DOMAIN s |-> [int |-> s[i]]]
Floats(s) == [i \in DOMAIN s |-> [float |-> s[i]]]
Strs(s) == [i \in DOMAIN s |-> [str |-> s[i]]]
Scalars ==
    {[bool |-> FALSE], [bool |-> TRUE], [int |-> 0], [int |-> 7],
     [float |-> Real(0)], [float |-> Half], [float |-> NaN],
     [str |-> ""], [str |-> "x"]}
Lists ==
    {[list |-> l] : l \in {<<>>, Ints(<<1, 0>>), Floats(<<Half, Real(0)>>),
                           Strs(<<"x", "">>)}}
Arrays ==
    {[array |-> <<>>, dtype |-> "f", stride |-> 1],
     [array |-> <<1, 2>>, dtype |-> "i", stride |-> 1],
     [array |-> <<Half, Real(2)>>, dtype |-> "f", stride |-> 1]}
Rows ==
    {[nested |-> <<Floats(<<Half, Real(1)>>), Floats(<<Real(2), Real(3)>>)>>],
     [nested |-> <<Strs(<<"x">>), Strs(<<"y">>)>>],
     [array |-> <<Half, Real(2)>>, dtype |-> "f", stride |-> 2],
     [array |-> <<1, 0>>, dtype |-> "b", stride |-> 1],
     [array |-> <<1, 2, 3, 4>>, dtype |-> "i", stride |-> 2]}

GeometryInputs ==
    {Event("set_gprim_attrs", "attrs" :> ("size" :> v)) :
        v \in Scalars \union Lists \union Arrays \union Rows}
    \union {Event("set_gprim_attrs",
                ("attrs" :> [n \in {"size", "primvars:c"} |-> [int |-> 1]])
                @@ meta @@ interp @@ time) :
        meta \in Optional("primvar_meta",
            {NoKeys, "primvars:c" :> [typeName |-> "float"],
             "primvars:c" :> [typeName |-> "color3f", interpolation |-> "vertex"]}),
        interp \in Optional("attr_interp", {NoKeys, "primvars:c" :> "vertex"}),
        time \in Times}

ArcEntries ==
    Join(Join({"asset_path" :> "x.usd", "prim_path" :> "/A/B",
               [asset_path |-> "", prim_path |-> "/A/B"]},
              Optional("list_position", {"prepended", "deleted"})),
         {NoKeys, [layer_offset |-> Real(0), layer_scale |-> Real(1)],
          [layer_offset |-> Half, layer_scale |-> Real(0)]})
ArcInputs ==
    {Event("set_reference", "refs" :> <<e>>) :
        e \in ArcEntries \union {[asset_path |-> "x.usd", custom_data_fragment |-> "#prim"]}}
    \union {Event("set_payload", "payloads" :> <<e, [asset_path |-> "y.usd"]>>) :
        e \in ArcEntries}
    \union {Event("set_payload", ("payloads" :> <<>>) @@ x @@ y) :
        x \in Optional("list_op_explicit", BOOLEAN),
        y \in Optional("list_op_authored", BOOLEAN)}
    \union {Event("set_reference",
                [refs |-> <<[asset_path |-> "x.usd"] @@ p>>, list_op_explicit |-> TRUE]) :
        p \in Optional("list_position", {"explicit", "added"})}

ShadeInputs ==
    {Event("set_variant_selections", "selections" :> s) :
        s \in {NoKeys, "size" :> "s", [n \in {"size", "B"} |-> ""]}}
    \union {Event("set_material_binding", ("material_path" :> p) @@ x) :
        p \in {"", "/A/B"}, x \in Optional("material_purpose", {"", "a:b"})}
    \union {Event("set_connectable_input",
                ("info_id" :> "id") @@ ("inputs" :> ("size" :> v)) @@ types @@ time) :
        v \in Scalars \union Lists \union Arrays,
        types \in Optional("input_types", {NoKeys, "size" :> "float", "size" :> "int"}),
        time \in {NoKeys, "time" :> Half}}
    \union {Event("set_connectable_connection", ("connections" :> c) @@ d) :
        c \in {NoKeys,
               "inputs:i" :> [source_prim |-> "/A/B", source_attr |-> "outputs:o"]},
        d \in Optional("disconnections", {<<>>, <<"inputs:i">>})}
    \union {[k |-> "set_stage_metadata"] @@ m :
        m \in {"upAxis" :> "Y", "metersPerUnit" :> Half, "startTimeCode" :> Real(0),
               "framesPerSecond" :> Real(0),
               [n \in STAGE_METADATA_KEYS |-> IF n = "upAxis" THEN "Z" ELSE Half]}}

PointRows(x, w, dtype) == [rows |-> <<Vec(w, x), Vec(w, Real(1))>>, dtype |-> dtype]
Instances(f, dtype) ==
    CASE f = "prototypes" -> <<"/A/B">>
      [] f \in DOMAIN PointArrayWidth -> PointRows(Half, PointArrayWidth[f], dtype)
      [] OTHER -> [flat |-> <<0, 5>>, dtype |-> IF dtype = "f" THEN "i" ELSE dtype]
InstancerInputs ==
    {Event("set_point_instancer",
        ("fields" :> fields) @@ time @@ [f \in ToSet(fields) |-> Instances(f, dtype)]) :
        fields \in {POINT_INSTANCER_FIELDS} \union {<<f>> : f \in ToSet(POINT_INSTANCER_FIELDS)},
        dtype \in {"list", "f"}, time \in {NoKeys, "time" :> Half}}

SpecInputs ==
    {Event("erase_time_samples", [spec_path |-> "/A.x", times |-> t]) :
        t \in {<<>>, <<Half, Real(0)>>}}
    \union {[k |-> "set_sdf_spec_fields", prim |-> MCOwner[p], spec_path |-> p,
             spec_kind |-> kind, fields |-> fields, fragment |-> text,
             removed |-> gone] :
        p \in DOMAIN MCPaths, kind \in SDF_SPEC_KINDS,
        fields \in {<<>>, <<"x", "y">>}, text \in {"", "#prim", "#layer"},
        gone \in BOOLEAN}
SharedInputs ==
    {[k |-> "replace_sdf_layer_content", prim |-> "/", fragment |-> f] :
        f \in {"#layer", "#sub"}}
    \union {[k |-> "set_sublayers", prim |-> "/", generation |-> g, revision |-> n,
             sublayers |-> s] :
        g \in {"g"}, n \in {0, 1},
        s \in {<<>>, <<[authored_path |-> "a.usd"]>>,
               <<[authored_path |-> "a.usd", offset |-> Half, scale |-> Real(0),
                  layer_key |-> "key-a"], [authored_path |-> "b.usd"]>>,
               <<[authored_path |-> "a.usd", layer_key |-> "key-old"]>>}}

\* List operations with several buckets, written in any order, and what may
\* replace them.
ArcTo(path, position) == [asset_path |-> path, list_position |-> position]
MixedArcs ==
    {Event("set_reference",
        "refs" :> <<ArcTo("x.usd", p), [asset_path |-> "y.usd"], ArcTo("d\\x.usd", q)>>) :
        p \in ARC_LIST_POSITIONS \ {"explicit"}, q \in {"appended", "deleted", "added"}}
ArcReplacements ==
    {Event("set_reference", [refs |-> <<>>, list_op_authored |-> b, list_op_explicit |-> c]) :
        b \in BOOLEAN, c \in BOOLEAN}
    \union {Event("set_payload", "payloads" :> <<[asset_path |-> "d\\x.usd"]>>),
            Event("set_reference",
                "refs" :> <<[asset_path |-> "x.usd", custom_data_fragment |-> "#layer"]>>)}
-----------------------------------------------------------------------------
Client(id, origin, layer) ==
    [client_id |-> id, origin |-> origin, addr |-> "addr", layer |-> layer]
Ann == Client("ann", "dcc", "layer-1")
Bob == Client("bob", "", "layer-2")

Txn1(c, events, key) == [client |-> c, events |-> events, layer_key |-> key]
ManagedScripts ==
    {<<Txn1(Ann, <<ev>>, "")>> :
        ev \in PrimInputs \union GeometryInputs \union ArcInputs \union ShadeInputs
               \union InstancerInputs \union SpecInputs}
SharedScripts ==
    {<<Txn1(Bob, <<ev>>, "root")>> : ev \in SpecInputs}
    \union {<<Txn1(Ann, <<ev1>>, "root"), Txn1(Bob, <<ev2>>, "root")>> :
        ev1 \in SharedInputs, ev2 \in SharedInputs}

\* One client's list operation replaced by another's.
ArcScripts ==
    {<<Txn1(Ann, <<ev1>>, ""), Txn1(Bob, <<ev2>>, "")>> :
        ev1 \in MixedArcs, ev2 \in MixedArcs \union ArcReplacements}

\* Transforms that share the encoder's templates.
TransformScripts ==
    {<<Txn1(c1, <<ev1, ev2>>, ""), Txn1(c2, <<ev3>>, "")>> :
        c1 \in {Ann, Bob}, c2 \in {Ann, Bob},
        ev1 \in Transforms,
        ev2 \in {Transform(<<"t">>, Real(5), NoKeys)},
        ev3 \in Transforms}

Says(m) == <<[client |-> Ann, message |-> m]>>
HelloArguments ==
    Join(Join(Join([role : {"emitter", "receiver"}, layer_mode : {"managed", "shared_stage"}],
                   Optional("sync_from", {0, 1, 5})),
              Join(Optional("client_id", {"", "ann"}), Optional("department", {"anim"}))),
         Join(Optional("layered_replay", BOOLEAN),
              {NoKeys, [origin |-> "dcc", token |-> "t", producer_session_id |-> "p"]}))
Messages ==
    {MakeHello(a) : a \in {b \in HelloArguments : HelloAllowed(b)}}
    \union {MakeHello([role |-> "receiver", layer_mode |-> "managed", sync_from |-> 4])
            @@ [replay_server_instance |-> "srv", replay_epoch |-> e] : e \in {0, 2}}
    \union {[type |-> "hello_ok", layer_mode |-> mode_] @@ x @@ y @@ z :
        mode_ \in {"managed", "shared_stage"},
        x \in Optional("replay_epoch", {0, 3}),
        y \in {NoKeys, [replay_identity |-> TRUE, server_instance |-> "srv",
                        token |-> "t", committed_through |-> 4]},
        z \in Optional("stage_metadata", {NoKeys, [startTimeCode |-> Real(0)],
                        [upAxis |-> "Z", metersPerUnit |-> Half]})}
    \union {[type |-> "hello_rejected", code |-> c, reason |-> "no"] :
        c \in ToSet(HelloRejectionCode)}
    \union {[type |-> "auth_rejected"], [type |-> "auth_rejected", reason |-> "no"]}
    \union {MakeTransactionResult(1, s, e, c, r, k) :
        s \in {"acknowledged", "rejected"}, e \in {0, 2},
        c \in DOMAIN TRANSACTION_REJECTION_TO_FB, r \in {"", "no"},
        k \in {None, [epoch |-> 0, head_seq |-> 0], [epoch |-> 1, head_seq |-> 9]}}
    \union {MakeReplayComplete(h, e) : h \in {0, 3}, e \in {0, 1}}
    \union {[type |-> t] : t \in {"resync", "compact", "ping", "quit"}}
    \union {[type |-> "rate_limited", retry_after |-> x] : x \in {Real(0), Half}}
    \union {MakeClaimPlayback("ann", t) : t \in {None, Real(0), Half}}
    \union {[type |-> "playback_claimed", leader_client_id |-> "ann"],
            [type |-> "playback_rejected", reason |-> "no", current_leader_client_id |-> "bob"]}
    \union {MakePlaybackControl(a, t, r) :
        a \in {"play", "set_time", "set_rate"}, t \in {None, Real(0)}, r \in {None, Real(0), Half}}
    \union {[type |-> "playback_state", time |-> t, playing |-> p, rate |-> r] :
        t \in {Real(0), Half}, p \in BOOLEAN, r \in {Real(0), Real(1)}}
    \union {[type |-> "layer_stack_state", generation |-> "g", revision |-> n, layers |-> l] :
        n \in {0, 2}, l \in {<<>>, <<[layer_key |-> "a"],
                             [layer_key |-> "b", label |-> "B", muted |-> TRUE]>>}}
    \union {[type |-> "layer_graph_state", seq |-> n, generation |-> "g", revision |-> n,
             root_layer_key |-> "root", layers |-> l] :
        n \in {0, 3},
        l \in {<<>>, <<[layer_key |-> "root", revision |-> 1,
                        sublayers |-> <<[authored_path |-> "a.usd", layer_key |-> "key-a"]>>],
                       [layer_key |-> "key-a", revision |-> 0, sublayers |-> <<>>]>>}}

\* Transactions no one checked.
RawTransactions ==
    {MakeTxn(<<ev>>, "", 1) :
        ev \in {Event("rename_prim", "new_name" :> "no name"),
                Event("set_visibility", [visible |-> TRUE, time |-> NaN]),
                [k |-> "ensure_xform_ops", prim |-> "/A.x"]}}

MCScripts ==
    ManagedScripts \union ArcScripts \union SharedScripts \union TransformScripts
    \union {Says(m) : m \in Messages \union RawTransactions}
=============================================================================
