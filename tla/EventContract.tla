--------------------------- MODULE EventContract ---------------------------
(***************************************************************************)
(* The dictionary contract of the protocol: the kinds of event and their   *)
(* keys (events.py, protocol_constants.py), the admission checks that both *)
(* the producer and the server run on a transaction                        *)
(* (protocol_validation.py), and the form two dictionaries share when they *)
(* say the same thing.                                                     *)
(*                                                                         *)
(* An event is a record with the keys its dictionary has.  A value that    *)
(* may have one of several Python types carries its type as the name of    *)
(* its field: [bool |-> b], [int |-> n], [float |-> x], [str |-> s], a     *)
(* numpy scalar [numpy |-> x], [list |-> scalars], a list of lists         *)
(* [nested |-> rows], and [array |-> numbers, dtype |-> d, stride |-> n].  *)
(* What Sdf accepts as a path, a name, a type or a fragment is given by    *)
(* the constants.                                                          *)
(***************************************************************************)
EXTENDS WireSchema, FiniteSets, SequencesExt

CONSTANTS
    NaN,            \* a number that is not finite
    Paths,          \* from path strings to "prim", "root", "property", ...
    Owner,          \* from property paths to the prim path that owns them
    Identifiers,    \* strings Sdf accepts as an identifier
    Namespaced,     \* strings Sdf accepts as a namespaced identifier
    TypeNames,      \* strings Sdf knows as a value type
    Qualified,      \* "inputs:" and "outputs:" attribute names
    Fragments       \* from USDA text Sdf can import to what it holds: the
                    \* specs, as <<path, kind>>, and whether it has sublayers

\* dict.get(k, d)
DictGet(m, k, d) == IF k \in DOMAIN m THEN m[k] ELSE d
Given(m, k) == DictGet(m, k, None) # None
Filled(m, k, d) == IF Given(m, k) THEN m[k] ELSE d

IsA(v, type) == type \in DOMAIN v

-----------------------------------------------------------------------------
\* The kinds.

EventKindInfo(projection, modes, flags, target) ==
    [projection |-> projection, modes |-> modes, flags |-> flags,
     target |-> target]

Managed == {"managed"}
SharedOnly == {"shared_stage"}
Value(projection) ==
    EventKindInfo(projection, Managed, {}, "collaboration_layer")
Structural(flags) ==
    EventKindInfo("project", Managed, {"structural"} \union flags,
                  "collaboration_layer")
StageState(flags) ==
    EventKindInfo("direct", Managed, {"structural", "stage_sync"} \union flags,
                  "stage_state")
FieldRouted ==
    EventKindInfo("field_routed", Managed \union SharedOnly,
                  {"structural", "stage_sync"}, "collaboration_layer")
Topology ==
    EventKindInfo("direct", SharedOnly, {"structural", "stage_sync"},
                  "collaboration_layer")

EVENT_KIND_INFO ==
    [erase_time_samples         |-> FieldRouted,
     ensure_prim                |-> Structural({"create"}),
     ensure_xform_ops           |-> Structural({}),
     set_xform_trs              |-> Value("project"),
     delete_prim                |-> Value("project"),
     deactivate_prim            |-> Value("project"),
     rename_prim                |-> Value("project"),
     set_visibility             |-> Value("project"),
     set_gprim_attrs            |-> Value("project"),
     set_reference              |-> Structural({"stage_sync", "arc", "imports"}),
     set_payload                |-> Structural({"stage_sync", "arc"}),
     load_payload               |-> StageState({"imports"}),
     unload_payload             |-> StageState({}),
     set_variant_selections     |-> Structural({"stage_sync", "arc"}),
     set_material_binding       |-> Structural({"stage_sync"}),
     set_connectable_input      |-> Structural({"stage_sync"}),
     set_connectable_connection |-> Structural({"stage_sync"}),
     set_stage_metadata         |->
        EventKindInfo("direct", Managed, {"create", "structural", "stage_sync"},
                      "session_layer"),
     set_instanceable           |-> Structural({"stage_sync"}),
     set_point_instancer        |-> Value("project"),
     set_sdf_spec_fields        |-> FieldRouted,
     replace_sdf_layer_content  |-> Topology,
     set_sublayers              |-> Topology]

EVENT_KEYS == DOMAIN EVENT_KIND_INFO

SDF_SPEC_KINDS ==
    {"layer", "prim", "attribute", "relationship", "variant_set", "variant",
     "property"}
ARC_LIST_POSITIONS ==
    {"explicit", "added", "prepended", "appended", "deleted", "ordered"}
TRS_FIELDS == {"t", "r", "s"}

\* In the order of their bits.
POINT_INSTANCER_FIELDS ==
    <<"prototypes", "proto_indices", "positions", "orientations", "scales",
      "velocities", "accelerations", "angular_velocities", "ids",
      "invisible_ids", "inactive_ids">>
STAGE_METADATA_KEYS ==
    {"timeCodesPerSecond", "framesPerSecond", "startTimeCode", "endTimeCode",
     "metersPerUnit", "upAxis"}

-----------------------------------------------------------------------------
\* The keys of each kind, with what an absent optional key stands for.

Shape(required, optional) == [required |-> required, optional |-> optional]
NoKeys == <<>>
Timed == [time |-> None]
AllAbsent(keys) == [key \in keys |-> None]
ArcFlags == [list_op_explicit |-> FALSE, list_op_authored |-> None]

PrimEvents ==
    [ensure_prim |-> Shape({"prim", "typeName"}, [api_schemas |-> <<>>]),
     ensure_xform_ops |-> Shape({"prim"}, NoKeys),
     set_xform_trs |-> Shape({"prim", "fields"}, AllAbsent(TRS_FIELDS) @@ Timed),
     delete_prim |-> Shape({"prim"}, NoKeys),
     deactivate_prim |-> Shape({"prim", "active"}, NoKeys),
     rename_prim |-> Shape({"prim", "new_name"}, NoKeys),
     set_visibility |-> Shape({"prim", "visible"}, Timed)]

ContentEvents ==
    [set_gprim_attrs |->
        Shape({"prim", "attrs"},
              [primvar_meta |-> NoKeys, attr_interp |-> NoKeys] @@ Timed),
     set_reference |-> Shape({"prim", "refs"}, ArcFlags),
     set_payload |-> Shape({"prim", "payloads"}, ArcFlags),
     load_payload |-> Shape({"prim"}, NoKeys),
     unload_payload |-> Shape({"prim"}, NoKeys),
     set_variant_selections |-> Shape({"prim", "selections"}, NoKeys)]

ShadeEvents ==
    [set_material_binding |->
        Shape({"prim", "material_path"}, [material_purpose |-> ""]),
     set_connectable_input |->
        Shape({"prim", "info_id", "inputs"}, [input_types |-> NoKeys] @@ Timed),
     set_connectable_connection |->
        Shape({"prim", "connections"}, [disconnections |-> <<>>]),
     set_stage_metadata |-> Shape({}, AllAbsent(STAGE_METADATA_KEYS)),
     set_instanceable |-> Shape({"prim", "instanceable"}, NoKeys)]

ExactEvents ==
    [set_point_instancer |->
        Shape({"prim", "fields"},
              AllAbsent(ToSet(POINT_INSTANCER_FIELDS)) @@ Timed),
     set_sdf_spec_fields |->
        Shape({"prim", "spec_path", "spec_kind", "fields", "fragment", "removed"},
              NoKeys),
     erase_time_samples |-> Shape({"prim", "spec_path", "times"}, NoKeys),
     replace_sdf_layer_content |-> Shape({"prim", "fragment"}, NoKeys),
     set_sublayers |->
        Shape({"prim", "generation", "revision", "sublayers"}, NoKeys)]

EventShapes == PrimEvents @@ ContentEvents @@ ShadeEvents @@ ExactEvents

-----------------------------------------------------------------------------
\* What a dictionary says.  Two events say the same thing when they have the
\* same meaning; the numbers of geometry, transforms and inputs are compared
\* as the float32 they are everywhere stored as, all others exactly.

IsNumber(v) == IsA(v, "int") \/ IsA(v, "float")
NumberOf(v) == IF IsA(v, "int") THEN Real(v.int) ELSE v.float
Singles(s) == [i \in DOMAIN s |-> Narrow(s[i])]

\* An arc entry with its defaults filled in.
ArcMeaning(entry, explicit) ==
    [asset_path           |-> Filled(entry, "asset_path", ""),
     prim_path            |-> Filled(entry, "prim_path", ""),
     list_position        |-> DictGet(entry, "list_position",
                                  IF explicit THEN "explicit" ELSE "prepended"),
     layer_offset         |-> Filled(entry, "layer_offset", Real(0)),
     layer_scale          |-> Filled(entry, "layer_scale", Real(1)),
     custom_data_fragment |-> Filled(entry, "custom_data_fragment", "")]

SublayerMeaning(entry) ==
    [authored_path |-> entry.authored_path,
     offset        |-> DictGet(entry, "offset", Real(0)),
     scale         |-> DictGet(entry, "scale", Real(1)),
     layer_key     |-> Filled(entry, "layer_key", "")]

Numbers(s, width) == [numbers |-> Singles(s), width |-> width]

\* The scalars keep their type; a numeric list, a list of numeric rows and a
\* numeric array are their numbers and the width of a row.
ValueMeaning(v) ==
    CASE IsA(v, "float") -> [float |-> Narrow(v.float)]
      [] IsA(v, "list") /\ v.list # <<>> /\ \A i \in DOMAIN v.list : IsNumber(v.list[i]) ->
            Numbers([i \in DOMAIN v.list |-> NumberOf(v.list[i])], 1)
      [] IsA(v, "nested") /\ v.nested[1] # <<>> /\ IsNumber(v.nested[1][1]) ->
            LET flat == FlattenSeq(v.nested)
            IN  Numbers([i \in DOMAIN flat |-> NumberOf(flat[i])], Len(v.nested[1]))
      [] IsA(v, "array") /\ v.array # <<>> /\ v.dtype = "f" -> Numbers(v.array, v.stride)
      [] IsA(v, "array") /\ v.array # <<>> /\ v.dtype = "i" ->
            Numbers([i \in DOMAIN v.array |-> Real(v.array[i])], v.stride)
      [] IsA(v, "array") /\ v.array = <<>> -> [list |-> <<>>]
      [] IsA(v, "array") /\ v.array # <<>> /\ v.dtype = "b" ->
            [list |-> [i \in DOMAIN v.array |-> [bool |-> v.array[i] = 1]]]
      [] OTHER -> v

\* An input's declared type decides whether a number is a float.
FLOAT_WIRE_TYPES ==
    {"float", "double", "float2", "float3", "float4", "double2", "double3",
     "double4", "color3f", "color3d", "color4f", "normal3f", "normal3d",
     "point3f", "point3d", "vector3f", "vector3d", "texCoord2f", "matrix2d",
     "matrix3d", "matrix4d", "float[]"}
InputMeaning(v, type) ==
    IF IsA(v, "int") /\ type \in FLOAT_WIRE_TYPES
    THEN [float |-> Real(v.int)]
    ELSE ValueMeaning(v)

KeyMeaning(ev, key, v) ==
    CASE key = "fields" /\ ev.k # "set_sdf_spec_fields" -> ToSet(v)
      [] key \in TRS_FIELDS /\ v # None -> Singles(v)
      [] key \in ToSet(POINT_INSTANCER_FIELDS) \ {"prototypes"} /\ v # None ->
            IF IsA(v, "rows") THEN Singles(FlattenSeq(v.rows)) ELSE v.flat
      [] key = "attrs" -> [n \in DOMAIN v |-> ValueMeaning(v[n])]
      [] key = "inputs" ->
            [n \in DOMAIN v |->
                InputMeaning(v[n], DictGet(DictGet(ev, "input_types", NoKeys), n, ""))]
      [] key = "input_types" -> [n \in DOMAIN ev.inputs |-> DictGet(v, n, "")]
      [] key = "primvar_meta" ->
            [n \in DOMAIN v |-> [typeName |-> v[n].typeName,
                                 interpolation |-> Filled(v[n], "interpolation", "")]]
      [] key \in {"refs", "payloads"} ->
            [i \in DOMAIN v |->
                ArcMeaning(v[i], DictGet(ev, "list_op_explicit", FALSE))]
      [] key = "list_op_authored" /\ v = None ->
            \/ ev[IF ev.k = "set_reference" THEN "refs" ELSE "payloads"] # <<>>
            \/ DictGet(ev, "list_op_explicit", FALSE)
      [] key = "sublayers" -> [i \in DOMAIN v |-> SublayerMeaning(v[i])]
      [] OTHER -> v

Meaning(ev) ==
    LET shape == EventShapes[ev.k]
    IN  [k |-> ev.k] @@
        [key \in shape.required \union DOMAIN shape.optional |->
            KeyMeaning(ev, key,
                IF key \in shape.required THEN ev[key]
                ELSE Filled(ev, key, shape.optional[key]))]
-----------------------------------------------------------------------------
\* Admission: what protocol_validation.py lets through.  The checks that a key
\* holds a string, a list or a dictionary are the types of the records.

IsFinite(x) == x # NaN
AllFinite(s) == \A i \in DOMAIN s : IsFinite(s[i])
OptionalTime(ev) == Given(ev, "time") => IsFinite(ev.time)

PathIs(p, kind) == p \in DOMAIN Paths /\ Paths[p] = kind
IsPrimPath(p) == PathIs(p, "prim")

\* A field list names each field once, and exactly the fields supplied.
FieldsMatch(ev, allowed) ==
    /\ ev.fields # <<>>
    /\ Cardinality(ToSet(ev.fields)) = Len(ev.fields)
    /\ ToSet(ev.fields) = {f \in allowed : f \in DOMAIN ev}

ValidateEnsurePrim(ev) ==
    /\ "typeName" \in DOMAIN ev
    /\ ToSet(Filled(ev, "api_schemas", <<>>)) \subseteq Namespaced

ValidateXform(ev) ==
    /\ FieldsMatch(ev, TRS_FIELDS)
    /\ \A f \in ToSet(ev.fields) :
          Len(ev[f]) = (IF f = "r" THEN 4 ELSE 3) /\ AllFinite(ev[f])
    /\ OptionalTime(ev)

FiniteValue(v) == IsA(v, "float") => IsFinite(v.float)

\* Lists are admitted unseen, arrays by their element type.
ValidAttrValue(v) ==
    /\ FiniteValue(v)
    /\ IsA(v, "array") => v.dtype \in {"b", "i", "f", "S"}

ValidateGprimAttrs(ev) ==
    LET meta == DictGet(ev, "primvar_meta", NoKeys)
    IN  /\ \A n \in DOMAIN ev.attrs : n \in Namespaced /\ ValidAttrValue(ev.attrs[n])
        /\ \A n \in DOMAIN meta : n \in Namespaced /\ meta[n].typeName \in TypeNames
        /\ OptionalTime(ev)

ValidateArcEntry(entry, explicit, references) ==
    LET asset == DictGet(entry, "asset_path", None)
        prim == DictGet(entry, "prim_path", None)
        position == ArcMeaning(entry, explicit).list_position
        fragment == DictGet(entry, "custom_data_fragment", None)
    IN  /\ asset # None \/ prim # None
        /\ asset = "" => prim # None
        /\ prim # None => IsPrimPath(prim)
        /\ position \in ARC_LIST_POSITIONS
        /\ explicit = (position = "explicit")
        /\ IsFinite(DictGet(entry, "layer_offset", Real(0)))
        /\ IsFinite(DictGet(entry, "layer_scale", Real(1)))
        /\ fragment # None => references /\ fragment \in DOMAIN Fragments

ValidateArcEvent(ev, key) ==
    LET arcs == ev[key]
        explicit == DictGet(ev, "list_op_explicit", FALSE)
        authored == DictGet(ev, "list_op_authored", arcs # <<>> \/ explicit)
    IN  /\ ~authored => arcs = <<>> /\ ~explicit
        /\ \A i \in DOMAIN arcs : ValidateArcEntry(arcs[i], explicit, key = "refs")

\* A selection is checked as the path /Prim{set=selection}.
ValidateVariants(ev) ==
    \A n \in DOMAIN ev.selections :
        n \in Identifiers /\ ev.selections[n] \in Identifiers \union {""}

ValidateMaterialBinding(ev) ==
    /\ ev.material_path = "" \/ IsPrimPath(ev.material_path)
    /\ Filled(ev, "material_purpose", "") \in Namespaced \union {""}

ValidConnectableValue(v) ==
    /\ FiniteValue(v)
    /\ IsA(v, "array") => v.stride = 1 /\ v.dtype \in {"b", "i", "f", "S"}
    /\ IsA(v, "list") =>
          \/ \A i \in DOMAIN v.list : IsA(v.list[i], "str")
          \/ \A i \in DOMAIN v.list : IsNumber(v.list[i]) /\ FiniteValue(v.list[i])
    /\ ~IsA(v, "nested")

ValidateConnectableInput(ev) ==
    LET types == DictGet(ev, "input_types", NoKeys)
    IN  /\ \A n \in DOMAIN ev.inputs :
              n \in Namespaced /\ ValidConnectableValue(ev.inputs[n])
        /\ DOMAIN types \subseteq DOMAIN ev.inputs
        /\ \A n \in DOMAIN types : types[n] \in TypeNames \union {""}
        /\ OptionalTime(ev)

ValidateConnectableConnections(ev) ==
    /\ \A n \in DOMAIN ev.connections :
          /\ n \in Qualified
          /\ IsPrimPath(ev.connections[n].source_prim)
          /\ ev.connections[n].source_attr \in Qualified
    /\ ToSet(DictGet(ev, "disconnections", <<>>)) \subseteq Qualified

ValidateStageMetadata(ev) ==
    LET present == STAGE_METADATA_KEYS \intersect DOMAIN ev
    IN  /\ present # {}
        /\ "upAxis" \in present => ev.upAxis \in {"Y", "Z"}
        /\ \A key \in present \ {"upAxis"} : IsFinite(ev[key])
        /\ \A key \in present \intersect
                {"timeCodesPerSecond", "framesPerSecond", "metersPerUnit"} :
              ev[key] > 0

PointArrayWidth ==
    [positions |-> 3, orientations |-> 4, scales |-> 3, velocities |-> 3,
     accelerations |-> 3, angular_velocities |-> 3]

RequireBulkArray(v, field) ==
    IF field \in DOMAIN PointArrayWidth
    THEN /\ IsA(v, "rows")
         /\ \A i \in DOMAIN v.rows : Len(v.rows[i]) = PointArrayWidth[field]
         /\ v.dtype \in {"list", "i", "f"}
         /\ v.dtype = "list" => \A i \in DOMAIN v.rows : AllFinite(v.rows[i])
    ELSE IsA(v, "flat") /\ v.dtype \in {"list", "i"}

ValidatePointInstancer(ev) ==
    LET present == ToSet(ev.fields)
    IN  /\ FieldsMatch(ev, ToSet(POINT_INSTANCER_FIELDS))
        /\ Given(ev, "time") => {"prototypes", "inactive_ids"} \intersect present = {}
        /\ "prototypes" \in present =>
              \A i \in DOMAIN ev.prototypes : IsPrimPath(ev.prototypes[i])
        /\ \A f \in present \ {"prototypes"} : RequireBulkArray(ev[f], f)
        /\ OptionalTime(ev)

ValidateEraseTimeSamples(ev) ==
    /\ PathIs(ev.spec_path, "property") \/ PathIs(ev.spec_path, "variant property")
    /\ ev.prim = Owner[ev.spec_path]
    /\ ev.times # <<>> /\ AllFinite(ev.times)

\* sdf_spec_delta.py: the kind agrees with the path, the pseudo-root stays,
\* and what is not removed comes with a fragment that holds the spec.
SpecPathOfKind ==
    [layer |-> {"root"}, prim |-> {"prim", "variant prim"},
     attribute |-> {"property", "variant property"},
     relationship |-> {"property", "variant property"},
     property |-> {"property", "variant property"},
     variant_set |-> {"variant set"}, variant |-> {"variant"}]

ValidateSdfSpecFields(ev) ==
    /\ ev.spec_kind \in SDF_SPEC_KINDS
    /\ ev.spec_path \in DOMAIN Paths
    /\ Paths[ev.spec_path] \in SpecPathOfKind[ev.spec_kind]
    /\ ev.prim = Owner[ev.spec_path]
    /\ "" \notin ToSet(ev.fields)
    /\ ev.spec_kind = "layer" =>
          ToSet(ev.fields) \intersect {"subLayers", "subLayerOffsets"} = {}
    /\ ev.removed => ev.spec_kind # "layer"
    /\ ~ev.removed =>
          /\ ev.spec_kind # "property"
          /\ ev.fragment \in DOMAIN Fragments
          /\ <<ev.spec_path, ev.spec_kind>> \in Fragments[ev.fragment].specs

ValidateLayerReplacement(ev) ==
    /\ ev.prim = "/"
    /\ ev.fragment \in DOMAIN Fragments
    /\ ~Fragments[ev.fragment].sublayers

ValidateSublayers(ev) ==
    /\ ev.prim = "/"
    /\ ev.generation # ""
    /\ ev.revision >= 0
    /\ \A i, j \in DOMAIN ev.sublayers :
          ev.sublayers[i].authored_path = ev.sublayers[j].authored_path => i = j
    /\ \A i \in DOMAIN ev.sublayers :
          /\ ev.sublayers[i].authored_path # ""
          /\ IsFinite(DictGet(ev.sublayers[i], "offset", Real(0)))
          /\ IsFinite(DictGet(ev.sublayers[i], "scale", Real(1)))

StageWide ==
    {"set_stage_metadata", "set_sdf_spec_fields", "replace_sdf_layer_content",
     "set_sublayers"}

ValidateEvent(ev, mode) ==
    /\ ev.k \in EVENT_KEYS
    /\ mode \in EVENT_KIND_INFO[ev.k].modes
    /\ ev.k \notin StageWide => IsPrimPath(DictGet(ev, "prim", None))
    /\ CASE ev.k = "ensure_prim" -> ValidateEnsurePrim(ev)
         [] ev.k = "set_xform_trs" -> ValidateXform(ev)
         [] ev.k = "rename_prim" -> ev.new_name \in Identifiers
         [] ev.k = "set_visibility" -> OptionalTime(ev)
         [] ev.k = "set_gprim_attrs" -> ValidateGprimAttrs(ev)
         [] ev.k = "set_reference" -> ValidateArcEvent(ev, "refs")
         [] ev.k = "set_payload" -> ValidateArcEvent(ev, "payloads")
         [] ev.k = "set_variant_selections" -> ValidateVariants(ev)
         [] ev.k = "set_material_binding" -> ValidateMaterialBinding(ev)
         [] ev.k = "set_connectable_input" -> ValidateConnectableInput(ev)
         [] ev.k = "set_connectable_connection" -> ValidateConnectableConnections(ev)
         [] ev.k = "set_stage_metadata" -> ValidateStageMetadata(ev)
         [] ev.k = "set_point_instancer" -> ValidatePointInstancer(ev)
         [] ev.k = "erase_time_samples" -> ValidateEraseTimeSamples(ev)
         [] ev.k = "set_sdf_spec_fields" -> ValidateSdfSpecFields(ev)
         [] ev.k = "replace_sdf_layer_content" -> ValidateLayerReplacement(ev)
         [] ev.k = "set_sublayers" -> ValidateSublayers(ev)
         [] OTHER -> TRUE

\* A transaction replaces a topology, and a layer's content, at most once.
ValidateEvents(events, mode) ==
    /\ events # <<>>
    /\ \A i \in DOMAIN events : ValidateEvent(events[i], mode)
    /\ mode = "shared_stage" =>
          \A i, j \in DOMAIN events :
              /\ events[i].k = events[j].k
              /\ events[i].k \in {"set_sublayers", "replace_sdf_layer_content"}
              => i = j
=============================================================================
