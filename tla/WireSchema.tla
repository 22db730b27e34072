---------------------------- MODULE WireSchema ----------------------------
(***************************************************************************)
(* The FlatBuffers tables every message and every stored event is made of: *)
(* openusdconnect/generated/messages_generated.py.  A table type is the    *)
(* sequence of its slots; slot i lies at vtable offset 2 + 2 * i, and that *)
(* offset is what the hand-written readers of codec.py address.  A table   *)
(* on the wire is a function from the offsets it stores to their values: a *)
(* scalar equal to its default is not stored, and reading it back yields   *)
(* the default of the reader.                                              *)
(*                                                                         *)
(* A number is written in half steps of the float32 grid: 2 * n is the     *)
(* number n, and an odd number a double that lies between two floats.      *)
(***************************************************************************)
EXTENDS Integers, Sequences

CONSTANT None       \* Python's None: no value, an absent table or string

Real(n) == 2 * n

\* What a double becomes when it is stored as a float32.
Narrow(x) == x - (x % 2)

Slot(n, default, absent, single) ==
    [name |-> n, default |-> default, absent |-> absent, single |-> single]

\* A scalar is left out when it has its default; an offset never is.
Scalar(n, default) == Slot(n, default, default, FALSE)
Single(n, default) == Slot(n, default, default, TRUE)
Ref(n)             == Slot(n, None, None, FALSE)
Vector(n)          == Slot(n, None, <<>>, FALSE)

IndexOf(T, n) == CHOOSE i \in DOMAIN T : T[i].name = n
OffsetOf(T, n) == 2 + 2 * IndexOf(T, n)

Stored(s, v) == IF s.single THEN Narrow(v) ELSE v

\* Start, the Add calls (from slot names to values) and End of one table.
Build(T, adds) ==
    LET kept == {i \in DOMAIN T : T[i].name \in DOMAIN adds
                                     /\ adds[T[i].name] # T[i].default}
    IN  [o \in {2 + 2 * i : i \in kept} |->
            Stored(T[(o - 2) \div 2], adds[T[(o - 2) \div 2].name])]

\* The accessor of slot n.
Get(T, w, n) ==
    LET o == OffsetOf(T, n)
    IN  IF o \in DOMAIN w THEN w[o] ELSE T[IndexOf(T, n)].absent

-----------------------------------------------------------------------------
\* The enumerations; a member stands for its position.

AttrValueType ==
    <<"None", "ScalarFloat", "ScalarInt", "ScalarBool", "ScalarString",
      "FloatArray", "IntArray", "StringVal", "NestedList">>

ArcListPosition ==
    <<"Explicit", "Added", "Prepended", "Appended", "Deleted", "Ordered">>

ConnectableInputValueType ==
    <<"None", "ScalarFloat", "ScalarInt", "ScalarBool", "ScalarString",
      "FloatArray", "IntArray", "StringArray">>

SdfSpecKind ==
    <<"Layer", "Prim", "Attribute", "Relationship", "VariantSet", "Variant",
      "Property">>

EventPayload ==
    <<"NONE", "EnsurePrim", "EnsureXformOps", "SetXformTrs", "DeletePrim",
      "DeactivatePrim", "RenamePrim", "SetVisibility", "SetGprimAttrs",
      "SetReference", "SetPayload", "LoadPayload", "UnloadPayload",
      "SetVariantSelections", "SetMaterialBinding", "SetConnectableInput",
      "SetConnectableConnection", "SetStageMetadata", "SetInstanceable",
      "SetPointInstancer", "SetSdfSpecFields", "ReplaceSdfLayerContent",
      "SetSublayers", "EraseTimeSamples">>

LayerMode == <<"Managed", "SharedStage">>

HelloRejectionCode ==
    <<"Unspecified", "LayeredReplayRequired", "LayerModeMismatch">>

TransactionStatus == <<"Acknowledged", "Rejected">>

TransactionRejectionCode ==
    <<"None", "InvalidIdentity", "UnexpectedId", "StaleLayerGraph",
      "InvalidTransaction">>

Payload ==
    <<"NONE", "Hello", "HelloOk", "AuthRejected", "Txn", "BroadcastEvent",
      "Resync", "Compact", "Ping", "Quit", "RateLimited", "ClaimPlayback",
      "PlaybackClaimed", "PlaybackRejected", "PlaybackControl", "PlaybackState",
      "LayerStackState", "HelloRejected", "LayerGraphState", "TransactionResult",
      "ReplayComplete">>


-----------------------------------------------------------------------------
\* The tables.

AttrValue ==
    <<Scalar("ValueType", AttrValueType[1]), Single("ScalarFloat", Real(0)),
      Scalar("ScalarInt", 0), Scalar("ScalarBool", FALSE), Ref("ScalarString"),
      Vector("FloatArray"), Vector("IntArray"), Ref("NestedJson"),
      Scalar("Stride", 1)>>

PrimvarMeta == <<Ref("AttrName"), Ref("TypeName"), Ref("Interpolation")>>

AttrInterp == <<Ref("AttrName"), Ref("Interpolation")>>

NamedAttr == <<Ref("Name"), Ref("Value")>>

ArcEntry ==
    <<Ref("AssetPath"), Ref("PrimPath"),
      Scalar("ListPosition", ArcListPosition[3]), Scalar("LayerOffset", Real(0)),
      Scalar("LayerScale", Real(1)), Ref("CustomDataFragment")>>

SublayerEntry ==
    <<Ref("AuthoredPath"), Scalar("Offset", Real(0)), Scalar("Scale", Real(1)),
      Ref("LayerKey")>>

Connection == <<Ref("LocalAttr"), Ref("SourcePrim"), Ref("SourceAttr")>>

StringPair == <<Ref("Key"), Ref("Value")>>

ConnectableInputValue ==
    <<Ref("Name"), Ref("TypeName"),
      Scalar("ValueType", ConnectableInputValueType[1]),
      Single("ScalarFloat", Real(0)), Scalar("ScalarInt", 0),
      Scalar("ScalarBool", FALSE), Ref("ScalarString"), Vector("FloatArray"),
      Vector("IntArray"), Vector("StringArray")>>

EnsurePrim == <<Ref("Prim"), Ref("TypeName"), Vector("ApiSchemas")>>

EnsureXformOps == <<Ref("Prim")>>

SetXformTrs ==
    <<Ref("Prim"), Scalar("Fields", 0), Vector("T"), Vector("R"), Vector("S"),
      Scalar("Time", None)>>

DeletePrim == <<Ref("Prim")>>

DeactivatePrim == <<Ref("Prim"), Scalar("Active", TRUE)>>

RenamePrim == <<Ref("Prim"), Ref("NewName")>>

SetVisibility == <<Ref("Prim"), Scalar("Visible", FALSE), Scalar("Time", None)>>

SetGprimAttrs ==
    <<Ref("Prim"), Vector("Attrs"), Vector("PrimvarMeta"), Vector("AttrInterp"),
      Scalar("Time", None)>>

SetReference ==
    <<Ref("Prim"), Vector("Refs"), Scalar("ListOpAuthored", FALSE),
      Scalar("ListOpExplicit", FALSE)>>

SetPayload ==
    <<Ref("Prim"), Vector("Payloads"), Scalar("ListOpAuthored", FALSE),
      Scalar("ListOpExplicit", FALSE)>>

LoadPayload == <<Ref("Prim")>>

UnloadPayload == <<Ref("Prim")>>

SetVariantSelections == <<Ref("Prim"), Vector("Selections")>>

SetMaterialBinding == <<Ref("Prim"), Ref("MaterialPath"), Ref("MaterialPurpose")>>

SetConnectableInput ==
    <<Ref("Prim"), Ref("InfoId"), Vector("Inputs"), Scalar("Time", None)>>

SetConnectableConnection ==
    <<Ref("Prim"), Vector("Connections"), Vector("Disconnections")>>

SetInstanceable == <<Ref("Prim"), Scalar("Instanceable", TRUE)>>

InstancerRelations ==
    <<Ref("Prim"), Scalar("Fields", 0), Vector("Prototypes"),
      Vector("ProtoIndices"), Vector("Positions")>>

InstancerArrays ==
    <<Vector("Orientations"), Vector("Scales"), Vector("Velocities"),
      Vector("Accelerations"), Vector("AngularVelocities")>>

InstancerIdentity ==
    <<Vector("Ids"), Vector("InvisibleIds"), Scalar("Time", None),
      Vector("InactiveIds")>>

SetPointInstancer == InstancerRelations \o InstancerArrays \o InstancerIdentity

SetSdfSpecFields ==
    <<Ref("Prim"), Ref("SpecPath"), Scalar("SpecKind", SdfSpecKind[1]),
      Vector("Fields"), Ref("Fragment"), Scalar("Removed", FALSE)>>

EraseTimeSamples == <<Ref("Prim"), Ref("SpecPath"), Vector("Times")>>

ReplaceSdfLayerContent == <<Ref("Prim"), Ref("Fragment")>>

SetSublayers ==
    <<Ref("Prim"), Ref("Generation"), Scalar("Revision", 0), Vector("Sublayers")>>

SetStageMetadata ==
    <<Scalar("TimeCodesPerSecond", None), Scalar("FramesPerSecond", None),
      Scalar("StartTimeCode", None), Scalar("EndTimeCode", None),
      Scalar("MetersPerUnit", None), Ref("UpAxis")>>

EventWrapper == <<Scalar("EventType", EventPayload[1]), Ref("Event")>>

Hello ==
    <<Ref("Role"), Scalar("ProtocolVersion", 0), Scalar("SyncFrom", 0),
      Ref("ClientId"), Ref("Origin"), Ref("Department"), Ref("Token"),
      Scalar("LayeredReplay", FALSE), Scalar("LayerMode", LayerMode[1]),
      Ref("ProducerSessionId"), Ref("ReplayServerInstance"),
      Scalar("ReplayEpoch", None)>>

HelloOk ==
    <<Ref("Token"), Ref("StageMetadata"), Scalar("LayeredReplay", FALSE),
      Scalar("LayerMode", LayerMode[1]), Scalar("CommittedThrough", 0),
      Ref("ServerInstance"), Scalar("ReplayIdentity", FALSE),
      Scalar("ReplayEpoch", None)>>

AuthRejected == <<Ref("Reason")>>

HelloRejected == <<Scalar("Code", HelloRejectionCode[1]), Ref("Reason")>>

Txn == <<Vector("Events"), Ref("LayerKey"), Scalar("TxnId", 0)>>

TransactionCheckpoint == <<Scalar("Epoch", 0), Scalar("HeadSeq", 0)>>

TransactionResult ==
    <<Scalar("TxnId", 0), Scalar("Status", TransactionStatus[1]),
      Scalar("ExpectedTxnId", 0),
      Scalar("RejectionCode", TransactionRejectionCode[1]), Ref("Reason"),
      Ref("Checkpoint")>>

ReplayComplete == <<Scalar("HeadSeq", 0), Scalar("Epoch", 0)>>

BroadcastEvent ==
    <<Scalar("Seq", 0), Ref("Event"), Ref("Origin"), Ref("ClientId"),
      Ref("Client"), Ref("LayerKey")>>

Resync == <<>>

Compact == <<>>

Ping == <<>>

Quit == <<>>

RateLimited == <<Single("RetryAfter", Real(0))>>

ClaimPlayback == <<Ref("ClientId"), Scalar("Time", None)>>

PlaybackClaimed == <<Ref("LeaderClientId")>>

PlaybackRejected == <<Ref("Reason"), Ref("CurrentLeaderClientId")>>

PlaybackControl == <<Ref("Action"), Scalar("Time", None), Scalar("Rate", None)>>

PlaybackState ==
    <<Scalar("Time", Real(0)), Scalar("Playing", FALSE), Scalar("Rate", Real(0)),
      Ref("LeaderClientId")>>

LogicalLayerState == <<Ref("LayerKey"), Scalar("Muted", FALSE), Ref("Label")>>

LayerStackState == <<Ref("Generation"), Scalar("Revision", 0), Vector("Layers")>>

SharedLayerState == <<Ref("LayerKey"), Vector("Sublayers"), Scalar("Revision", 0)>>

LayerGraphState ==
    <<Scalar("Seq", 0), Ref("Generation"), Scalar("Revision", 0),
      Ref("RootLayerKey"), Vector("Layers")>>

Envelope ==
    <<Scalar("PayloadType", Payload[1]), Ref("Payload"),
      Scalar("SchemaVersion", 0)>>

=============================================================================
