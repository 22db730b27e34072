----------------------------- MODULE NativeScene -----------------------------
(* A Blender host beside the server's log: what the user edits is captured   *)
(* into an author stage, turned into events and sent                         *)
(* (integrations/blender/capture.py, emitter.py), and what others commit is  *)
(* applied to a layered mirror stage, projected and written into the scene   *)
(* (receiver_addon.py, dispatcher.py, composed_projection.py,                *)
(* blender_adapter.py).  Both halves work on the same Blender objects, on    *)
(* one thread, and both see each other's changes as callbacks.               *)
(*                                                                           *)
(* Delivery to the log is ProducerLink's subject and delivery from it        *)
(* ReceiverSync's: here an outbox commits in order and the receiver reads    *)
(* the log in order.  Blender calls depsgraph handlers for tagged objects at *)
(* any later time, but after a user's operator and before the next timer.    *)
EXTENDS Integers, Sequences, FiniteSetsExt, SequencesExt

CONSTANTS
    Order,        \* the objects' prim paths, in path order
    InBase,       \* those the base layer of the session defines
    Types,        \* prim types
    Values,       \* transforms; 0 is the identity
    Capacity,     \* batches the sender's outbox holds
    Scenarios     \* the other layer's place, the objects that are edited, and how
                  \* often each thing happens

Objects == Range(Order)
Rare == {"edit", "remote", "failure", "purge", "offline", "operator"}

ASSUME SceneAssumption ==
    /\ InBase \subseteq Objects
    /\ Types # {} /\ {"none", "over"} \cap Types = {}
    /\ 0 \in Values /\ Values \subseteq Nat
    /\ Capacity \in Nat \ {0}
    /\ \A s \in Scenarios : /\ s.others \in {"strong", "weak"} /\ s.edited \subseteq Objects
                           /\ s.left \in [Rare -> Nat]

Nil == -1

VARIABLES
    \* the server's log, and a rewrite of it the receiver has not seen
    log, rewritten,
    \* receiver: mirror layers, their last delivered state, cursor, timer
    live, prev, needsFull, lastSeq, receiving,
    \* Blender: objects, and those a depsgraph callback is due for
    native, tagged,
    \* BlenderStageAuthor: _last_matrix, _prim_refs, the session layer
    capturing, baseline, refs, authored,
    \* NoticeEmitter and EventSender
    emitter, online, outbox,
    \* history: last own values in the log, what the user changed and no
    \* callback has seen, what the receiver changed without a new baseline,
    \* what the user deleted, what the named exceptions cover
    mine, touched, unsettled, erased, excused,
    others, edited, left

receiverVars == <<live, prev, needsFull, lastSeq, receiving>>
authorVars == <<capturing, baseline, refs, authored>>
senderVars == <<emitter, online, outbox>>
historyVars == <<mine, touched, unsettled, erased, excused>>
vars == <<log, rewritten, receiverVars, native, tagged, authorVars, senderVars,
          historyVars, others, edited, left>>

Spend(what) == left[what] > 0 /\ left' = [left EXCEPT ![what] = @ - 1]

-----------------------------------------------------------------------------
(* Logical layers and what they compose to. *)

Layers == {"strong", "own", "weak"}
Blank == [type |-> "none", x |-> Nil, act |-> "none"]
NoLayers == [l \in Layers |-> [o \in Objects |-> Blank]]
BaseSpec(o) == IF o \in InBase
               THEN [type |-> CHOOSE t \in Types : TRUE, x |-> 0, act |-> "none"]
               ELSE Blank

\* Opinions on o, strongest first.
Opinions(m, o) == <<m["strong"][o], m["own"][o], m["weak"][o], BaseSpec(o)>>

\* The strongest opinion of a field, or its fallback.
Resolved(ops, field, none, fallback) ==
    LET given == SelectSeq(ops, LAMBDA s : s[field] \notin none)
    IN  IF given = <<>> THEN fallback ELSE Head(given)[field]

Valid(m, o) == \E i \in 1..4 : Opinions(m, o)[i].type # "none"
HasXform(m, o) == \E i \in 1..4 : Opinions(m, o)[i].x # Nil

Composed(m, o) ==
    LET ops == Opinions(m, o)
    IN  [valid |-> Valid(m, o),
         type  |-> Resolved(ops, "type", {"none", "over"}, "over"),
         x     |-> Resolved(ops, "x", {Nil}, 0),
         act   |-> Resolved(ops, "act", {"none"}, "on")]

\* A record of the log: kind, object, layer, payload, and whether its origin
\* is this host.
Record(k, o, layer, v, x) ==
    [k |-> k, o |-> o, layer |-> layer, v |-> v, x |-> x, own |-> layer = "own"]

\* Appliers of one record to a spec of its layer; those that write to a prim
\* leave it alone where nothing composes.
Over(s) == [s EXCEPT !.type = IF @ = "none" THEN "over" ELSE @]
ApplyEnsurePrim(s, r) == [s EXCEPT !.type = r.v]
ApplySetXformTrs(s, r) == [Over(s) EXCEPT !.x = r.x]
ApplyDeactivatePrim(s, r) == [Over(s) EXCEPT !.act = r.v]

ApplyRecord(m, r) ==
    LET s == m[r.layer][r.o]
    IN  [m EXCEPT ![r.layer][r.o] =
            CASE r.k = "define" -> ApplyEnsurePrim(s, r)
              [] r.k = "delete" -> Blank
              [] r.k = "set" /\ Valid(m, r.o) -> ApplySetXformTrs(s, r)
              [] r.k = "active" /\ Valid(m, r.o) -> ApplyDeactivatePrim(s, r)
              [] OTHER -> s]

ApplyRecords(m, rs) ==
    LET after[i \in 0..Len(rs)] ==
            IF i = 0 THEN m ELSE ApplyRecord(after[i - 1], rs[i])
    IN  after[Len(rs)]

-----------------------------------------------------------------------------
(* ComposedChangeProjection: native events for a batch of records, from the *)
(* difference between the delivered state p and the live state l.  scope is *)
(* "batch", or "full" after a failure, or "reset" after a rewrite.          *)

OfObject(rs, o) == {r \in Range(rs) : r.o = o}

\* Plausible bug: own records are not written back, as nothing seems to change.
ReapplyNever(rs, scope, o) == scope # "batch"

\* Records of this host are written back to undo masked edits.
Reapplied(rs, scope, o) == scope # "batch" \/ \E r \in OfObject(rs, o) : r.own

\* Paths whose prim-level state is compared: notices of a resync.
Resynced(rs, scope, o) == scope # "batch" \/ \E r \in OfObject(rs, o) : r.k # "set"

\* A local definition or removal that another layer masks: the native object
\* is made again as composition has it.
LocalRebuild(rs, scope, o, after) ==
    LET life == SelectSeq(rs, LAMBDA r : r.o = o /\ r.k \in {"define", "delete"})
        asked == SelectSeq(life, LAMBDA r : r.k = "define")
    IN  /\ scope # "reset" /\ life # <<>> /\ \E r \in OfObject(rs, o) : r.own
        /\ asked = <<>> \/ Last(asked).v # after.type

Lifecycle(rs, scope, o, before, after) ==
    IF ~(Resynced(rs, scope, o) \/ OfObject(rs, o) # {}) THEN "none"
    ELSE IF ~after.valid THEN IF before.valid THEN "delete" ELSE "none"
    ELSE IF before.valid /\ (before.type # after.type \/ LocalRebuild(rs, scope, o, after))
         THEN "rebuild"
    ELSE IF scope = "reset" \/ ~before.valid THEN "ensure" ELSE "none"

XformChanged(rs, scope, o, p, l) ==
    /\ Valid(l, o)
    /\ \/ \E r \in OfObject(rs, o) : r.k = "set"
       \/ Resynced(rs, scope, o) /\ (HasXform(l, o) \/ HasXform(p, o))
    /\ \/ Reapplied(rs, scope, o)
       \/ ~Valid(p, o) \/ Composed(p, o).x # Composed(l, o).x

ActiveChanged(rs, scope, o, p, l) ==
    /\ Valid(l, o) /\ Resynced(rs, scope, o)
    /\ Valid(p, o) \/ Composed(l, o).act = "off"
    /\ \/ Reapplied(rs, scope, o)
       \/ ~Valid(p, o) \/ Composed(p, o).act # Composed(l, o).act

Native(k, o, v, x) == [k |-> k, o |-> o, v |-> v, x |-> x]

\* build_events: rebuilt prims, new ones, removed ones, transforms, activity,
\* each in path order.
Slots(kinds) ==
    FlattenSeq([i \in DOMAIN Order |->
                    [j \in DOMAIN kinds |-> [kind |-> kinds[j], o |-> Order[i]]]])

Agenda == Slots(<<"clear", "remake">>) \o Slots(<<"ensure">>) \o Slots(<<"delete">>)
              \o Slots(<<"set">>) \o Slots(<<"active">>)

BuildEvents(rs, scope, p, l) ==
    LET before == [o \in Objects |-> Composed(p, o)]
        after == [o \in Objects |-> Composed(l, o)]
        cycle == [o \in Objects |-> Lifecycle(rs, scope, o, before[o], after[o])]
        Needed(s) == CASE s.kind \in {"clear", "remake"} -> cycle[s.o] = "rebuild"
                       [] s.kind = "set" -> XformChanged(rs, scope, s.o, p, l)
                       [] s.kind = "active" -> ActiveChanged(rs, scope, s.o, p, l)
                       [] OTHER -> cycle[s.o] = s.kind
        Event(s) == CASE s.kind \in {"remake", "ensure"} ->
                            Native("ensure", s.o, after[s.o].type, 0)
                      [] s.kind \in {"clear", "delete"} -> Native("delete", s.o, "", 0)
                      [] s.kind = "set" -> Native("set", s.o, "", after[s.o].x)
                      [] s.kind = "active" -> Native("active", s.o, after[s.o].act, 0)
        needed == SelectSeq(Agenda, Needed)
    IN  [i \in DOMAIN needed |-> Event(needed[i])]

-----------------------------------------------------------------------------
(* BlenderAdapter: native events on Blender objects. *)

Absent == [alive |-> FALSE, x |-> 0, hidden |-> FALSE, imported |-> FALSE]

EnsurePrim(obj) ==
    IF obj.alive THEN obj ELSE [alive |-> TRUE, x |-> 0, hidden |-> FALSE, imported |-> TRUE]
SetXformTrs(obj, x) == IF obj.alive THEN [obj EXCEPT !.x = x] ELSE obj
DeletePrim(obj) == Absent
DeactivatePrim(obj, active) == IF obj.alive THEN [obj EXCEPT !.hidden = ~active] ELSE obj

AdapterStep(n, e) ==
    [n EXCEPT ![e.o] = CASE e.k = "ensure" -> EnsurePrim(@)
                         [] e.k = "delete" -> DeletePrim(@)
                         [] e.k = "set" -> SetXformTrs(@, e.x)
                         [] e.k = "active" -> DeactivatePrim(@, e.v = "on")]

AdapterApply(n, events) ==
    LET after[i \in 0..Len(events)] ==
            IF i = 0 THEN n ELSE AdapterStep(after[i - 1], events[i])
    IN  after[Len(events)]

-----------------------------------------------------------------------------
(* NoticeEmitter: dirty prims become one batch, kept until it is sent. *)

\* _build_deactivation_events
Deactivations(em, o) ==
    IF o \in em.deact THEN <<Record("active", o, "own", "off", 0)>> ELSE <<>>

\* _purge_caches: a deactivated prim is forgotten, its pending edits too.
Purged(em) ==
    [em EXCEPT !.deact = {}, !.dirty = @ \ em.deact, !.known = @ \ em.deact,
               !.cache = [o \in Objects |-> IF o \in em.deact THEN Nil ELSE @[o]]]

\* _build_prim_structure_events: a definition on the first encounter.
StructureEvents(em, au, o) ==
    IF o \notin em.known /\ au[o].type \in Types
    THEN <<Record("define", o, "own", au[o].type, 0)>> ELSE <<>>

\* _build_default_xform_event: the transform if it is not the one sent last.
XformEvents(em, au, o) ==
    IF au[o].x # em.cache[o] THEN <<Record("set", o, "own", "", au[o].x)>> ELSE <<>>

\* _build_dirty_prim_events
DirtyEvents(em, au, o) ==
    IF o \in em.dirty THEN StructureEvents(em, au, o) \o XformEvents(em, au, o) ELSE <<>>

\* _build_events_for_dirty
Build(em, au) ==
    LET kept == Purged(em)
        ForEach(Events(_)) == FlattenSeq([i \in DOMAIN Order |-> Events(Order[i])])
    IN  [kept EXCEPT
            !.dirty = {}, !.known = @ \cup kept.dirty,
            !.cache = [o \in Objects |-> IF o \in kept.dirty THEN au[o].x ELSE @[o]],
            !.prepared = ForEach(LAMBDA o : Deactivations(em, o))
                         \o ForEach(LAMBDA o : DirtyEvents(kept, au, o))]

\* Plausible bug: every attempt builds anew and the unsent batch is lost.
PrepareAfresh(em, au) == Build(em, au)

\* prepare_events_for_send
Prepare(em, au) == IF em.prepared # <<>> THEN em ELSE Build(em, au)

\* mark_prepared_events_sent
Released(em) == [em EXCEPT !.prepared = <<>>]

\* _try_send_dirty_events: nothing without a socket; a batch the outbox has
\* no room for stays prepared.
TrySend(em, au) ==
    LET ready == Prepare(em, au)
        owned == ready.prepared # <<>> /\ Len(outbox) < Capacity
    IN  IF ~online THEN emitter' = em /\ UNCHANGED outbox
        ELSE /\ emitter' = IF owned THEN Released(ready) ELSE ready
             /\ outbox' = IF owned THEN Append(outbox, ready.prepared) ELSE outbox

\* Dirty prims this leaves without an event: edited back to what the emitter
\* sent last.
Swallowed(em, au) ==
    {o \in Purged(em).dirty :
        online /\ em.prepared = <<>> /\ DirtyEvents(em, au, o) = <<>>}

NewEmitter == [dirty |-> {}, deact |-> {}, known |-> {},
               cache |-> [o \in Objects |-> Nil], prepared |-> <<>>]

-----------------------------------------------------------------------------
(* BlenderStageAuthor. *)

AuthorValid(o) == o \in InBase \/ authored[o].type # "none"

\* A local object nobody else has heard of.
Unpublished(o) == native[o].alive /\ ~native[o].imported /\ ~AuthorValid(o)

\* A tagged object is captured when its matrix differs from the last one, or
\* when it is a local object the stage does not have yet.
Captured(o) ==
    /\ o \in tagged /\ native[o].alive
    /\ ~(native[o].imported /\ baseline[o] = Nil /\ ~AuthorValid(o))
    /\ baseline[o] # native[o].x \/ Unpublished(o)

\* _detect_deletions: tracked references that no longer resolve.
Deleted(o) == o \in refs /\ ~native[o].alive

\* _ensure_local_prim: a definition, or an override of what others define.
LocalType(o) ==
    IF authored[o].type # "none" THEN authored[o].type
    ELSE IF o \in InBase \/ native[o].imported THEN "over"
    ELSE CHOOSE t \in Types : TRUE

AuthorXform(o) == [authored[o] EXCEPT !.type = LocalType(o), !.x = native[o].x]
AuthorDeletion(o) == [Over(authored[o]) EXCEPT !.act = "off"]

AuthoredAfter(o) ==
    IF Deleted(o) THEN AuthorDeletion(o)
    ELSE IF Captured(o) THEN AuthorXform(o) ELSE authored[o]

\* _record_prim_resync: prims that authoring made inactive.
Deactivated == {o \in Objects : Deleted(o) /\ authored[o].act # "off"}

\* _on_changed: the notices of that authoring.
Noticed(em) ==
    [em EXCEPT !.deact = @ \cup Deactivated,
               !.dirty = @ \cup {o \in Objects : Captured(o) /\ AuthorXform(o) # authored[o]}]

\* _depsgraph_handler and on_depsgraph_update; within the coalescing interval
\* nothing is sent.
Callback(sending) ==
    /\ capturing /\ tagged # {}
    /\ authored' = [o \in Objects |-> AuthoredAfter(o)]
    /\ IF sending THEN TrySend(Noticed(emitter), authored')
       ELSE emitter' = Noticed(emitter) /\ UNCHANGED outbox
    /\ refs' = {o \in refs \cup tagged : native[o].alive}
    /\ baseline' = [o \in Objects |-> IF o \in tagged /\ native[o].alive
                                      THEN native[o].x ELSE baseline[o]]
    /\ tagged' = {}
    /\ unsettled' = unsettled \ (tagged \cup {o \in Objects : Deleted(o)})
    /\ touched' = touched \ (tagged \cup {o \in Objects : Deleted(o)})
    /\ excused' = excused
            \cup (IF sending THEN Swallowed(Noticed(emitter), authored') ELSE {})
            \cup {o \in touched \cap tagged : /\ native[o].alive
                                        /\ \/ authored[o].act = "off"
                                           \/ Captured(o) /\ AuthorXform(o) = authored[o]}
    /\ UNCHANGED <<log, rewritten, receiverVars, native, capturing, online, mine,
                   erased, others, edited, left>>

\* The same callback after a frame change, or without a handler.
IgnoredCallback ==
    /\ tagged # {}
    /\ capturing => Spend("operator")
    /\ ~capturing => UNCHANGED left
    /\ tagged' = {}
    /\ UNCHANGED <<log, rewritten, receiverVars, native, authorVars, senderVars,
                   historyVars, others, edited>>

\* Blender runs no timer between an operator and its depsgraph callback.
Evaluated == touched \cap tagged = {}

\* _timer_tick: deactivations alone do not make it send.
TimerTick ==
    /\ capturing /\ Evaluated
    /\ emitter.dirty # {} \/ emitter.prepared # <<>>
    /\ TrySend(emitter, authored)
    /\ <<emitter', outbox'>> # <<emitter, outbox>>
    /\ excused' = excused \cup Swallowed(emitter, authored)
    /\ UNCHANGED <<log, rewritten, receiverVars, native, tagged, authorVars, online,
                   mine, touched, unsettled, erased, others, edited, left>>

-----------------------------------------------------------------------------
(* The user, who edits Blender objects. *)

Move(o) ==
    /\ native[o].alive /\ Spend("edit")
    /\ \E v \in Values \ {native[o].x} : native' = [native EXCEPT ![o].x = v]
    /\ tagged' = tagged \cup {o} /\ touched' = touched \cup {o}
    /\ UNCHANGED <<log, rewritten, receiverVars, authorVars, senderVars, mine,
                   unsettled, erased, excused, others, edited>>

Erase(o) ==
    /\ native[o].alive /\ Spend("edit")
    /\ native' = [native EXCEPT ![o].alive = FALSE]
    /\ tagged' = tagged \ {o}
    /\ touched' = touched \cup {o} /\ erased' = erased \cup {o}
    /\ UNCHANGED <<log, rewritten, receiverVars, authorVars, senderVars, mine,
                   unsettled, excused, others, edited>>

\* Undo of the deletion: the object is as it was then.
Undo(o) ==
    /\ o \in erased /\ Spend("operator")
    /\ native' = [native EXCEPT ![o].alive = TRUE]
    /\ tagged' = tagged \cup {o}
    /\ touched' = touched \cup {o} /\ erased' = erased \ {o}
    /\ excused' = excused \cup {o}
    /\ UNCHANGED <<log, rewritten, receiverVars, authorVars, senderVars, mine,
                   unsettled, others, edited>>

\* Selection, constraints, a moved parent: an update without a new matrix.
Touch(o) ==
    /\ native[o].alive /\ o \notin tagged
    /\ tagged' = tagged \cup {o}
    /\ UNCHANGED <<log, rewritten, receiverVars, native, authorVars, senderVars,
                   historyVars, others, edited, left>>

-----------------------------------------------------------------------------
(* The receiver's timer, under the feedback guard. *)

\* What a drained batch of k records makes of the mirror: the layers and the
\* delivered state it starts from, the layers it ends with, native events.
Start == IF rewritten THEN 0 ELSE lastSeq
Batch(k) == SubSeq(log, Start + 1, Start + k)
Scope == IF rewritten THEN "reset" ELSE IF needsFull THEN "full" ELSE "batch"
Delivered == IF rewritten THEN live ELSE prev
LiveAfter(k) == ApplyRecords(IF rewritten THEN NoLayers ELSE live, Batch(k))
EventsOf(k, m) == BuildEvents(Batch(k), Scope, Delivered, m)

Drainable(k) == /\ receiving /\ Evaluated
                /\ k \in 0..(Len(log) - Start) /\ (k > 0 \/ rewritten)

\* advance_after_delivery
PrevAfter(k) == IF Scope = "batch" THEN ApplyRecords(prev, Batch(k)) ELSE LiveAfter(k)

\* Plausible bug: delayed callbacks meet the old baseline.
RefreshNothing(events) == {}

\* refresh_transform_baselines_after_remote_apply
Refreshed(events) == {e.o : e \in {d \in Range(events) : d.k \in {"ensure", "set"}}}

\* What a viewer sees of an object, and whether it is what m composes to.
Seen(there, active, x) == IF there /\ active THEN x ELSE Nil
Shows(n, m, o) ==
    LET want == Composed(m, o)
    IN  Seen(n[o].alive, ~n[o].hidden, n[o].x) = Seen(want.valid, want.act = "on", want.x)

Agrees(obj, want) ==
    obj.alive = want.valid /\ obj.x = want.x /\ obj.hidden = (want.act = "off")

\* What the log up to sequence n composes to.
Replay(n) == ApplyRecords(NoLayers, SubSeq(log, 1, n))

\* Objects made again for a new type: a transform or inactivity that did not
\* change is not written again.
Rebuilt(events) ==
    {o \in Objects : {"delete", "ensure"} \subseteq {e.k : e \in {d \in Range(events) : d.o = o}}}

\* _apply_received_events_timer
Receive(k) ==
    /\ Drainable(k)
    /\ \E m \in {LiveAfter(k)} : \E events \in {EventsOf(k, m)} :
       \E after \in {AdapterApply(native, events)} :
       LET fresh == {o \in Refreshed(events) : capturing /\ after[o].alive}
       IN  /\ native' = after
           /\ tagged' = {o \in tagged \cup {e.o : e \in Range(events)} : after[o].alive}
           /\ baseline' = [o \in Objects |-> IF o \in fresh THEN after[o].x ELSE baseline[o]]
           /\ refs' = refs \cup fresh
           /\ unsettled' = (unsettled \ fresh) \cup
                           {o \in refs : native[o].alive /\ ~after[o].alive}
           /\ touched' = touched \ fresh
           /\ erased' = {o \in erased : ~after[o].alive}
           /\ excused' = {o \in excused \cup Rebuilt(events) :
                            m # Replay(Start + k) \/ ~Agrees(after[o], Composed(m, o))}
           /\ live' = m
    /\ prev' = PrevAfter(k)
    /\ needsFull' = FALSE /\ rewritten' = FALSE
    /\ lastSeq' = Start + k
    /\ UNCHANGED <<log, receiving, capturing, authored, senderVars, mine, others, edited, left>>

\* Records dropped because their prim did not exist are not when the batch is
\* applied again.
Unrepeatable(m, rs) ==
    {o \in Objects : \E l \in Layers : ApplyRecords(m, rs)[l][o] # m[l][o]}

\* An adapter call or a callback raises: part of the events were applied, no
\* baseline is refreshed, and Blender drops the timer.  (A failure while a
\* rewrite is followed is left to ReceiverSync.)
ReceiveFails(k) ==
    /\ Drainable(k) /\ ~rewritten /\ Spend("failure")
    /\ \E m \in {LiveAfter(k)} : \E all \in {EventsOf(k, m)} : \E cut \in 0..Len(all) :
       LET events == SubSeq(all, 1, cut)
       IN  \E after \in {AdapterApply(native, events)} :
            /\ native' = after
            /\ tagged' = {o \in tagged \cup {e.o : e \in Range(events)} : after[o].alive}
            /\ unsettled' = unsettled \cup {e.o : e \in Range(events)}
            /\ erased' = {o \in erased : ~after[o].alive}
            /\ excused' = excused \cup Unrepeatable(m, Batch(k)) \cup
                    {o \in Objects : \/ native[o].alive # after[o].alive
                                    \/ /\ native[o].hidden # after[o].hidden
                                       /\ ~Valid(Delivered, o)}
            /\ live' = m
    /\ needsFull' = TRUE /\ receiving' = FALSE
    /\ UNCHANGED <<log, rewritten, prev, lastSeq, authorVars, senderVars, mine, touched,
                   others, edited>>

\* USD_CONNECT_OT_stop_receiver and USD_CONNECT_OT_start_receiver: the mirror
\* is used again from the cursor.
RestartReceiver ==
    /\ ~receiving /\ receiving' = TRUE
    /\ UNCHANGED <<log, rewritten, live, prev, needsFull, lastSeq, native, tagged,
                   authorVars, senderVars, historyVars, others, edited, left>>

-----------------------------------------------------------------------------
(* The emitter's connection, and the log. *)

OwnObjects(batches) == {r.o : r \in UNION {Range(b) : b \in Range(batches)}}

\* USD_CONNECT_OT_disconnect_emitter: author and emitter are dropped.
DisconnectEmitter ==
    /\ capturing /\ Spend("operator")
    /\ capturing' = FALSE /\ online' = FALSE
    /\ baseline' = [o \in Objects |-> Nil] /\ refs' = {}
    /\ authored' = [o \in Objects |-> Blank]
    /\ emitter' = NewEmitter
    /\ excused' = excused \cup emitter.dirty \cup emitter.deact
                          \cup OwnObjects(<<emitter.prepared>>)
    /\ UNCHANGED <<log, rewritten, receiverVars, native, tagged, outbox, mine, touched,
                   unsettled, erased, others, edited>>

\* USD_CONNECT_OT_connect_emitter: what the scene shows is the baseline.
ConnectEmitter ==
    /\ ~capturing /\ Evaluated
    /\ capturing' = TRUE /\ online' = TRUE
    /\ baseline' = [o \in Objects |-> IF native[o].alive THEN native[o].x ELSE Nil]
    /\ excused' = excused \cup touched
    /\ touched' = {}
    /\ UNCHANGED <<log, rewritten, receiverVars, native, tagged, refs, authored, emitter,
                   outbox, mine, unsettled, erased, others, edited, left>>

LoseConnection ==
    /\ online /\ Spend("offline") /\ online' = FALSE
    /\ UNCHANGED <<log, rewritten, receiverVars, native, tagged, authorVars, emitter,
                   outbox, historyVars, others, edited>>

Reconnect ==
    /\ capturing /\ ~online /\ online' = TRUE
    /\ UNCHANGED <<log, rewritten, receiverVars, native, tagged, authorVars, emitter,
                   outbox, historyVars, others, edited, left>>

\* The last own values after a batch.
After(values, batch) ==
    LET Latest(o, k) == SelectLastInSeq(batch, LAMBDA r : r.o = o /\ r.k = k)
        Newer(o, k, field, old) == IF Latest(o, k) = 0 THEN old ELSE batch[Latest(o, k)][field]
    IN  [o \in Objects |-> [x   |-> Newer(o, "set", "x", values[o].x),
                            act |-> Newer(o, "active", "v", values[o].act)]]

Commit ==
    /\ online /\ outbox # <<>>
    /\ log' = log \o Head(outbox) /\ outbox' = Tail(outbox)
    /\ mine' = After(mine, Head(outbox))
    /\ UNCHANGED <<rewritten, receiverVars, native, tagged, authorVars, emitter, online,
                   touched, unsettled, erased, excused, others, edited, left>>

\* Another client commits a record in its layer.
RemoteCommit ==
    /\ Spend("remote")
    /\ \E o \in edited :
        \E r \in {Record("delete", o, others, "", 0)}
                 \cup {Record("define", o, others, t, 0) : t \in Types}
                 \cup {Record("set", o, others, "", v) : v \in Values}
                 \cup {Record("active", o, others, a, 0) : a \in {"on", "off"}} :
            log' = Append(log, r)
    /\ UNCHANGED <<rewritten, receiverVars, native, tagged, authorVars, senderVars,
                   historyVars, others, edited>>

\* The history is purged; receivers are told to start from nothing.
Purge ==
    /\ Spend("purge")
    /\ log' = <<>> /\ rewritten' = TRUE /\ lastSeq' = 0
    /\ excused' = excused \cup {log[i].o : i \in {j \in Start + 1..Len(log) : log[j].own}}
    /\ UNCHANGED <<live, prev, needsFull, receiving, native, tagged, authorVars,
                   senderVars, mine, touched, unsettled, erased, others, edited>>

-----------------------------------------------------------------------------
Init ==
    /\ log = <<>> /\ rewritten = FALSE
    /\ live = NoLayers /\ prev = NoLayers
    /\ needsFull = FALSE /\ lastSeq = 0 /\ receiving = TRUE
    /\ native \in {n \in [Objects -> {Absent, [Absent EXCEPT !.alive = TRUE],
                                      [Absent EXCEPT !.alive = TRUE, !.imported = TRUE]}] :
                     \A o \in Objects : n[o].imported = (o \in InBase)}
    /\ tagged = {} /\ capturing = TRUE
    /\ baseline = [o \in Objects |-> IF native[o].alive THEN 0 ELSE Nil]
    /\ refs = {} /\ authored = [o \in Objects |-> Blank]
    /\ emitter = NewEmitter /\ online = TRUE /\ outbox = <<>>
    /\ mine = [o \in Objects |-> [x |-> Nil, act |-> "on"]]
    /\ touched = {} /\ unsettled = {} /\ erased = {} /\ excused = {}
    /\ \E s \in Scenarios : others = s.others /\ edited = s.edited /\ left = s.left

User == \E o \in edited : Move(o) \/ Erase(o) \/ Undo(o) \/ Touch(o)
Capture == (\E sending \in BOOLEAN : Callback(sending)) \/ IgnoredCallback \/ TimerTick
Receiver == \/ \E k \in 0..Len(log) : Receive(k) \/ ReceiveFails(k)
            \/ RestartReceiver
Link == DisconnectEmitter \/ ConnectEmitter \/ LoseConnection \/ Reconnect \/ Commit
Next == User \/ Capture \/ Receiver \/ Link \/ RemoteCommit \/ Purge

Spec == Init /\ [][Next]_vars

-----------------------------------------------------------------------------
(* Properties. *)

\* Nothing the receiver writes into Blender comes back as a local edit: an
\* object is authored only if the user changed it since the last callback
\* (or it is a local object the stage does not have yet), although callbacks
\* for received changes arrive after the feedback guard was lifted.
\* Exceptions are objects a failed application changed and tracked objects
\* the receiver deleted.
NoEcho ==
    [][\A o \in Objects : authored'[o] # authored[o] /\ capturing' /\ capturing
            => o \in touched \cup unsettled \/ Unpublished(o)]_vars

\* What was captured is never lost between the author stage and the log, over
\* coalescing, lost connections and a full outbox: a value of the stage is the
\* last own value in log, outbox and prepared batch, or its prim is dirty.
EditsKept ==
    LET sent == After(mine, FlattenSeq(Append(outbox, emitter.prepared)))
    IN  \A o \in Objects :
            /\ authored[o].act = "off" => sent[o].act = "off" \/ o \in emitter.deact
            /\ authored[o].x \notin {Nil, sent[o].x} =>
                    o \in emitter.dirty \/ authored[o].act = "off"

\* A local edit of o that is not yet in the log.
Outstanding(o) ==
    \/ o \in touched \cup emitter.dirty \cup emitter.deact \/ Unpublished(o)
    \/ o \in OwnObjects(Append(outbox, emitter.prepared))

\* A receiver that has reached the end of the log shows in Blender what the
\* log composes to, but for local edits on their way: masked edits are undone,
\* failed applications repaired, rewrites of the history followed.
ShownIsDelivered ==
    LET delivered == Replay(Len(log))
    IN  lastSeq = Len(log) /\ ~needsFull /\ ~rewritten =>
            \A o \in Objects \ (erased \cup excused) :
                Outstanding(o) \/ Shows(native, delivered, o)

=============================================================================
