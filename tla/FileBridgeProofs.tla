-------------------------- MODULE FileBridgeProofs --------------------------
(***************************************************************************)
(* What the virtual file and its mirror promise for every set of edits and *)
(* every scenario: an accepted upload never takes an edit away from the    *)
(* live scene (NewerWorkKept), and a completed save is never lost          *)
(* (SavesSurvive).                                                         *)
(*                                                                         *)
(* The first rests on what a token says about bytes.  The scene has an age *)
(* <<epoch, Applied>> that only moves forward; bytes that carry the        *)
(* present age show the whole scene, and no bytes carry a later one.  The  *)
(* second rests on what the bridge believes: whatever it takes for         *)
(* synchronized is in the scene, so the only saves outside the scene are   *)
(* those the DCC still has.                                                *)
(***************************************************************************)
EXTENDS FileBridge, Integers, FiniteSetTheorems, TLAPS

-----------------------------------------------------------------------------
(* Types.                                                                   *)

Bodies == {S \in SUBSET Edits : IsFiniteSet(S)}
Tokens == Nat \X Nat
Files  == [kind : {"usd", "refused", "partial"}, tok : Tokens, body : Bodies]
Maybe  == Files \cup {Nil}

Exchanges ==
    [op : {"none", "GET", "HEAD", "PUT"},
     pc : {"idle", "lookup", "token", "flatten", "begin", "commit", "done"},
     need : {"none", "reply", "match", "write", "answer"},
     status : {"none", "ok", "conflict", "error", "lost"},
     ifMatch : Tokens, data : Maybe, tok : Tokens, same : BOOLEAN]

Memories == [etag : Tokens, synced : Maybe, pending : BOOLEAN, blocked : Maybe,
             recovery : Maybe]

Lates == [kind : {"late"}, data : Maybe, same : BOOLEAN]

Reservations == [kind : {"edit"}, edit : Edits]

SceneTypes ==
    /\ mode \in Modes /\ epoch \in Nat /\ seq \in Nat
    /\ scene \in Bodies
    /\ reserved \in Reservations \cup {Nil}
    /\ reserved # Nil => seq > 0

ExchangeTypes ==
    /\ cache \in Maybe
    /\ dav \in Exchanges
    /\ dav.pc \in {"lookup", "token", "flatten"} => dav.need # "none"
    /\ dav.pc = "done" => dav.status # "none"
    /\ late \in Lates \cup {Nil}

BridgeTypes ==
    /\ mem \in Memories
    /\ stored \in Memories \cup {Nil}
    /\ base \in Maybe

UserTypes ==
    /\ local \in Maybe /\ opened \in Maybe
    /\ opened # Nil => opened.kind # "partial"
    /\ user = "writing" => opened # Nil
    /\ saved \subseteq Saves

Types == SceneTypes /\ ExchangeTypes /\ BridgeTypes /\ UserTypes

-----------------------------------------------------------------------------
(* What tokens say.                                                         *)

\* The last sequence whose edit is on the stage.
Applied == seq - (IF reserved = Nil THEN 0 ELSE 1)

\* Bytes b against a scene sc of age <<ep, ap>>: they are not younger, and
\* if they are of its age they show all of it.
DatedAt(b, ep, ap, sc) ==
    b = Nil \/ b.kind = "partial" \/
        /\ b.tok[1] <= ep
        /\ b.tok[1] = ep => b.tok[2] <= ap
        /\ b.tok[1] = ep /\ b.tok[2] = ap => sc \subseteq b.body

Dated(b) == DatedAt(b, epoch, Applied, scene)

\* All bytes that can still reach the scene are dated, and so is the token
\* of a snapshot in the making.
Dates ==
    races = {} =>
        /\ Dated(cache) /\ Dated(dav.data)
        /\ Dated(local) /\ Dated(opened)
        /\ late # Nil => Dated(late.data)
        /\ dav.pc = "flatten" => dav.tok[1] <= epoch

-----------------------------------------------------------------------------
(* What the bridge believes.                                                *)

Body(b) == IF b = Nil THEN {} ELSE b.body

\* What the DCC still has and will not lose by loading the mirror.
Held == IF user = "writing" \/ local = opened THEN Body(opened) ELSE {}

\* The exchange has shown that its data are in the scene.
Backed ==
    \/ dav.pc = "done" /\ dav.status = "ok"
    \/ dav.need = "answer"
    \/ dav.pc = "commit" /\ dav.same

ServerShows ==
    /\ Body(cache) \subseteq scene
    /\ Backed => Body(dav.data) \subseteq scene

BridgeKnows ==
    /\ Body(mem.synced) \subseteq scene
    /\ stored # Nil => Body(stored.synced) \subseteq scene
    /\ pc = "put" => dav.need # "reply" /\ dav.data = base
    /\ pc = "head" /\ mem.blocked = Nil => Body(base) \subseteq scene
    /\ pc \in {"get", "refreshGet", "seedReplace", "replace", "refreshReplace"} =>
            Body(base) \subseteq scene
    /\ pc \in {"seedReplace", "replace", "refreshReplace"} =>
            dav.pc = "done" /\ Body(dav.data) \subseteq scene

SavesHeld == saved \subseteq scene \cup Held

Backing == mode = "translate" /\ races = {} => ServerShows /\ BridgeKnows /\ SavesHeld

FileInvariant == Types /\ Dates /\ Backing

-----------------------------------------------------------------------------
(* Facts about the records.                                                 *)

LEMMA FileIsNotNil ==
    ASSUME NEW b \in Files
    PROVE  b # Nil /\ b.kind \in {"usd", "refused", "partial"} /\ b.tok \in Tokens
           /\ b.body \in Bodies /\ Body(b) = b.body
<1>1. b.kind \in {"usd", "refused", "partial"} /\ b.tok \in Tokens /\ b.body \in Bodies
  BY DEF Files
<1>2. b.kind # Nil.kind
  BY <1>1 DEF Nil
<1> QED BY <1>1, <1>2 DEF Body

LEMMA OthersAreNotNil ==
    /\ \A m \in Memories : m # Nil
    /\ \A l \in Lates : l # Nil
    /\ \A r \in Reservations : r # Nil
<1>1. \A l \in Lates : l.kind = "late"
  BY DEF Lates
<1>2. \A r \in Reservations : r.kind = "edit"
  BY DEF Reservations
<1>3. \A m \in Memories : m # Nil
  <2> SUFFICES ASSUME NEW m \in Memories, m = Nil PROVE FALSE
    OBVIOUS
  <2>1. DOMAIN m = {"etag", "synced", "pending", "blocked", "recovery"}
    BY DEF Memories
  <2>2. DOMAIN Nil = {"kind"}
    BY DEF Nil
  <2> QED BY <2>1, <2>2
<1> QED BY <1>1, <1>2, <1>3 DEF Nil

LEMMA BytesAreAFile ==
    ASSUME NEW tok \in Tokens, NEW body \in Bodies, NEW kind \in {"usd", "refused", "partial"}
    PROVE  /\ Bytes(tok, body, kind) \in Files
           /\ Bytes(tok, body, kind).tok = tok
           /\ Bytes(tok, body, kind).body = body
           /\ Bytes(tok, body, kind).kind = kind
BY DEF Bytes, Files

LEMMA Growing ==
    ASSUME NEW S \in Bodies, NEW e \in Edits
    PROVE  S \cup {e} \in Bodies
BY FS_AddElement DEF Bodies

LEMMA NothingIsABody == {} \in Bodies
BY FS_EmptySet DEF Bodies

LEMMA IdleTyped == Idle \in Exchanges /\ Idle.pc = "idle" /\ Idle.data = Nil
                   /\ Idle.need = "none" /\ Idle.status = "none"
BY DEF Idle, Exchanges, Maybe, Tokens

LEMMA RequestTyped ==
    ASSUME NEW op \in {"GET", "HEAD", "PUT"}, NEW etag \in Tokens, NEW data \in Maybe
    PROVE  /\ Request(op, etag, data) \in Exchanges
           /\ Request(op, etag, data).pc = "lookup"
           /\ Request(op, etag, data).data = data
           /\ Request(op, etag, data).need = IF op = "PUT" THEN "match" ELSE "reply"
BY DEF Request, Idle, Exchanges, Tokens

LEMMA DoneTyped ==
    ASSUME dav \in Exchanges, NEW status \in {"ok", "conflict", "error", "lost"}
    PROVE  /\ Done(status) \in Exchanges
           /\ Done(status).pc = "done" /\ Done(status).status = status
           /\ Done(status).data = dav.data /\ Done(status).need = dav.need
           /\ Done(status).tok = dav.tok
BY DEF Done, Exchanges

\* What a request does with the snapshot it waited for (resource.get_etag,
\* begin_write, get_content): the fields that matter later.
LEMMA UseOfSnapshot ==
    ASSUME dav \in Exchanges, dav.need # "none", NEW s \in Files
    PROVE  /\ Use(s) \in Exchanges
           /\ Use(s).need = dav.need
           /\ Use(s).pc \in {"done", "begin", "commit"}
           /\ Use(s).pc = "done" => Use(s).status # "none"
           /\ Use(s).data = IF dav.need = "reply" THEN s ELSE dav.data
           /\ Use(s).pc = "commit" => Use(s).same = (dav.data = s)
           /\ Use(s).pc = "done" /\ Use(s).status = "ok" => dav.need \in {"reply", "answer"}
<1>1. s.tok \in Tokens /\ s \in Maybe
  BY FileIsNotNil DEF Maybe
<1>2. Done("ok") \in Exchanges
      /\ Done("ok").pc = "done" /\ Done("ok").status = "ok"
      /\ Done("ok").data = dav.data /\ Done("ok").need = dav.need
  BY DoneTyped
<1>3. CASE dav.need = "reply"
  <2>1. Use(s) = [Done("ok") EXCEPT !.tok = s.tok, !.data = s]
    BY <1>3 DEF Use
  <2> QED BY <1>1, <1>2, <1>3, <2>1 DEF Exchanges
<1>4. CASE dav.need = "match"
  <2>1. CASE dav.ifMatch # s.tok
    <3>1. Use(s) = Done("conflict")
      BY <1>4, <2>1 DEF Use
    <3> QED BY <3>1, <1>4, DoneTyped
  <2>2. CASE dav.ifMatch = s.tok
    <3>1. Use(s) = [dav EXCEPT !.pc = "begin"]
      BY <1>4, <2>2 DEF Use
    <3> QED BY <3>1, <1>4 DEF Exchanges
  <2> QED BY <2>1, <2>2
<1>5. CASE dav.need = "write"
  <2>1. Use(s) = [dav EXCEPT !.pc = "commit", !.same = dav.data = s]
    BY <1>5 DEF Use
  <2>2. (dav.data = s) \in BOOLEAN
    OBVIOUS
  <2> QED BY <2>1, <2>2, <1>5 DEF Exchanges
<1>6. CASE dav.need = "answer"
  <2>1. Use(s) = [Done("ok") EXCEPT !.tok = s.tok]
    BY <1>6 DEF Use
  <2> QED BY <1>1, <1>2, <1>6, <2>1 DEF Exchanges
<1>7. dav.need \in {"reply", "match", "write", "answer"}
  BY DEF Exchanges
<1> QED BY <1>3, <1>4, <1>5, <1>6, <1>7

-----------------------------------------------------------------------------
(* The age of the scene.                                                    *)

\* The scene grows older, or stays as it is.
Ages == \/ epoch' > epoch
        \/ epoch' = epoch /\ Applied' > Applied
        \/ epoch' = epoch /\ Applied' = Applied /\ scene' = scene

LEMMA AppliedIsNat == SceneTypes => Applied \in Nat
BY OthersAreNotNil DEF SceneTypes, Applied

LEMMA StaysDated ==
    ASSUME NEW ep \in Nat, NEW ap \in Nat, NEW sc, NEW ep2 \in Nat, NEW ap2 \in Nat, NEW sc2,
           NEW b \in Maybe, DatedAt(b, ep, ap, sc),
           \/ ep2 > ep
           \/ ep2 = ep /\ ap2 > ap
           \/ ep2 = ep /\ ap2 = ap /\ sc2 = sc
    PROVE  DatedAt(b, ep2, ap2, sc2)
<1>1. CASE b = Nil \/ b.kind = "partial"
  BY <1>1 DEF DatedAt
<1>2. CASE b # Nil /\ b.kind # "partial"
  <2>1. b.tok \in Tokens
    BY <1>2, FileIsNotNil DEF Maybe
  <2>2. PICK x, y \in Nat : x = b.tok[1] /\ y = b.tok[2]
    BY <2>1 DEF Tokens
  <2>3. x <= ep /\ (x = ep => y <= ap) /\ (x = ep /\ y = ap => sc \subseteq b.body)
    BY <1>2, <2>2 DEF DatedAt
  <2>4. x <= ep2 /\ (x = ep2 => y <= ap2) /\ (x = ep2 /\ y = ap2 => sc2 \subseteq b.body)
    BY <2>3
  <2> QED BY <2>2, <2>4 DEF DatedAt
<1> QED BY <1>1, <1>2

\* Bytes that are not touched stay dated while the scene grows older.
LEMMA UntouchedStaysDated ==
    ASSUME SceneTypes, SceneTypes', Ages, NEW b \in Maybe, Dated(b)
    PROVE  DatedAt(b, epoch', Applied', scene')
<1> PICK sc : sc = scene
  OBVIOUS
<1>1. PICK ep, ap \in Nat : ep = epoch /\ ap = Applied
  BY AppliedIsNat DEF SceneTypes
<1>2. Applied' \in Nat
  <2>1. seq' \in Nat /\ (reserved' # Nil => seq' > 0)
    BY DEF SceneTypes
  <2>2. Applied' = seq' - (IF reserved' = Nil THEN 0 ELSE 1)
    BY DEF Applied
  <2>3. PICK n \in Nat : n = seq'
    BY <2>1
  <2>4. n - 0 \in Nat /\ (n > 0 => n - 1 \in Nat)
    OBVIOUS
  <2> QED BY <2>1, <2>2, <2>3, <2>4
<1> PICK sc2 : sc2 = scene'
  OBVIOUS
<1>3. PICK ep2, ap2 \in Nat : ep2 = epoch' /\ ap2 = Applied'
  BY <1>2 DEF SceneTypes
<1>4. DatedAt(b, ep, ap, sc)
  BY <1>1 DEF Dated
<1>5. \/ ep2 > ep
      \/ ep2 = ep /\ ap2 > ap
      \/ ep2 = ep /\ ap2 = ap /\ sc2 = sc
  BY <1>1, <1>3 DEF Ages
<1>6. DatedAt(b, ep2, ap2, sc2)
  BY <1>4, <1>5, StaysDated
<1> QED BY <1>3, <1>6

-----------------------------------------------------------------------------
(* Steps of the server.                                                     *)

Elsewhere == UNCHANGED <<bridgeVars, userVars>>

\* An exchange whose data are an upload keeps them, and one that is answered
\* keeps its answer.
ExchangeKeeps ==
    /\ dav.need # "reply" => dav'.need # "reply" /\ dav'.data = dav.data
    /\ dav.pc = "done" => dav'.pc = "done" /\ dav'.data = dav.data

\* What a step of the server must not do to the bridge's knowledge.
LEMMA ServerKeepsBacking ==
    ASSUME Backing, Elsewhere, mode' = mode, ExchangeKeeps,
           races' = {} => races = {} /\ scene \subseteq scene',
           mode = "translate" /\ races' = {} => ServerShows'
    PROVE  Backing'
<1> SUFFICES ASSUME mode' = "translate", races' = {}
             PROVE  ServerShows' /\ BridgeKnows' /\ SavesHeld'
  BY DEF Backing
<1>1. /\ ServerShows /\ BridgeKnows /\ SavesHeld
      /\ scene \subseteq scene' /\ ServerShows'
  BY DEF Backing
<1>2. /\ mem' = mem /\ stored' = stored /\ pc' = pc /\ base' = base
      /\ local' = local /\ opened' = opened /\ user' = user /\ saved' = saved
  BY DEF Elsewhere, bridgeVars, userVars
<1>3. BridgeKnows'
  <2>1. /\ Body(mem.synced)' \subseteq scene'
        /\ stored' # Nil => Body(stored.synced)' \subseteq scene'
    BY <1>1, <1>2 DEF BridgeKnows, Body
  <2>2. pc' = "put" => dav'.need # "reply" /\ dav'.data = base'
    BY <1>1, <1>2 DEF BridgeKnows, ExchangeKeeps
  <2>3. /\ pc' = "head" /\ mem'.blocked = Nil => Body(base)' \subseteq scene'
        /\ pc' \in {"get", "refreshGet", "seedReplace", "replace", "refreshReplace"} =>
                Body(base)' \subseteq scene'
    BY <1>1, <1>2 DEF BridgeKnows, Body
  <2>4. pc' \in {"seedReplace", "replace", "refreshReplace"} =>
            dav'.pc = "done" /\ Body(dav.data)' \subseteq scene'
    BY <1>1, <1>2 DEF BridgeKnows, Body, ExchangeKeeps
  <2> QED BY <2>1, <2>2, <2>3, <2>4 DEF BridgeKnows
<1>4. SavesHeld'
  BY <1>1, <1>2 DEF SavesHeld, Held, Body
<1> QED BY <1>1, <1>3, <1>4

\* Live commits, maintenance and layers leave the exchanges alone: the scene
\* grows, and grows older.
LEMMA SceneGrows ==
    ASSUME FileInvariant, Elsewhere, SceneTypes', Ages, scene \subseteq scene',
           UNCHANGED <<mode, cache, dav, late, races>>
    PROVE  FileInvariant'
<1>1. Types /\ Dates /\ Backing
  BY DEF FileInvariant
<1>2. Types'
  BY <1>1 DEF Types, ExchangeTypes, BridgeTypes, UserTypes, Elsewhere, bridgeVars, userVars
<1>3. Dates'
  <2> SUFFICES ASSUME races = {} PROVE Dates'
    BY DEF Dates
  <2>1. /\ cache \in Maybe /\ dav.data \in Maybe /\ local \in Maybe /\ opened \in Maybe
        /\ late # Nil => late.data \in Maybe
    BY <1>1 DEF Types, ExchangeTypes, UserTypes, Exchanges, Lates
  <2>2. /\ Dated(cache) /\ Dated(dav.data) /\ Dated(local) /\ Dated(opened)
        /\ late # Nil => Dated(late.data)
        /\ dav.pc = "flatten" => dav.tok[1] <= epoch
    BY <1>1 DEF Dates
  <2>3. SceneTypes
    BY <1>1 DEF Types
  <2>4. \A b \in Maybe : Dated(b) => DatedAt(b, epoch', Applied', scene')
    BY <2>3, UntouchedStaysDated
  <2>5. /\ DatedAt(cache, epoch', Applied', scene')
        /\ DatedAt(dav.data, epoch', Applied', scene')
        /\ DatedAt(local, epoch', Applied', scene')
        /\ DatedAt(opened, epoch', Applied', scene')
        /\ late # Nil => DatedAt(late.data, epoch', Applied', scene')
    BY <2>1, <2>2, <2>4
  <2>6. /\ cache' = cache /\ dav' = dav /\ local' = local /\ opened' = opened
        /\ late' = late
    BY DEF Elsewhere, userVars
  <2>7. dav.pc = "flatten" => dav.tok[1] <= epoch'
    <3>1. SUFFICES ASSUME dav.pc = "flatten" PROVE dav.tok[1] <= epoch'
      OBVIOUS
    <3>2. dav.tok[1] <= epoch /\ dav.tok[1] \in Nat
      BY <2>2, <3>1, <1>1 DEF Types, ExchangeTypes, Exchanges, Tokens
    <3>3. epoch' >= epoch /\ epoch \in Nat /\ epoch' \in Nat
      BY <2>3 DEF Ages, SceneTypes
    <3> QED BY <3>2, <3>3
  <2> QED BY <2>5, <2>6, <2>7 DEF Dates, Dated
<1>4. Backing'
  <2>1. ExchangeKeeps
    BY DEF ExchangeKeeps
  <2>2. mode = "translate" /\ races = {} => ServerShows'
    BY <1>1 DEF Backing, ServerShows, Backed, Body
  <2> QED BY <1>1, <2>1, <2>2, ServerKeepsBacking
<1> QED BY <1>2, <1>3, <1>4 DEF FileInvariant

LEMMA ReserveSteps ==
    ASSUME FileInvariant, Elsewhere, NEW e \in Remote, Reserve(e)
    PROVE  FileInvariant' /\ scene \subseteq scene'
<1>1. SceneTypes
  BY DEF FileInvariant, Types
<1>2. /\ reserved = Nil /\ reserved' = [kind |-> "edit", edit |-> e] /\ seq' = seq + 1
      /\ UNCHANGED <<mode, epoch, scene, cache, dav, late, races>>
  BY DEF Reserve
<1>3. reserved' \in Reservations
  BY <1>2 DEF Reservations, Edits
<1>4. reserved' # Nil
  BY <1>3, OthersAreNotNil
<1>5. SceneTypes'
  BY <1>1, <1>2, <1>3 DEF SceneTypes
<1>6. Applied' = Applied
  BY <1>1, <1>2, <1>4 DEF Applied, SceneTypes
<1> QED BY <1>2, <1>5, <1>6, SceneGrows DEF Ages

LEMMA ApplySteps ==
    ASSUME FileInvariant, Elsewhere, Apply
    PROVE  FileInvariant' /\ scene \subseteq scene'
<1>1. SceneTypes
  BY DEF FileInvariant, Types
<1>2. /\ reserved # Nil /\ reserved' = Nil /\ scene' = scene \cup {reserved.edit}
      /\ UNCHANGED <<mode, epoch, seq, cache, dav, late, races>>
  BY DEF Apply
<1>3. reserved.edit \in Edits
  BY <1>1, <1>2 DEF SceneTypes, Reservations
<1>4. scene' \in Bodies
  BY <1>1, <1>2, <1>3, Growing DEF SceneTypes
<1>5. SceneTypes'
  BY <1>1, <1>2, <1>4 DEF SceneTypes
<1>6. Applied' > Applied
  BY <1>1, <1>2 DEF Applied, SceneTypes
<1> QED BY <1>2, <1>5, <1>6, SceneGrows DEF Ages

LEMMA RollbackSteps ==
    ASSUME FileInvariant, Elsewhere, Rollback
    PROVE  FileInvariant' /\ scene \subseteq scene'
<1>1. SceneTypes
  BY DEF FileInvariant, Types
<1>2. /\ reserved # Nil /\ reserved' = Nil /\ seq' = seq - 1
      /\ UNCHANGED <<mode, epoch, scene, cache, dav, late, races>>
  BY DEF Rollback
<1>3. SceneTypes'
  BY <1>1, <1>2 DEF SceneTypes
<1>4. Applied' = Applied
  BY <1>1, <1>2 DEF Applied, SceneTypes
<1> QED BY <1>2, <1>3, <1>4, SceneGrows DEF Ages

LEMMA CompactSteps ==
    ASSUME FileInvariant, Elsewhere, Compact
    PROVE  FileInvariant' /\ scene \subseteq scene'
<1>1. SceneTypes
  BY DEF FileInvariant, Types
<1>2. /\ reserved = Nil /\ seq' = Cardinality(scene) /\ epoch' = epoch + 1
      /\ UNCHANGED <<mode, scene, reserved, cache, dav, late, races>>
  BY DEF Compact, NoReaders
<1>3. Cardinality(scene) \in Nat
  BY <1>1, FS_CardinalityType DEF SceneTypes, Bodies
<1>4. SceneTypes'
  BY <1>1, <1>2, <1>3 DEF SceneTypes
<1>5. Ages
  BY <1>1, <1>2 DEF SceneTypes, Ages
<1> QED BY <1>2, <1>4, <1>5, SceneGrows

LEMMA JoinSteps ==
    ASSUME FileInvariant, Elsewhere, JoinDepartment
    PROVE  FileInvariant' /\ scene \subseteq scene'
<1>1. SceneTypes
  BY DEF FileInvariant, Types
<1>2. /\ epoch' = epoch + 1
      /\ UNCHANGED <<mode, seq, scene, reserved, cache, dav, late, races>>
  BY DEF JoinDepartment
<1>3. SceneTypes'
  BY <1>1, <1>2 DEF SceneTypes
<1>4. Ages
  BY <1>1, <1>2 DEF SceneTypes, Ages
<1> QED BY <1>2, <1>3, <1>4, SceneGrows

\* A step of an exchange that leaves the scene alone: it has to keep bytes
\* dated and its claims backed.
LEMMA ExchangeMoves ==
    ASSUME FileInvariant, Elsewhere, UNCHANGED <<mode, epoch, seq, scene, reserved>>,
           ExchangeTypes', ExchangeKeeps,
           races' = {} =>
               /\ races = {}
               /\ Dated(cache') /\ Dated(dav'.data)
               /\ late' # Nil => Dated(late'.data)
               /\ dav'.pc = "flatten" => dav'.tok[1] <= epoch,
           mode = "translate" /\ races' = {} =>
               Body(cache') \subseteq scene /\ (Backed' => Body(dav'.data) \subseteq scene)
    PROVE  FileInvariant' /\ scene \subseteq scene'
<1>1. Types /\ Dates /\ Backing
  BY DEF FileInvariant
<1>2. Types'
  <2>1. SceneTypes'
    BY <1>1 DEF Types, SceneTypes
  <2>2. BridgeTypes' /\ UserTypes'
    BY <1>1 DEF Types, BridgeTypes, UserTypes, Elsewhere, bridgeVars, userVars
  <2> QED BY <2>1, <2>2 DEF Types
<1>3. Dates'
  <2> SUFFICES ASSUME races' = {} PROVE Dates'
    BY DEF Dates
  <2>1. Applied' = Applied
    BY DEF Applied
  <2>2. /\ Dated(cache') /\ Dated(dav'.data) /\ Dated(local) /\ Dated(opened)
        /\ late' # Nil => Dated(late'.data)
        /\ dav'.pc = "flatten" => dav'.tok[1] <= epoch
    BY <1>1 DEF Dates
  <2>3. local' = local /\ opened' = opened
    BY DEF Elsewhere, userVars
  <2>4. /\ Dated(cache)' /\ Dated(dav.data)' /\ Dated(local)' /\ Dated(opened)'
        /\ late' # Nil => Dated(late.data)'
    BY <2>1, <2>2, <2>3 DEF Dated
  <2> QED BY <2>2, <2>4 DEF Dates
<1>4. Backing'
  <2>1. mode = "translate" /\ races' = {} => ServerShows'
    BY DEF ServerShows, Body
  <2> QED BY <1>1, <2>1, ServerKeepsBacking
<1> QED BY <1>2, <1>3, <1>4 DEF FileInvariant

\* The parts of the invariant that the exchanges use.
LEMMA ExchangeFacts ==
    ASSUME FileInvariant
    PROVE  /\ SceneTypes /\ ExchangeTypes
           /\ dav \in Exchanges /\ dav.data \in Maybe /\ cache \in Maybe
           /\ late # Nil => late \in Lates /\ late.data \in Maybe
           /\ races = {} =>
                /\ Dated(cache) /\ Dated(dav.data)
                /\ late # Nil => Dated(late.data)
                /\ dav.pc = "flatten" => dav.tok[1] <= epoch
           /\ mode = "translate" /\ races = {} =>
                Body(cache) \subseteq scene /\ (Backed => Body(dav.data) \subseteq scene)
<1>1. SceneTypes /\ ExchangeTypes
  BY DEF FileInvariant, Types
<1>2. /\ dav \in Exchanges /\ dav.data \in Maybe /\ cache \in Maybe
      /\ late # Nil => late \in Lates /\ late.data \in Maybe
  BY <1>1 DEF ExchangeTypes, Exchanges, Lates
<1>3. races = {} =>
        /\ Dated(cache) /\ Dated(dav.data)
        /\ late # Nil => Dated(late.data)
        /\ dav.pc = "flatten" => dav.tok[1] <= epoch
  BY DEF FileInvariant, Dates
<1>4. mode = "translate" /\ races = {} =>
        Body(cache) \subseteq scene /\ (Backed => Body(dav.data) \subseteq scene)
  BY DEF FileInvariant, Backing, ServerShows
<1> QED BY <1>1, <1>2, <1>3, <1>4

LEMMA BeginSteps ==
    ASSUME FileInvariant, Elsewhere, BeginWrite
    PROVE  FileInvariant' /\ scene \subseteq scene'
<1>1. /\ dav.pc = "begin"
      /\ UNCHANGED <<mode, epoch, seq, scene, reserved, cache, late, races>>
  BY DEF BeginWrite
<1>2. /\ dav' \in Exchanges /\ dav'.data = dav.data
      /\ dav'.pc \in {"done", "lookup"}
      /\ dav'.pc = "done" => dav'.status = "error"
      /\ dav'.pc = "lookup" => dav'.need # "none"
      /\ dav'.need = "answer" => dav.need = "answer" \/ mode = "drop"
      /\ dav.need # "reply" => dav'.need # "reply"
  <2>1. dav \in Exchanges
    BY ExchangeFacts
  <2>2. CASE mode = "forbid"
    <3>1. dav' = Done("error")
      BY <2>2 DEF BeginWrite
    <3> QED BY <2>1, <3>1, DoneTyped
  <2>3. CASE mode = "drop"
    <3>1. dav' = [dav EXCEPT !.pc = "lookup", !.need = "answer"]
      BY <2>3 DEF BeginWrite
    <3> QED BY <2>1, <2>3, <3>1 DEF Exchanges
  <2>4. CASE mode \notin {"forbid", "drop"}
    <3>1. dav' = [dav EXCEPT !.pc = "lookup", !.need = "write"]
      BY <2>4 DEF BeginWrite
    <3> QED BY <2>1, <3>1 DEF Exchanges
  <2> QED BY <2>2, <2>3, <2>4
<1>3. ExchangeTypes'
  BY <1>1, <1>2, ExchangeFacts DEF ExchangeTypes
<1>4. ExchangeKeeps
  BY <1>1, <1>2 DEF ExchangeKeeps
<1>5. mode = "translate" => (Backed' => Backed)
  BY <1>1, <1>2 DEF Backed
<1>6. races' = {} =>
        /\ races = {}
        /\ Dated(cache') /\ Dated(dav'.data)
        /\ late' # Nil => Dated(late'.data)
        /\ dav'.pc = "flatten" => dav'.tok[1] <= epoch
  BY <1>1, <1>2, ExchangeFacts
<1>7. mode = "translate" /\ races' = {} =>
        Body(cache') \subseteq scene /\ (Backed' => Body(dav'.data) \subseteq scene)
  BY <1>1, <1>2, <1>5, ExchangeFacts
<1> QED BY <1>1, <1>3, <1>4, <1>6, <1>7, ExchangeMoves

\* A snapshot s that is dated and shows part of the scene is used.
LEMMA UseSteps ==
    ASSUME FileInvariant, Elsewhere, UNCHANGED <<mode, epoch, seq, scene, reserved, late>>,
           NEW s \in Files, dav.pc \in {"lookup", "flatten"}, dav' = Use(s), cache' = s,
           races' = {} => races = {} /\ Dated(s),
           mode = "translate" /\ races' = {} => s.body \subseteq scene
    PROVE  FileInvariant' /\ scene \subseteq scene'
<1>1. dav \in Exchanges /\ dav.need # "none"
  BY ExchangeFacts DEF ExchangeTypes
<1>2. /\ dav' \in Exchanges
      /\ dav'.need = dav.need
      /\ dav'.pc \in {"done", "begin", "commit"}
      /\ dav'.pc = "done" => dav'.status # "none"
      /\ dav'.data = IF dav.need = "reply" THEN s ELSE dav.data
      /\ dav'.pc = "commit" => dav'.same = (dav.data = s)
      /\ dav'.pc = "done" /\ dav'.status = "ok" => dav.need \in {"reply", "answer"}
  BY <1>1, UseOfSnapshot
<1>3. ExchangeTypes'
  BY <1>2, ExchangeFacts DEF ExchangeTypes, Maybe
<1>4. ExchangeKeeps
  BY <1>2 DEF ExchangeKeeps
<1>5. races' = {} =>
        /\ races = {}
        /\ Dated(cache') /\ Dated(dav'.data)
        /\ late' # Nil => Dated(late'.data)
        /\ dav'.pc = "flatten" => dav'.tok[1] <= epoch
  <2> SUFFICES ASSUME races' = {}
               PROVE  races = {} /\ Dated(s) /\ Dated(dav'.data)
                      /\ (late # Nil => Dated(late.data))
    BY <1>2
  <2>1. races = {} /\ Dated(s)
    OBVIOUS
  <2>2. Dated(dav.data) /\ (late # Nil => Dated(late.data))
    BY <2>1, ExchangeFacts
  <2>3. CASE dav.need = "reply"
    BY <1>2, <2>1, <2>2, <2>3
  <2>4. CASE dav.need # "reply"
    BY <1>2, <2>1, <2>2, <2>4
  <2> QED BY <2>3, <2>4
<1>6. mode = "translate" /\ races' = {} =>
        Body(cache') \subseteq scene /\ (Backed' => Body(dav'.data) \subseteq scene)
  <2> SUFFICES ASSUME mode = "translate", races' = {}
               PROVE  Body(cache') \subseteq scene /\ (Backed' => Body(dav'.data) \subseteq scene)
    OBVIOUS
  <2>1. Body(s) \subseteq scene /\ Body(cache') \subseteq scene
    BY FileIsNotNil
  <2>2. Backed => Body(dav.data) \subseteq scene
    BY ExchangeFacts
  <2>3. SUFFICES ASSUME Backed' PROVE Body(dav'.data) \subseteq scene
    BY <2>1
  <2>4. CASE dav.need = "reply"
    BY <1>2, <2>1, <2>4
  <2>5. CASE dav.need = "answer"
    BY <1>2, <2>2, <2>5 DEF Backed
  <2>6. CASE dav.need \notin {"reply", "answer"}
    <3>1. dav'.pc = "commit" /\ dav'.same
      BY <1>2, <2>3, <2>6 DEF Backed
    <3>2. dav.data = s /\ dav'.data = dav.data
      BY <1>2, <2>6, <3>1
    <3> QED BY <2>1, <3>2
  <2> QED BY <2>4, <2>5, <2>6
<1> QED BY <1>3, <1>4, <1>5, <1>6, ExchangeMoves

LEMMA LookupSteps ==
    ASSUME FileInvariant, Elsewhere, Lookup
    PROVE  FileInvariant' /\ scene \subseteq scene'
<1>1. /\ dav.pc = "lookup"
      /\ UNCHANGED <<mode, epoch, seq, scene, reserved, cache, late, races>>
  BY DEF Lookup
<1>2. CASE cache # Nil /\ cache.tok = Token
  <2>1. dav' = Use(cache)
    BY <1>2 DEF Lookup
  <2>2. PICK s \in Files : s = cache
    BY <1>2, ExchangeFacts DEF Maybe
  <2>3. dav' = Use(s) /\ cache' = s
    BY <1>1, <2>1, <2>2
  <2>4. races' = {} => races = {} /\ Dated(s)
    BY <1>1, <2>2, ExchangeFacts
  <2>5. mode = "translate" /\ races' = {} => s.body \subseteq scene
    BY <1>1, <2>2, ExchangeFacts, FileIsNotNil
  <2> QED BY <1>1, <2>3, <2>4, <2>5, UseSteps
<1>3. CASE ~(cache # Nil /\ cache.tok = Token)
  <2>1. dav' = [dav EXCEPT !.pc = "token"]
    BY <1>3 DEF Lookup
  <2>2. dav \in Exchanges /\ dav.need # "none"
    BY <1>1, ExchangeFacts DEF ExchangeTypes
  <2>3. /\ dav' \in Exchanges /\ dav'.data = dav.data /\ dav'.pc = "token"
        /\ dav'.need = dav.need /\ dav'.status = dav.status
    BY <2>1, <2>2 DEF Exchanges
  <2>4. ExchangeTypes' /\ ExchangeKeeps /\ (Backed' => Backed)
    BY <1>1, <2>2, <2>3, ExchangeFacts DEF ExchangeTypes, ExchangeKeeps, Backed
  <2>5. races' = {} =>
          /\ races = {}
          /\ Dated(cache') /\ Dated(dav'.data)
          /\ late' # Nil => Dated(late'.data)
          /\ dav'.pc = "flatten" => dav'.tok[1] <= epoch
    BY <1>1, <2>3, ExchangeFacts
  <2>6. mode = "translate" /\ races' = {} =>
          Body(cache') \subseteq scene /\ (Backed' => Body(dav'.data) \subseteq scene)
    BY <1>1, <2>3, <2>4, ExchangeFacts
  <2> QED BY <1>1, <2>4, <2>5, <2>6, ExchangeMoves
<1> QED BY <1>2, <1>3

LEMMA TokenSteps ==
    ASSUME FileInvariant, Elsewhere, ReadToken
    PROVE  FileInvariant' /\ scene \subseteq scene'
<1>1. /\ dav.pc = "token" /\ dav' = [dav EXCEPT !.pc = "flatten", !.tok = Token]
      /\ UNCHANGED <<mode, epoch, seq, scene, reserved, cache, late, races>>
  BY DEF ReadToken
<1>2. dav \in Exchanges /\ dav.need # "none"
  BY <1>1, ExchangeFacts DEF ExchangeTypes
<1>3. Token \in Tokens /\ Token[1] <= epoch
  BY ExchangeFacts DEF SceneTypes, Token, Tokens
<1>4. /\ dav' \in Exchanges /\ dav'.data = dav.data /\ dav'.pc = "flatten"
      /\ dav'.need = dav.need /\ dav'.tok = Token
  BY <1>1, <1>2, <1>3 DEF Exchanges
<1>5. ExchangeTypes' /\ ExchangeKeeps /\ (Backed' => Backed)
  BY <1>1, <1>2, <1>4, ExchangeFacts DEF ExchangeTypes, ExchangeKeeps, Backed
<1>6. races' = {} =>
        /\ races = {}
        /\ Dated(cache') /\ Dated(dav'.data)
        /\ late' # Nil => Dated(late'.data)
        /\ dav'.pc = "flatten" => dav'.tok[1] <= epoch
  BY <1>1, <1>3, <1>4, ExchangeFacts
<1>7. mode = "translate" /\ races' = {} =>
        Body(cache') \subseteq scene /\ (Backed' => Body(dav'.data) \subseteq scene)
  BY <1>1, <1>4, <1>5, ExchangeFacts
<1> QED BY <1>1, <1>5, <1>6, <1>7, ExchangeMoves

\* The label of a flattened snapshot: without the race `skew' it dates it.
LEMMA FlattenSteps ==
    ASSUME FileInvariant, Elsewhere, Flatten
    PROVE  FileInvariant' /\ scene \subseteq scene'
<1> DEFINE fresh == Bytes(dav.tok, scene, "usd")
<1>1. /\ dav.pc = "flatten" /\ cache' = fresh /\ dav' = Use(fresh)
      /\ races' = IF dav.tok[2] > Applied THEN races \cup {"skew"} ELSE races
      /\ UNCHANGED <<mode, epoch, seq, scene, reserved, late>>
  BY DEF Flatten, Applied
<1>2. dav.tok \in Tokens /\ scene \in Bodies
  BY ExchangeFacts DEF Exchanges, SceneTypes
<1>3. fresh \in Files /\ fresh.tok = dav.tok /\ fresh.body = scene /\ fresh.kind = "usd"
  BY <1>2, BytesAreAFile
<1> HIDE DEF fresh
<1>4. PICK s \in Files : s = fresh
  BY <1>3
<1>5. races' = {} => races = {} /\ Dated(s)
  <2> SUFFICES ASSUME races' = {} PROVE races = {} /\ Dated(s)
    OBVIOUS
  <2>1. races = {} /\ ~(dav.tok[2] > Applied)
    BY <1>1
  <2>2. dav.tok[1] <= epoch
    BY <1>1, <2>1, ExchangeFacts
  <2>3. dav.tok[2] \in Nat /\ Applied \in Nat
    BY <1>2, AppliedIsNat, ExchangeFacts DEF Tokens
  <2>4. dav.tok[2] <= Applied
    BY <2>1, <2>3
  <2> QED BY <1>3, <1>4, <2>1, <2>2, <2>4 DEF Dated, DatedAt
<1>6. mode = "translate" /\ races' = {} => s.body \subseteq scene
  BY <1>3, <1>4
<1> QED BY <1>1, <1>4, <1>5, <1>6, UseSteps

\* A step that keeps the data of the exchange and adds no other bytes: they
\* stay dated because the scene only grows older.
LEMMA DataStay ==
    ASSUME FileInvariant, Elsewhere, mode' = mode, SceneTypes', ExchangeTypes', ExchangeKeeps,
           dav'.data = dav.data, dav'.pc = "flatten" => dav' = dav,
           cache' \in {cache, Nil}, late' \in {late, Nil},
           races' = {} => races = {} /\ Ages /\ scene \subseteq scene',
           mode = "translate" /\ races' = {} =>
               (Backed' => Body(dav'.data) \subseteq scene')
    PROVE  FileInvariant'
<1>1. Types /\ Dates /\ Backing
  BY DEF FileInvariant
<1>2. Types'
  BY <1>1 DEF Types, BridgeTypes, UserTypes, Elsewhere, bridgeVars, userVars
<1>3. Dates'
  <2> SUFFICES ASSUME races' = {} PROVE Dates'
    BY DEF Dates
  <2>1. /\ cache \in Maybe /\ dav.data \in Maybe /\ local \in Maybe /\ opened \in Maybe
        /\ late # Nil => late.data \in Maybe
    BY <1>1 DEF Types, ExchangeTypes, UserTypes, Exchanges, Lates
  <2>2. /\ Dated(cache) /\ Dated(dav.data) /\ Dated(local) /\ Dated(opened)
        /\ late # Nil => Dated(late.data)
    BY <1>1 DEF Dates
  <2>3. SceneTypes /\ Ages
    BY <1>1 DEF Types
  <2>4. \A b \in Maybe : Dated(b) => DatedAt(b, epoch', Applied', scene')
    BY <2>3, UntouchedStaysDated
  <2>5. DatedAt(Nil, epoch', Applied', scene')
    BY DEF DatedAt
  <2>6. local' = local /\ opened' = opened
    BY DEF Elsewhere, userVars
  <2>7. /\ DatedAt(cache', epoch', Applied', scene')
        /\ DatedAt(dav'.data, epoch', Applied', scene')
        /\ DatedAt(local', epoch', Applied', scene')
        /\ DatedAt(opened', epoch', Applied', scene')
    BY <2>1, <2>2, <2>4, <2>5, <2>6
  <2>8. late' # Nil => DatedAt(late'.data, epoch', Applied', scene')
    BY <2>1, <2>2, <2>4
  <2>9. dav'.pc = "flatten" => dav'.tok[1] <= epoch'
    <3>1. SUFFICES ASSUME dav'.pc = "flatten" PROVE dav.tok[1] <= epoch'
      OBVIOUS
    <3>2. dav.tok[1] <= epoch /\ dav.tok[1] \in Nat
      BY <3>1, <1>1 DEF Dates, Types, ExchangeTypes, Exchanges, Tokens
    <3>3. epoch' >= epoch /\ epoch \in Nat /\ epoch' \in Nat
      BY <2>3 DEF Ages, SceneTypes
    <3> QED BY <3>2, <3>3
  <2> QED BY <2>7, <2>8, <2>9 DEF Dates, Dated
<1>4. Backing'
  <2>1. mode = "translate" /\ races' = {} => Body(cache') \subseteq scene'
    BY <1>1 DEF Backing, ServerShows, Body
  <2>2. mode = "translate" /\ races' = {} => ServerShows'
    BY <2>1 DEF ServerShows, Body
  <2> QED BY <1>1, <2>2, ServerKeepsBacking
<1> QED BY <1>2, <1>3, <1>4 DEF FileInvariant

\* replace_from_stage_snapshot: dated bytes that carry the present token show
\* all of the scene they replace.
LEMMA ReplaceAges ==
    ASSUME FileInvariant, NEW b \in Maybe, NEW same, Replace(b, same), races = {} => Dated(b)
    PROVE  /\ SceneTypes' /\ Ages
           /\ mode' = mode /\ cache' = cache /\ races' = races
           /\ races = {} => scene \subseteq scene'
           /\ Acceptable(b) /\ ~same => scene' = b.body
<1>1. SceneTypes
  BY DEF FileInvariant, Types
<1>2. reserved = Nil /\ UNCHANGED <<mode, reserved, cache, races>>
  BY DEF Replace, NoReaders
<1>3. CASE Acceptable(b) /\ ~same
  <2>1. scene' = b.body /\ seq' = Cardinality(b.body) /\ epoch' = epoch + 1
    BY <1>3 DEF Replace
  <2>2. b # Nil
    BY <1>3 DEF Acceptable, Nil
  <2>3. b.body \in Bodies
    BY <2>2, FileIsNotNil DEF Maybe
  <2>4. Cardinality(b.body) \in Nat
    BY <2>3, FS_CardinalityType DEF Bodies
  <2>5. SceneTypes'
    BY <1>1, <1>2, <2>1, <2>3, <2>4 DEF SceneTypes
  <2>6. Ages
    BY <1>1, <2>1 DEF SceneTypes, Ages
  <2>7. races = {} => scene \subseteq scene'
    <3>1. SUFFICES ASSUME races = {} PROVE scene \subseteq b.body
      BY <2>1
    <3>2. Dated(b) /\ b.kind = "usd" /\ b.tok = <<epoch, seq>>
      BY <1>3, <3>1 DEF Acceptable, Token
    <3>3. Applied = seq
      BY <1>1, <1>2 DEF Applied, SceneTypes
    <3>4. b.tok[1] = epoch /\ b.tok[2] = Applied
      BY <3>2, <3>3
    <3>5. b.kind # "partial"
      BY <3>2
    <3> QED BY <2>2, <3>2, <3>4, <3>5 DEF Dated, DatedAt
  <2> QED BY <1>2, <2>1, <2>5, <2>6, <2>7
<1>4. CASE ~(Acceptable(b) /\ ~same)
  <2>1. UNCHANGED <<epoch, seq, scene>>
    BY <1>4 DEF Replace
  <2>2. Ages
    BY <1>2, <2>1 DEF Ages, Applied
  <2>3. SceneTypes'
    BY <1>1, <1>2, <2>1 DEF SceneTypes
  <2> QED BY <1>2, <1>4, <2>1, <2>2, <2>3
<1> QED BY <1>3, <1>4

LEMMA CommitSteps ==
    ASSUME FileInvariant, Elsewhere, CommitUpload
    PROVE  FileInvariant' /\ (races = {} => scene \subseteq scene')
<1>1. /\ dav.pc = "commit" /\ late' = late
      /\ Replace(dav.data, dav.same)
  BY DEF CommitUpload
<1>2. dav \in Exchanges /\ dav.data \in Maybe /\ (races = {} => Dated(dav.data))
  BY ExchangeFacts
<1>3. /\ SceneTypes' /\ Ages
      /\ mode' = mode /\ cache' = cache /\ races' = races
      /\ races = {} => scene \subseteq scene'
      /\ Acceptable(dav.data) /\ ~dav.same => scene' = dav.data.body
  BY <1>1, <1>2, ReplaceAges
<1>4. /\ dav' \in Exchanges /\ dav'.data = dav.data
      /\ dav'.pc \in {"lookup", "done"}
      /\ dav'.pc = "lookup" => dav'.need = "answer"
                               /\ (Acceptable(dav.data) \/ Unread(dav.data))
      /\ dav'.pc = "done" => dav'.status = "conflict" /\ dav'.need = dav.need
  <2>1. CASE Acceptable(dav.data) \/ Unread(dav.data)
    <3>1. dav' = [dav EXCEPT !.pc = "lookup", !.need = "answer"]
      BY <2>1 DEF CommitUpload
    <3> QED BY <1>2, <2>1, <3>1 DEF Exchanges
  <2>2. CASE ~(Acceptable(dav.data) \/ Unread(dav.data))
    <3>1. dav' = Done("conflict")
      BY <2>2 DEF CommitUpload
    <3> QED BY <1>2, <3>1, DoneTyped
  <2> QED BY <2>1, <2>2
<1>5. ExchangeTypes' /\ ExchangeKeeps
  BY <1>1, <1>3, <1>4, ExchangeFacts DEF ExchangeTypes, ExchangeKeeps
<1>6. mode = "translate" /\ races' = {} => (Backed' => Body(dav'.data) \subseteq scene')
  <2> SUFFICES ASSUME mode = "translate", races = {}, Backed'
               PROVE  Body(dav.data) \subseteq scene'
    BY <1>3, <1>4
  <2>1. scene \subseteq scene' /\ (Backed => Body(dav.data) \subseteq scene)
    BY <1>3, ExchangeFacts
  <2>2. CASE dav'.pc = "lookup"
    <3>1. Acceptable(dav.data)
      BY <1>4, <2>2 DEF Unread
    <3>2. CASE dav.same
      BY <1>1, <2>1, <3>2 DEF Backed
    <3>3. CASE ~dav.same
      BY <1>3, <3>1, <3>3 DEF Body
    <3> QED BY <3>2, <3>3
  <2>3. CASE dav'.pc = "done"
    BY <1>4, <2>1, <2>3 DEF Backed
  <2> QED BY <1>4, <2>2, <2>3
<1> QED BY <1>1, <1>3, <1>4, <1>5, <1>6, DataStay

LEMMA LateSteps ==
    ASSUME FileInvariant, Elsewhere, CommitLate
    PROVE  FileInvariant' /\ (races = {} => scene \subseteq scene')
<1>1. /\ late # Nil /\ late' = Nil /\ dav' = dav /\ dav.pc # "flatten"
      /\ Replace(late.data, late.same)
  BY DEF CommitLate, Replace, NoReaders
<1>2. late.data \in Maybe /\ (races = {} => Dated(late.data))
  BY <1>1, ExchangeFacts
<1>3. /\ SceneTypes' /\ Ages
      /\ mode' = mode /\ cache' = cache /\ races' = races
      /\ races = {} => scene \subseteq scene'
  BY <1>1, <1>2, ReplaceAges
<1>4. ExchangeTypes' /\ ExchangeKeeps
  BY <1>1, <1>3, ExchangeFacts DEF ExchangeTypes, ExchangeKeeps
<1>5. mode = "translate" /\ races' = {} => (Backed' => Body(dav'.data) \subseteq scene')
  <2>1. Backed' = Backed
    BY <1>1 DEF Backed
  <2> QED BY <1>1, <1>3, <2>1, ExchangeFacts
<1> QED BY <1>1, <1>3, <1>4, <1>5, DataStay

\* The exchange is over, and what it carried is not in the scene.
LEMMA GivingUpSteps ==
    ASSUME FileInvariant, Elsewhere, UNCHANGED <<mode, epoch, seq, scene, reserved, cache, races>>,
           NEW status \in {"error", "lost"}, dav' = Done(status),
           dav.pc \in {"commit", "done"},
           \/ late' = late
           \/ late' = [kind |-> "late", data |-> dav.data, same |-> dav.same]
    PROVE  FileInvariant' /\ scene \subseteq scene'
<1>1. dav \in Exchanges /\ dav.data \in Maybe /\ dav.same \in BOOLEAN
  BY ExchangeFacts DEF Exchanges
<1>2. /\ dav' \in Exchanges /\ dav'.data = dav.data /\ dav'.pc = "done"
      /\ dav'.status = status /\ dav'.need = dav.need
  BY <1>1, DoneTyped
<1>3. late' \in Lates \cup {Nil}
  BY <1>1, ExchangeFacts DEF ExchangeTypes, Lates
<1>4. ExchangeTypes' /\ ExchangeKeeps /\ (Backed' => Backed)
  BY <1>1, <1>2, <1>3, ExchangeFacts DEF ExchangeTypes, ExchangeKeeps, Backed
<1>5. races' = {} =>
        /\ races = {}
        /\ Dated(cache') /\ Dated(dav'.data)
        /\ late' # Nil => Dated(late'.data)
        /\ dav'.pc = "flatten" => dav'.tok[1] <= epoch
  <2> SUFFICES ASSUME races = {}
               PROVE  Dated(cache) /\ Dated(dav.data) /\ (late' # Nil => Dated(late'.data))
    BY <1>2
  <2>1. Dated(cache) /\ Dated(dav.data) /\ (late # Nil => Dated(late.data))
    BY ExchangeFacts
  <2>2. CASE late' = late
    BY <2>1, <2>2
  <2>3. CASE late' = [kind |-> "late", data |-> dav.data, same |-> dav.same]
    <3>1. late'.data = dav.data
      BY <2>3
    <3> QED BY <2>1, <3>1
  <2> QED BY <2>2, <2>3
<1>6. mode = "translate" /\ races' = {} =>
        Body(cache') \subseteq scene /\ (Backed' => Body(dav'.data) \subseteq scene)
  BY <1>2, <1>4, ExchangeFacts
<1> QED BY <1>4, <1>5, <1>6, ExchangeMoves

\* A new server process: the epoch starts again, which is a race as soon as
\* the old one had left its first epoch.
LEMMA RestartSteps ==
    ASSUME FileInvariant, Elsewhere, Restart
    PROVE  FileInvariant' /\ scene \subseteq scene'
<1>1. /\ epoch' = 0 /\ reserved' = Nil /\ cache' = Nil /\ late' = Nil
      /\ seq' = (IF reserved = Nil THEN seq ELSE seq - 1)
      /\ dav' = (IF dav.op = "none" THEN dav ELSE [dav EXCEPT !.pc = "done", !.status = "lost"])
      /\ races' = (IF epoch > 0 THEN races \cup {"restart"} ELSE races)
      /\ UNCHANGED <<mode, scene>>
  BY DEF Restart
<1>2. SceneTypes /\ dav \in Exchanges
  BY ExchangeFacts
<1>3. SceneTypes'
  BY <1>1, <1>2 DEF SceneTypes
<1>4. Applied' = Applied
  BY <1>1, <1>2 DEF Applied, SceneTypes
<1>5. races' = {} => races = {} /\ Ages
  BY <1>1, <1>2, <1>4 DEF Ages, SceneTypes
<1>6. CASE dav.op = "none"
  <2>1. dav' = dav
    BY <1>1, <1>6
  <2>2. ExchangeTypes' /\ ExchangeKeeps /\ (Backed' => Backed)
    BY <1>1, <2>1, ExchangeFacts DEF ExchangeTypes, ExchangeKeeps, Backed, Maybe
  <2>3. mode = "translate" /\ races' = {} => (Backed' => Body(dav'.data) \subseteq scene')
    BY <1>1, <1>5, <2>1, <2>2, ExchangeFacts
  <2> QED BY <1>1, <1>3, <1>5, <2>1, <2>2, <2>3, DataStay
<1>7. CASE dav.op # "none"
  <2>1. dav' = [dav EXCEPT !.pc = "done", !.status = "lost"]
    BY <1>1, <1>7
  <2>2. /\ dav' \in Exchanges /\ dav'.data = dav.data /\ dav'.pc = "done"
        /\ dav'.status = "lost" /\ dav'.need = dav.need
    BY <1>2, <2>1 DEF Exchanges
  <2>3. ExchangeTypes' /\ ExchangeKeeps /\ (Backed' => Backed)
    BY <1>1, <2>2, ExchangeFacts DEF ExchangeTypes, ExchangeKeeps, Backed, Maybe
  <2>4. mode = "translate" /\ races' = {} => (Backed' => Body(dav'.data) \subseteq scene')
    BY <1>1, <1>5, <2>2, <2>3, ExchangeFacts
  <2> QED BY <1>1, <1>3, <1>5, <2>2, <2>3, <2>4, DataStay
<1> QED BY <1>6, <1>7

LEMMA ServerSteps ==
    ASSUME FileInvariant, Server
    PROVE  FileInvariant' /\ (races = {} => scene \subseteq scene')
<1>1. Elsewhere /\ (Serve \/ SceneStep)
  BY DEF Server, Elsewhere
<1>2. CASE Serve
  BY <1>1, <1>2, BeginSteps, LookupSteps, TokenSteps, FlattenSteps, CommitSteps DEF Serve
<1>3. ASSUME FailUpload \/ Orphan \/ LoseReply
      PROVE  FileInvariant' /\ scene \subseteq scene'
  <2>1. CASE FailUpload
    <3>1. /\ dav' = Done("error") /\ dav.pc = "commit" /\ late' = late
          /\ UNCHANGED <<mode, epoch, seq, scene, reserved, cache, races>>
      BY <2>1 DEF FailUpload
    <3> QED BY <1>1, <3>1, GivingUpSteps
  <2>2. CASE Orphan
    <3>1. /\ dav' = Done("lost") /\ dav.pc = "commit"
          /\ late' = [kind |-> "late", data |-> dav.data, same |-> dav.same]
          /\ UNCHANGED <<mode, epoch, seq, scene, reserved, cache, races>>
      BY <2>2 DEF Orphan
    <3> QED BY <1>1, <3>1, GivingUpSteps
  <2>3. CASE LoseReply
    <3>1. /\ dav' = Done("lost") /\ dav.pc = "done" /\ late' = late
          /\ UNCHANGED <<mode, epoch, seq, scene, reserved, cache, races>>
      BY <2>3 DEF LoseReply
    <3> QED BY <1>1, <3>1, GivingUpSteps
  <2> QED BY <1>3, <2>1, <2>2, <2>3
<1>4. CASE SceneStep
  BY <1>1, <1>3, <1>4, ReserveSteps, ApplySteps, RollbackSteps, CompactSteps, JoinSteps,
     RestartSteps, LateSteps DEF SceneStep
<1> QED BY <1>1, <1>2, <1>4

-----------------------------------------------------------------------------
(* Steps of the user.                                                       *)

\* The user changes the mirror and what the DCC holds, and nothing else.
LEMMA UserKeeps ==
    ASSUME FileInvariant, UNCHANGED <<otherFile, dav, races, bridgeVars>>, UserTypes',
           races = {} => Dated(local') /\ Dated(opened'),
           mode = "translate" /\ races = {} => saved' \subseteq scene \cup Held'
    PROVE  FileInvariant'
<1>1. Types /\ Dates /\ Backing
  BY DEF FileInvariant
<1>2. /\ UNCHANGED <<mode, epoch, seq, scene, reserved, cache, late, dav, races>>
      /\ UNCHANGED <<pc, mem, stored, base>>
  BY DEF otherFile, bridgeVars
<1>3. Types'
  BY <1>1, <1>2 DEF Types, SceneTypes, ExchangeTypes, BridgeTypes
<1>4. Dates'
  <2>1. Applied' = Applied
    BY <1>2 DEF Applied
  <2>2. \A b : DatedAt(b, epoch', Applied', scene') = Dated(b)
    BY <1>2, <2>1 DEF Dated
  <2>3. races = {} =>
          /\ Dated(cache) /\ Dated(dav.data) /\ Dated(local') /\ Dated(opened')
          /\ late # Nil => Dated(late.data)
          /\ dav.pc = "flatten" => dav.tok[1] <= epoch
    BY <1>1 DEF Dates
  <2>4. races' = {} =>
          /\ DatedAt(cache', epoch', Applied', scene')
          /\ DatedAt(dav'.data, epoch', Applied', scene')
          /\ DatedAt(local', epoch', Applied', scene')
          /\ DatedAt(opened', epoch', Applied', scene')
          /\ late' # Nil => DatedAt(late'.data, epoch', Applied', scene')
          /\ dav'.pc = "flatten" => dav'.tok[1] <= epoch'
    BY <1>2, <2>2, <2>3
  <2> QED BY <2>4 DEF Dates, Dated
<1>5. Backing'
  <2> SUFFICES ASSUME mode = "translate", races = {}
               PROVE  ServerShows' /\ BridgeKnows' /\ SavesHeld'
    BY <1>2 DEF Backing
  <2>1. ServerShows /\ BridgeKnows
    BY <1>1 DEF Backing
  <2>2. ServerShows'
    BY <1>2, <2>1 DEF ServerShows, Backed, Body
  <2>3. BridgeKnows'
    BY <1>2, <2>1 DEF BridgeKnows, Body
  <2>4. SavesHeld'
    BY <1>2 DEF SavesHeld
  <2> QED BY <2>2, <2>3, <2>4
<1> QED BY <1>3, <1>4, <1>5 DEF FileInvariant

LEMMA UserFacts ==
    ASSUME FileInvariant
    PROVE  /\ local \in Maybe /\ opened \in Maybe /\ saved \subseteq Saves
           /\ opened # Nil => opened \in Files /\ opened.kind # "partial"
           /\ user = "writing" => opened # Nil
           /\ races = {} => Dated(local) /\ Dated(opened)
           /\ mode = "translate" /\ races = {} => saved \subseteq scene \cup Held
           /\ Held \subseteq Body(opened)
<1>1. /\ local \in Maybe /\ opened \in Maybe /\ saved \subseteq Saves
      /\ opened # Nil => opened \in Files /\ opened.kind # "partial"
      /\ user = "writing" => opened # Nil
  BY DEF FileInvariant, Types, UserTypes, Maybe
<1>2. races = {} => Dated(local) /\ Dated(opened)
  BY DEF FileInvariant, Dates
<1>3. mode = "translate" /\ races = {} => saved \subseteq scene \cup Held
  BY DEF FileInvariant, Backing, SavesHeld
<1>4. Held \subseteq Body(opened)
  BY DEF Held
<1> QED BY <1>1, <1>2, <1>3, <1>4

\* A save shows at least what the opened file showed, under the same token.
LEMMA SavedBytesDated ==
    ASSUME FileInvariant, opened # Nil, NEW e \in Saves, NEW kind \in {"usd", "refused"}
    PROVE  /\ SavedBytes(e, kind) \in Files
           /\ SavedBytes(e, kind).kind = kind
           /\ SavedBytes(e, kind).body = opened.body \cup {e}
           /\ races = {} => Dated(SavedBytes(e, kind))
<1>1. opened \in Files /\ opened.kind # "partial"
  BY UserFacts
<1>2. opened.tok \in Tokens /\ opened.body \cup {e} \in Bodies
  BY <1>1, FileIsNotNil, Growing DEF Edits
<1>3. /\ SavedBytes(e, kind) \in Files /\ SavedBytes(e, kind).kind = kind
      /\ SavedBytes(e, kind).body = opened.body \cup {e}
      /\ SavedBytes(e, kind).tok = opened.tok
  BY <1>2, BytesAreAFile DEF SavedBytes
<1>4. races = {} => Dated(opened)
  BY UserFacts
<1>5. races = {} => Dated(SavedBytes(e, kind))
  BY <1>1, <1>3, <1>4 DEF Dated, DatedAt
<1> QED BY <1>3, <1>5

\* A completed save: mirror and DCC agree.
LEMMA SaveCompletes ==
    ASSUME FileInvariant, opened # Nil, NEW e \in Saves, NEW kind \in {"usd", "refused"},
           local' = SavedBytes(e, kind), opened' = SavedBytes(e, kind), saved' = saved \cup {e},
           UNCHANGED <<otherFile, dav, races, bridgeVars>>
    PROVE  FileInvariant'
<1>1. PICK b \in Files : b = SavedBytes(e, kind)
  BY SavedBytesDated
<1>2. /\ b.kind = kind /\ b.body = opened.body \cup {e}
      /\ races = {} => Dated(b)
      /\ local' = b /\ opened' = b
  BY <1>1, SavedBytesDated
<1>3. b # Nil /\ b \in Maybe /\ Body(b) = b.body
  BY FileIsNotNil DEF Maybe
<1>4. UserTypes'
  BY <1>2, <1>3, UserFacts DEF UserTypes
<1>5. Held' = opened.body \cup {e} /\ Body(opened) = opened.body
  BY <1>2, <1>3 DEF Held, Body
<1>6. mode = "translate" /\ races = {} => saved' \subseteq scene \cup Held'
  BY <1>5, UserFacts
<1> QED BY <1>2, <1>4, <1>6, UserKeeps

LEMMA UserSteps ==
    ASSUME FileInvariant, User
    PROVE  FileInvariant'
<1>1. CASE Open
  <2>1. /\ user = "idle" /\ local # Nil /\ local.kind = "usd" /\ opened # local
        /\ opened' = local
        /\ UNCHANGED <<local, user, saved>>
        /\ UNCHANGED <<otherFile, dav, races, bridgeVars>>
    BY <1>1 DEF Open, fileVars, otherFile
  <2>2. UserTypes'
    BY <2>1, UserFacts DEF UserTypes
  <2>3. Held = {}
    BY <2>1 DEF Held
  <2>4. mode = "translate" /\ races = {} => saved' \subseteq scene \cup Held'
    BY <2>1, <2>3, UserFacts
  <2> QED BY <2>1, <2>2, <2>4, UserFacts, UserKeeps
<1>2. ASSUME NEW e \in Saves, NEW kind \in {"usd", "refused"}, Save(e, kind)
      PROVE  FileInvariant'
  BY <1>2, SaveCompletes DEF Save
<1>3. CASE SaveBegin
  <2>1. /\ opened # Nil /\ user' = "writing" /\ local' = Partial
        /\ UNCHANGED <<opened, saved>>
        /\ UNCHANGED <<otherFile, dav, races, bridgeVars>>
    BY <1>3 DEF SaveBegin
  <2>2. Partial \in Files /\ Partial.kind = "partial"
    BY NothingIsABody, BytesAreAFile DEF Partial, Tokens
  <2>3. UserTypes'
    BY <2>1, <2>2, UserFacts DEF UserTypes, Maybe
  <2>4. Dated(Partial)
    BY <2>2 DEF Dated, DatedAt
  <2>5. Held' = Body(opened)
    BY <2>1 DEF Held, Body
  <2>6. mode = "translate" /\ races = {} => saved' \subseteq scene \cup Held'
    BY <2>1, <2>5, UserFacts
  <2> QED BY <2>1, <2>3, <2>4, <2>6, UserFacts, UserKeeps
<1>4. ASSUME NEW e \in Saves, SaveEnd(e)
      PROVE  FileInvariant'
  <2>1. /\ local' = SavedBytes(e, "usd") /\ opened' = SavedBytes(e, "usd")
        /\ saved' = saved \cup {e}
        /\ UNCHANGED <<otherFile, dav, races, bridgeVars>>
    BY <1>4 DEF SaveEnd, fileVars, otherFile
  <2>2. opened # Nil
    BY <1>4 DEF SaveEnd, FileInvariant, Types, UserTypes
  <2> QED BY <2>1, <2>2, SaveCompletes
<1> QED BY <1>1, <1>2, <1>3, <1>4 DEF User

-----------------------------------------------------------------------------
(* Steps of the bridge.                                                     *)

\* What the bridge may do to an exchange: leave it, close it, or begin one
\* that uploads at most the mirror.
Exchanging ==
    \/ dav' = dav
    \/ dav' = Idle
    \/ \E op \in {"GET", "HEAD", "PUT"}, etag \in Tokens, data \in {Nil, local} :
            dav' = Request(op, etag, data)

\* What it may leave behind when it dies.
Leaving ==
    late' \in {late, Nil, [kind |-> "late", data |-> dav.data, same |-> dav.same]}

Still == UNCHANGED <<mode, epoch, seq, scene, reserved, cache>>

LEMMA ExchangingFacts ==
    ASSUME FileInvariant, Exchanging
    PROVE  /\ dav' \in Exchanges
           /\ dav'.pc \in {"lookup", "token", "flatten"} => dav'.need # "none"
           /\ dav'.pc = "done" => dav'.status # "none"
           /\ dav'.pc = "flatten" => dav' = dav
           /\ dav'.data \in {dav.data, local, Nil}
           /\ Backed' => dav' = dav
<1>1. /\ dav \in Exchanges
      /\ dav.pc \in {"lookup", "token", "flatten"} => dav.need # "none"
      /\ dav.pc = "done" => dav.status # "none"
  BY ExchangeFacts DEF ExchangeTypes
<1>2. CASE dav' = dav
  BY <1>1, <1>2
<1>3. CASE dav' = Idle
  BY <1>3, IdleTyped DEF Backed
<1>4. ASSUME NEW op \in {"GET", "HEAD", "PUT"}, NEW etag \in Tokens, NEW data \in {Nil, local},
             dav' = Request(op, etag, data)
      PROVE  /\ dav' \in Exchanges
             /\ dav'.pc = "lookup" /\ dav'.need \in {"match", "reply"}
             /\ dav'.data \in {local, Nil}
  <2>1. data \in Maybe
    BY UserFacts DEF Maybe
  <2> QED BY <1>4, <2>1, RequestTyped
<1>5. CASE \E op \in {"GET", "HEAD", "PUT"}, etag \in Tokens, data \in {Nil, local} :
              dav' = Request(op, etag, data)
  BY <1>4, <1>5 DEF Backed
<1> QED BY <1>2, <1>3, <1>5 DEF Exchanging

LEMMA BridgeKeeps ==
    ASSUME FileInvariant, Still, Leaving, Exchanging, UNCHANGED <<opened, user, saved>>,
           local' \in {local, dav.data}, BridgeTypes',
           races' = {} => races = {},
           mode = "translate" /\ races' = {} => BridgeKnows' /\ SavesHeld'
    PROVE  FileInvariant'
<1>1. Types /\ Dates /\ Backing
  BY DEF FileInvariant
<1>2. /\ dav' \in Exchanges
      /\ dav'.pc \in {"lookup", "token", "flatten"} => dav'.need # "none"
      /\ dav'.pc = "done" => dav'.status # "none"
      /\ dav'.pc = "flatten" => dav' = dav
      /\ dav'.data \in {dav.data, local, Nil}
      /\ Backed' => dav' = dav
  BY ExchangingFacts
<1>3. Types'
  <2>1. SceneTypes'
    BY <1>1 DEF Types, SceneTypes, Still
  <2>2. late' \in Lates \cup {Nil}
    <3>1. dav.data \in Maybe /\ dav.same \in BOOLEAN /\ late \in Lates \cup {Nil}
      BY ExchangeFacts DEF Exchanges, ExchangeTypes
    <3>2. [kind |-> "late", data |-> dav.data, same |-> dav.same] \in Lates
      BY <3>1 DEF Lates
    <3> QED BY <3>1, <3>2 DEF Leaving
  <2>3. ExchangeTypes'
    BY <1>2, <2>2, ExchangeFacts DEF ExchangeTypes, Still
  <2>4. UserTypes'
    BY UserFacts, ExchangeFacts DEF UserTypes
  <2> QED BY <2>1, <2>3, <2>4 DEF Types
<1>4. Dates'
  <2> SUFFICES ASSUME races' = {} PROVE Dates'
    BY DEF Dates
  <2>1. races = {}
    OBVIOUS
  <2>2. /\ Dated(cache) /\ Dated(dav.data) /\ Dated(local) /\ Dated(opened)
        /\ late # Nil => Dated(late.data)
        /\ dav.pc = "flatten" => dav.tok[1] <= epoch
    BY <1>1, <2>1 DEF Dates
  <2>3. Dated(Nil)
    BY DEF Dated, DatedAt
  <2>4. /\ Dated(cache') /\ Dated(dav'.data) /\ Dated(local') /\ Dated(opened')
        /\ dav'.pc = "flatten" => dav'.tok[1] <= epoch
    BY <1>2, <2>2, <2>3 DEF Still
  <2>5. late' # Nil => Dated(late'.data)
    <3>1. [kind |-> "late", data |-> dav.data, same |-> dav.same].data = dav.data
      OBVIOUS
    <3> QED BY <2>2, <3>1 DEF Leaving
  <2>6. Applied' = Applied
    BY DEF Applied, Still
  <2>7. \A b : DatedAt(b, epoch', Applied', scene') = Dated(b)
    BY <2>6 DEF Dated, Still
  <2>8. /\ DatedAt(cache', epoch', Applied', scene')
        /\ DatedAt(dav'.data, epoch', Applied', scene')
        /\ DatedAt(local', epoch', Applied', scene')
        /\ DatedAt(opened', epoch', Applied', scene')
        /\ late' # Nil => DatedAt(late'.data, epoch', Applied', scene')
        /\ dav'.pc = "flatten" => dav'.tok[1] <= epoch'
    BY <2>4, <2>5, <2>7 DEF Still
  <2> QED BY <2>8 DEF Dates, Dated
<1>5. Backing'
  <2> SUFFICES ASSUME mode = "translate", races' = {}
               PROVE  ServerShows' /\ BridgeKnows' /\ SavesHeld'
    BY DEF Backing, Still
  <2>1. ServerShows
    BY <1>1 DEF Backing
  <2>2. ServerShows'
    BY <1>2, <2>1 DEF ServerShows, Backed, Body, Still
  <2> QED BY <2>2
<1> QED BY <1>3, <1>4, <1>5 DEF FileInvariant

LEMMA BridgeFacts ==
    ASSUME FileInvariant
    PROVE  /\ mem \in Memories /\ base \in Maybe
           /\ stored # Nil => stored \in Memories
           /\ stored \in Memories \cup {Nil}
           /\ mem.etag \in Tokens /\ mem.synced \in Maybe
           /\ dav.tok \in Tokens /\ dav.data \in Maybe
           /\ mode = "translate" /\ races = {} => BridgeKnows /\ SavesHeld
<1>1. BridgeTypes
  BY DEF FileInvariant, Types
<1>2. mode = "translate" /\ races = {} => BridgeKnows /\ SavesHeld
  BY DEF FileInvariant, Backing
<1>3. dav.tok \in Tokens /\ dav.data \in Maybe
  BY ExchangeFacts DEF Exchanges
<1> QED BY <1>1, <1>2, <1>3 DEF BridgeTypes, Memories

\* While the bridge is in none of the states that rely on what it last saw,
\* it only has to know what is synchronized.
LEMMA KnowsEnough ==
    ASSUME scene' = scene, pc' \in {"poll", "down", "seed", "refreshHead"},
           Body(mem'.synced) \subseteq scene,
           stored' # Nil => Body(stored'.synced) \subseteq scene
    PROVE  BridgeKnows'
BY DEF BridgeKnows, Body

\* A step of the bridge that leaves the mirror alone and then relies on
\* nothing but what is synchronized.
LEMMA LooksAround ==
    ASSUME FileInvariant, Still, Leaving, Exchanging, UNCHANGED <<userVars, races>>,
           pc' \in {"poll", "down", "seed", "refreshHead"},
           mem' \in Memories, stored' \in {stored, mem'}, base' \in {base, local},
           mode = "translate" /\ races = {} => Body(mem'.synced) \subseteq scene
    PROVE  FileInvariant'
<1>1. BridgeTypes'
  BY BridgeFacts, UserFacts DEF BridgeTypes
<1>2. mode = "translate" /\ races' = {} => BridgeKnows' /\ SavesHeld'
  <2> SUFFICES ASSUME mode = "translate", races = {}
               PROVE  BridgeKnows' /\ SavesHeld'
    OBVIOUS
  <2>1. BridgeKnows /\ SavesHeld
    BY BridgeFacts
  <2>2. SavesHeld'
    BY <2>1 DEF SavesHeld, Held, Body, Still, userVars
  <2>3. stored' # Nil => Body(stored'.synced) \subseteq scene
    BY <2>1 DEF BridgeKnows
  <2> QED BY <2>2, <2>3, KnowsEnough DEF Still
<1> QED BY <1>1, <1>2, BridgeKeeps DEF userVars

\* The mirror is replaced by bytes the scene shows: if the mirror was what the
\* bridge takes it for, nothing is lost with it.
LEMMA Replaces ==
    ASSUME FileInvariant, Still, late' = late, dav' = Idle, pc' = "poll",
           UNCHANGED <<base, opened, user, saved>>,
           NEW was, Overwrite(was, dav.data),
           mem' \in Memories, mem'.synced = dav.data, stored' \in {stored, mem'},
           mode = "translate" /\ races = {} =>
               Body(was) \subseteq scene /\ Body(dav.data) \subseteq scene
    PROVE  FileInvariant'
<1>1. BridgeTypes'
  BY BridgeFacts DEF BridgeTypes
<1>2. local' = dav.data /\ (races' = {} => races = {} /\ local = was)
  BY DEF Overwrite
<1>3. mode = "translate" /\ races' = {} => BridgeKnows' /\ SavesHeld'
  <2> SUFFICES ASSUME mode = "translate", races' = {}
               PROVE  BridgeKnows' /\ SavesHeld'
    OBVIOUS
  <2>1. BridgeKnows /\ SavesHeld /\ Body(local) \subseteq scene /\ Body(dav.data) \subseteq scene
    BY <1>2, BridgeFacts
  <2>2. stored' # Nil => Body(stored'.synced) \subseteq scene
    BY <2>1 DEF BridgeKnows
  <2>3. BridgeKnows'
    BY <2>1, <2>2, KnowsEnough DEF Still
  <2>4. Held \subseteq scene \cup Held'
    BY <2>1 DEF Held, Body
  <2>5. SavesHeld'
    BY <2>1, <2>4 DEF SavesHeld, Still
  <2> QED BY <2>3, <2>5
<1>4. Exchanging /\ Leaving
  BY DEF Exchanging, Leaving
<1> QED BY <1>1, <1>2, <1>3, <1>4, BridgeKeeps

\* A step of the bridge that leaves the mirror alone.
LEMMA Proceeds ==
    ASSUME FileInvariant, Still, late' = late, Exchanging, UNCHANGED <<userVars, races>>,
           mem' \in Memories, stored' \in {stored, mem'}, base' \in {base, local},
           mode = "translate" /\ races = {} => BridgeKnows'
    PROVE  FileInvariant'
<1>1. BridgeTypes'
  BY BridgeFacts, UserFacts DEF BridgeTypes
<1>2. mode = "translate" /\ races' = {} => SavesHeld'
  BY BridgeFacts DEF SavesHeld, Held, Body, Still, userVars
<1>3. Leaving
  BY DEF Leaving
<1> QED BY <1>1, <1>2, <1>3, BridgeKeeps DEF userVars

LEMMA PersistStores == Persist => stored' \in {stored, mem'}
BY DEF Persist

LEMMA OtherFileStill == UNCHANGED otherFile => Still /\ late' = late /\ Leaving
BY DEF otherFile, Still, Leaving

LEMMA LoopExchanges == Loop => pc' = "poll" /\ dav' = Idle /\ Exchanging
BY DEF Loop, Hangup, Exchanging

LEMMA AnsweredIsBacked ==
    ASSUME FileInvariant, dav.pc = "done", Succeeded, mode = "translate", races = {}
    PROVE  Body(dav.data) \subseteq scene
BY ExchangeFacts DEF Backed, Succeeded

LEMMA CleanTyped ==
    ASSUME NEW etag \in Tokens, NEW data \in Maybe
    PROVE  Clean(etag, data) \in Memories /\ Clean(etag, data).synced = data
BY DEF Clean, Blank, Memories, Maybe, Tokens

LEMMA BlankTyped == Blank \in Memories /\ Blank.synced = Nil
BY DEF Blank, Memories, Maybe, Tokens

LEMMA UnblockedTyped ==
    ASSUME FileInvariant
    PROVE  /\ Unblocked \in Memories
           /\ Unblocked.synced = mem.synced /\ Unblocked.etag = mem.etag
           /\ Unblocked.blocked = IF local # mem.blocked THEN Nil ELSE mem.blocked
<1>1. mem \in Memories
  BY BridgeFacts
<1>2. CASE local = mem.blocked
  BY <1>1, <1>2 DEF Unblocked
<1>3. CASE local # mem.blocked
  <2>1. Unblocked = [mem EXCEPT !.blocked = Nil]
    BY <1>3 DEF Unblocked
  <2> QED BY <1>1, <1>3, <2>1 DEF Memories, Maybe
<1> QED BY <1>2, <1>3

\* Everything a bridge action needs to know, in one place.
LEMMA Known ==
    ASSUME FileInvariant, mode = "translate", races = {}
    PROVE  /\ BridgeKnows
           /\ Body(mem.synced) \subseteq scene
           /\ stored # Nil => Body(stored.synced) \subseteq scene
           /\ Body(Nil) = {}
BY BridgeFacts DEF BridgeKnows, Body

LEMMA StartSteps == FileInvariant /\ Start => FileInvariant'
<1> SUFFICES ASSUME FileInvariant, Start PROVE FileInvariant'
  OBVIOUS
<1>1. /\ pc' = "seed" /\ mem' = (IF stored = Nil THEN Blank ELSE stored)
      /\ base' = local /\ stored' = stored
      /\ dav' = Request("GET", mem'.etag, Nil)
      /\ UNCHANGED <<otherFile, userVars, races>>
  BY DEF Start, Send
<1>2. mem' \in Memories
  BY <1>1, BridgeFacts, BlankTyped
<1>3. Exchanging
  BY <1>1, <1>2 DEF Exchanging, Memories
<1>4. mode = "translate" /\ races = {} => Body(mem'.synced) \subseteq scene
  <2> SUFFICES ASSUME mode = "translate", races = {} PROVE Body(mem'.synced) \subseteq scene
    OBVIOUS
  <2> QED BY <1>1, Known, BlankTyped
<1> QED BY <1>1, <1>2, <1>3, <1>4, OtherFileStill, LooksAround

LEMMA SeedFailsSteps == FileInvariant /\ SeedFails => FileInvariant'
<1> SUFFICES ASSUME FileInvariant, SeedFails PROVE FileInvariant'
  OBVIOUS
<1>1. /\ pc' = "down" /\ dav' = Idle
      /\ UNCHANGED <<mem, stored, base>>
      /\ UNCHANGED <<otherFile, userVars, races>>
  BY DEF SeedFails, Hangup
<1>2. Exchanging
  BY <1>1 DEF Exchanging
<1> QED BY <1>1, <1>2, Known, BridgeFacts, OtherFileStill, LooksAround

LEMMA SeedNewSteps == FileInvariant /\ SeedNew => FileInvariant'
<1> SUFFICES ASSUME FileInvariant, SeedNew PROVE FileInvariant'
  OBVIOUS
<1>1. /\ dav.pc = "done" /\ Succeeded /\ Overwrite(Nil, dav.data)
      /\ mem' = Clean(dav.tok, dav.data) /\ Persist /\ Loop
      /\ UNCHANGED <<base, opened, user, saved>>
      /\ UNCHANGED otherFile
  BY DEF SeedNew, Answered
<1>2. mem' \in Memories /\ mem'.synced = dav.data
  BY <1>1, BridgeFacts, CleanTyped
<1>3. mode = "translate" /\ races = {} =>
        Body(Nil) \subseteq scene /\ Body(dav.data) \subseteq scene
  BY <1>1, AnsweredIsBacked, Known
<1> QED BY <1>1, <1>2, <1>3, PersistStores, LoopExchanges, OtherFileStill, Replaces

LEMMA SeedSameSteps == FileInvariant /\ SeedSame => FileInvariant'
<1> SUFFICES ASSUME FileInvariant, SeedSame PROVE FileInvariant'
  OBVIOUS
<1>1. /\ dav.pc = "done" /\ Succeeded
      /\ mem' = Clean(dav.tok, dav.data) /\ Persist /\ Loop
      /\ base' = base /\ UNCHANGED <<userVars, races>>
      /\ UNCHANGED otherFile
  BY DEF SeedSame, Answered
<1>2. mem' \in Memories /\ mem'.synced = dav.data
  BY <1>1, BridgeFacts, CleanTyped
<1>3. mode = "translate" /\ races = {} => Body(mem'.synced) \subseteq scene
  BY <1>1, <1>2, AnsweredIsBacked
<1> QED BY <1>1, <1>2, <1>3, PersistStores, LoopExchanges, OtherFileStill, LooksAround

LEMMA SeedStaleSteps == FileInvariant /\ SeedStale => FileInvariant'
<1> SUFFICES ASSUME FileInvariant, SeedStale PROVE FileInvariant'
  OBVIOUS
<1>1. /\ dav.pc = "done" /\ Succeeded /\ StoredClean /\ pc' = "seedReplace" /\ dav' = dav
      /\ UNCHANGED <<mem, stored, base>> /\ UNCHANGED <<userVars, races>>
      /\ UNCHANGED otherFile
  BY DEF SeedStale, Answered
<1>2. mode = "translate" /\ races = {} => BridgeKnows'
  <2> SUFFICES ASSUME mode = "translate", races = {} PROVE BridgeKnows'
    OBVIOUS
  <2>1. stored # Nil /\ base = stored.synced
    BY <1>1 DEF StoredClean
  <2>2. Body(base) \subseteq scene /\ Body(dav.data) \subseteq scene
    BY <1>1, <2>1, Known, AnsweredIsBacked
  <2> QED BY <1>1, <2>2, Known, OtherFileStill DEF BridgeKnows, Body, Still
<1>3. Exchanging
  BY <1>1 DEF Exchanging
<1> QED BY <1>1, <1>2, <1>3, BridgeFacts, OtherFileStill, Proceeds

LEMMA SeedReplaceSteps == FileInvariant /\ SeedReplace => FileInvariant'
<1> SUFFICES ASSUME FileInvariant, SeedReplace PROVE FileInvariant'
  OBVIOUS
<1>1. /\ pc = "seedReplace" /\ Overwrite(base, dav.data)
      /\ mem' = Clean(dav.tok, dav.data) /\ Persist /\ Loop
      /\ UNCHANGED <<base, opened, user, saved>>
      /\ UNCHANGED otherFile
  BY DEF SeedReplace
<1>2. mem' \in Memories /\ mem'.synced = dav.data
  BY <1>1, BridgeFacts, CleanTyped
<1>3. mode = "translate" /\ races = {} =>
        Body(base) \subseteq scene /\ Body(dav.data) \subseteq scene
  BY <1>1, Known DEF BridgeKnows
<1> QED BY <1>1, <1>2, <1>3, PersistStores, LoopExchanges, OtherFileStill, Replaces

LEMMA SeedRecoverSteps == FileInvariant /\ SeedRecover => FileInvariant'
<1> SUFFICES ASSUME FileInvariant, SeedRecover PROVE FileInvariant'
  OBVIOUS
<1> DEFINE synced == IF mem.synced = Nil THEN dav.data ELSE mem.synced
<1>1. /\ dav.pc = "done" /\ Succeeded /\ Persist /\ Loop
      /\ base' = base /\ UNCHANGED <<userVars, races>>
      /\ UNCHANGED otherFile
  BY DEF SeedRecover, Answered
<1>2. \E blocked \in {mem.blocked, local} :
        mem' = [etag |-> dav.tok, synced |-> synced, pending |-> FALSE, blocked |-> blocked,
                recovery |-> local]
  BY DEF SeedRecover
<1>3. synced \in Maybe
  BY BridgeFacts
<1>4. mode = "translate" /\ races = {} => Body(synced) \subseteq scene
  BY <1>1, AnsweredIsBacked, Known
<1> HIDE DEF synced
<1>5. mem.blocked \in Maybe /\ local \in Maybe /\ dav.tok \in Tokens
  BY BridgeFacts, UserFacts DEF Memories
<1>6. mem' \in Memories /\ mem'.synced = synced
  BY <1>2, <1>3, <1>5 DEF Memories
<1>7. mode = "translate" /\ races = {} => Body(mem'.synced) \subseteq scene
  BY <1>4, <1>6
<1> QED BY <1>1, <1>6, <1>7, PersistStores, LoopExchanges, OtherFileStill, LooksAround

LEMMA SeedSteps == FileInvariant /\ Seed => FileInvariant'
BY SeedFailsSteps, SeedNewSteps, SeedSameSteps, SeedStaleSteps, SeedReplaceSteps,
   SeedRecoverSteps DEF Seed

LEMMA PollPendingSteps == FileInvariant /\ PollPending => FileInvariant'
<1> SUFFICES ASSUME FileInvariant, PollPending PROVE FileInvariant'
  OBVIOUS
<1>1. /\ pc' = "refreshHead" /\ base' = local /\ UNCHANGED <<mem, stored>>
      /\ dav' = Request("HEAD", mem.etag, Nil)
      /\ UNCHANGED <<userVars, races>> /\ UNCHANGED otherFile
  BY DEF PollPending, Send
<1>2. Exchanging
  BY <1>1, BridgeFacts DEF Exchanging
<1> QED BY <1>1, <1>2, Known, BridgeFacts, OtherFileStill, LooksAround

LEMMA RefreshHeadSteps == FileInvariant /\ RefreshHead => FileInvariant'
<1> SUFFICES ASSUME FileInvariant, RefreshHead PROVE FileInvariant'
  OBVIOUS
<1>1. /\ base' = local /\ UNCHANGED <<userVars, races>> /\ UNCHANGED otherFile
      /\ dav.tok \in Tokens /\ mem \in Memories
  BY BridgeFacts DEF RefreshHead
<1>2. CASE ~Succeeded
  <2>1. UNCHANGED <<mem, stored>> /\ Loop
    BY <1>2 DEF RefreshHead
  <2> QED BY <1>1, <2>1, Known, LoopExchanges, OtherFileStill, LooksAround
<1>3. CASE Succeeded /\ local = mem.synced
  <2>1. /\ mem' = [mem EXCEPT !.etag = dav.tok] /\ pc' = "refreshGet" /\ stored' = stored
        /\ dav' = Request("GET", mem'.etag, Nil)
    BY <1>3 DEF RefreshHead, Send
  <2>2. mem' \in Memories /\ mem'.synced = mem.synced /\ mem'.etag = dav.tok
    BY <1>1, <2>1 DEF Memories
  <2>3. Exchanging
    BY <1>1, <2>1, <2>2 DEF Exchanging
  <2>4. mode = "translate" /\ races = {} => BridgeKnows'
    <3> SUFFICES ASSUME mode = "translate", races = {} PROVE BridgeKnows'
      OBVIOUS
    <3>1. Body(mem.synced) \subseteq scene /\ (stored # Nil => Body(stored.synced) \subseteq scene)
      BY Known
    <3> QED BY <1>1, <1>3, <2>1, <2>2, <3>1, OtherFileStill DEF BridgeKnows, Body, Still
  <2> QED BY <1>1, <2>1, <2>2, <2>3, <2>4, OtherFileStill, Proceeds
<1>4. CASE Succeeded /\ local # mem.synced
  <2>1. mem' = [mem EXCEPT !.etag = dav.tok, !.pending = FALSE] /\ Persist /\ Loop
    BY <1>4 DEF RefreshHead
  <2>2. mem' \in Memories /\ mem'.synced = mem.synced
    BY <1>1, <2>1 DEF Memories
  <2>3. mode = "translate" /\ races = {} => Body(mem'.synced) \subseteq scene
    BY <2>2, Known
  <2> QED BY <1>1, <2>1, <2>2, <2>3, PersistStores, LoopExchanges, OtherFileStill, LooksAround
<1> QED BY <1>2, <1>3, <1>4

LEMMA RefreshGetSteps == FileInvariant /\ RefreshGet => FileInvariant'
<1> SUFFICES ASSUME FileInvariant, RefreshGet PROVE FileInvariant'
  OBVIOUS
<1>1. /\ pc = "refreshGet" /\ dav.pc = "done" /\ UNCHANGED <<mem, stored, base>>
      /\ UNCHANGED <<userVars, races>> /\ UNCHANGED otherFile
  BY DEF RefreshGet, Answered
<1>2. CASE Succeeded /\ local = base
  <2>1. pc' = "refreshReplace" /\ dav' = dav
    BY <1>2 DEF RefreshGet
  <2>2. mode = "translate" /\ races = {} => BridgeKnows'
    <3> SUFFICES ASSUME mode = "translate", races = {} PROVE BridgeKnows'
      OBVIOUS
    <3>1. Body(dav.data) \subseteq scene /\ BridgeKnows
      BY <1>1, <1>2, AnsweredIsBacked, Known
    <3> QED BY <1>1, <2>1, <3>1, OtherFileStill DEF BridgeKnows, Body, Still
  <2>3. Exchanging
    BY <2>1 DEF Exchanging
  <2> QED BY <1>1, <2>2, <2>3, BridgeFacts, OtherFileStill, Proceeds
<1>3. CASE ~(Succeeded /\ local = base)
  <2>1. Loop
    BY <1>3 DEF RefreshGet
  <2> QED BY <1>1, <2>1, Known, BridgeFacts, LoopExchanges, OtherFileStill, LooksAround
<1> QED BY <1>2, <1>3

LEMMA RefreshReplaceSteps == FileInvariant /\ RefreshReplace => FileInvariant'
<1> SUFFICES ASSUME FileInvariant, RefreshReplace PROVE FileInvariant'
  OBVIOUS
<1>1. /\ pc = "refreshReplace" /\ Overwrite(base, dav.data)
      /\ mem' = [mem EXCEPT !.etag = dav.tok, !.synced = dav.data, !.pending = FALSE,
                            !.recovery = Nil]
      /\ Persist /\ Loop
      /\ UNCHANGED <<base, opened, user, saved>> /\ UNCHANGED otherFile
  BY DEF RefreshReplace
<1>2. mem \in Memories /\ dav.tok \in Tokens /\ dav.data \in Maybe
  BY BridgeFacts
<1>3. mem' \in Memories /\ mem'.synced = dav.data
  BY <1>1, <1>2 DEF Memories, Maybe
<1>4. mode = "translate" /\ races = {} =>
        Body(base) \subseteq scene /\ Body(dav.data) \subseteq scene
  BY <1>1, Known DEF BridgeKnows
<1> QED BY <1>1, <1>3, <1>4, PersistStores, LoopExchanges, OtherFileStill, Replaces

LEMMA NoticeSteps == FileInvariant /\ Notice => FileInvariant'
<1> SUFFICES ASSUME FileInvariant, Notice PROVE FileInvariant'
  OBVIOUS
<1>1. /\ pc = "poll" /\ pc' = "poll" /\ mem' = Unblocked /\ base' = local /\ stored' = stored
      /\ dav' = dav
      /\ UNCHANGED <<userVars, races>> /\ UNCHANGED otherFile
  BY DEF Notice, fileVars, otherFile
<1>2. mem' \in Memories /\ mem'.synced = mem.synced
  BY <1>1, UnblockedTyped
<1>3. mode = "translate" /\ races = {} => Body(mem'.synced) \subseteq scene
  BY <1>2, Known
<1>4. Exchanging
  BY <1>1 DEF Exchanging
<1> QED BY <1>1, <1>2, <1>3, <1>4, OtherFileStill, LooksAround

LEMMA UploadSteps == FileInvariant /\ Upload => FileInvariant'
<1> SUFFICES ASSUME FileInvariant, Upload PROVE FileInvariant'
  OBVIOUS
<1>1. /\ mem' = [Unblocked EXCEPT !.recovery = local] /\ Persist
      /\ pc' = "put" /\ base' = local /\ dav' = Request("PUT", mem'.etag, local)
      /\ UNCHANGED <<userVars, races>> /\ UNCHANGED otherFile
  BY DEF Upload, Send
<1>2. PICK u \in Memories : u = Unblocked /\ u.synced = mem.synced
  BY UnblockedTyped
<1>3. local \in Maybe
  BY UserFacts
<1>4. mem' \in Memories /\ mem'.synced = mem.synced /\ mem'.etag \in Tokens
  BY <1>1, <1>2, <1>3 DEF Memories
<1>5. Exchanging
  BY <1>1, <1>4 DEF Exchanging
<1>6. dav'.need = "match" /\ dav'.data = local
  BY <1>1, <1>3, <1>4, RequestTyped
<1>7. mode = "translate" /\ races = {} => BridgeKnows'
  <2> SUFFICES ASSUME mode = "translate", races = {} PROVE BridgeKnows'
    OBVIOUS
  <2>1. /\ Body(mem.synced) \subseteq scene
        /\ stored # Nil => Body(stored.synced) \subseteq scene
    BY Known
  <2>2. stored' # Nil => Body(stored'.synced) \subseteq scene
    BY <1>1, <1>4, <2>1, PersistStores
  <2>3. scene' = scene
    BY <1>1, OtherFileStill DEF Still
  <2> QED BY <1>1, <1>4, <1>6, <2>1, <2>2, <2>3 DEF BridgeKnows, Body
<1> QED BY <1>1, <1>4, <1>5, <1>7, PersistStores, OtherFileStill, Proceeds

\* An accepted upload is in the scene: what the bridge uploaded becomes what
\* it takes for synchronized.
LEMMA PutAnsweredSteps == FileInvariant /\ PutAnswered => FileInvariant'
<1> SUFFICES ASSUME FileInvariant, PutAnswered PROVE FileInvariant'
  OBVIOUS
<1>1. /\ pc = "put" /\ dav.pc = "done" /\ Loop /\ base' = base
      /\ UNCHANGED <<userVars, races>> /\ UNCHANGED otherFile
  BY DEF PutAnswered, Answered
<1>2. mem \in Memories /\ dav.tok \in Tokens /\ base \in Maybe
  BY BridgeFacts
<1>3. /\ mem' \in Memories /\ stored' \in {stored, mem'}
      /\ mem'.synced = mem.synced \/ (Succeeded /\ mem'.synced = base)
  <2>1. CASE Succeeded
    <3>1. /\ mem' = [mem EXCEPT !.synced = base, !.etag = dav.tok, !.pending = TRUE,
                                !.blocked = Nil]
          /\ Persist
      BY <2>1 DEF PutAnswered, Succeeded
    <3> QED BY <1>2, <2>1, <3>1, PersistStores DEF Memories, Maybe
  <2>2. CASE dav.status = "conflict"
    <3>1. mem' = [mem EXCEPT !.blocked = base] /\ Persist
      BY <2>2 DEF PutAnswered, Succeeded
    <3> QED BY <1>2, <3>1, PersistStores DEF Memories
  <2>3. CASE dav.status \in {"error", "lost"}
    <3>1. mem' = mem /\ (Persist \/ stored' = stored)
      BY <2>3 DEF PutAnswered, Succeeded
    <3> QED BY <1>2, <3>1, PersistStores
  <2>4. CASE dav.status = "none"
    BY <1>1, <2>4, ExchangeFacts DEF ExchangeTypes
  <2>5. dav.status \in {"none", "ok", "conflict", "error", "lost"}
    BY ExchangeFacts DEF Exchanges
  <2> QED BY <2>1, <2>2, <2>3, <2>4, <2>5 DEF Succeeded
<1>4. mode = "translate" /\ races = {} => Body(mem'.synced) \subseteq scene
  <2> SUFFICES ASSUME mode = "translate", races = {} PROVE Body(mem'.synced) \subseteq scene
    OBVIOUS
  <2>1. dav.data = base /\ Body(mem.synced) \subseteq scene
    BY <1>1, Known DEF BridgeKnows
  <2>2. Succeeded => Body(base) \subseteq scene
    BY <1>1, <2>1, AnsweredIsBacked
  <2> QED BY <1>3, <2>1, <2>2
<1> QED BY <1>1, <1>3, <1>4, LoopExchanges, OtherFileStill, LooksAround

LEMMA PollRemoteSteps == FileInvariant /\ PollRemote => FileInvariant'
<1> SUFFICES ASSUME FileInvariant, PollRemote PROVE FileInvariant'
  OBVIOUS
<1>1. /\ local \in {mem.synced, mem.blocked} /\ pc' = "head" /\ mem' = Unblocked
      /\ base' = local /\ stored' = stored /\ dav' = Request("HEAD", mem'.etag, Nil)
      /\ UNCHANGED <<userVars, races>> /\ UNCHANGED otherFile
  BY DEF PollRemote, Send
<1>2. /\ mem' \in Memories /\ mem'.synced = mem.synced /\ mem'.etag \in Tokens
      /\ mem'.blocked = IF local # mem.blocked THEN Nil ELSE mem.blocked
  BY <1>1, UnblockedTyped, BridgeFacts
<1>3. Exchanging
  BY <1>1, <1>2 DEF Exchanging
<1>4. mode = "translate" /\ races = {} => BridgeKnows'
  <2> SUFFICES ASSUME mode = "translate", races = {} PROVE BridgeKnows'
    OBVIOUS
  <2>1. /\ Body(mem.synced) \subseteq scene
        /\ stored # Nil => Body(stored.synced) \subseteq scene
        /\ Body(Nil) \subseteq scene
    BY Known
  <2>2. mem'.blocked = Nil => Body(local) \subseteq scene
    BY <1>1, <1>2, <2>1
  <2>3. scene' = scene
    BY <1>1, OtherFileStill DEF Still
  <2> QED BY <1>1, <1>2, <2>1, <2>2, <2>3 DEF BridgeKnows, Body
<1> QED BY <1>1, <1>2, <1>3, <1>4, OtherFileStill, Proceeds

LEMMA HeadAnsweredSteps == FileInvariant /\ HeadAnswered => FileInvariant'
<1> SUFFICES ASSUME FileInvariant, HeadAnswered PROVE FileInvariant'
  OBVIOUS
<1>1. /\ pc = "head" /\ base' = base /\ UNCHANGED <<userVars, races>> /\ UNCHANGED otherFile
      /\ mem \in Memories /\ dav.tok \in Tokens
  BY BridgeFacts DEF HeadAnswered, Answered
<1>2. CASE Succeeded /\ dav.tok # mem.etag /\ mem.blocked # Nil
  <2>1. mem' = [mem EXCEPT !.etag = dav.tok] /\ Persist /\ Loop
    BY <1>2 DEF HeadAnswered
  <2>2. mem' \in Memories /\ mem'.synced = mem.synced
    BY <1>1, <2>1 DEF Memories
  <2>3. mode = "translate" /\ races = {} => Body(mem'.synced) \subseteq scene
    BY <2>2, Known
  <2> QED BY <1>1, <2>1, <2>2, <2>3, PersistStores, LoopExchanges, OtherFileStill, LooksAround
<1>3. CASE Succeeded /\ dav.tok # mem.etag /\ mem.blocked = Nil
  <2>1. /\ pc' = "get" /\ mem' = mem /\ stored' = stored
        /\ dav' = Request("GET", mem.etag, Nil)
    BY <1>3 DEF HeadAnswered, Send
  <2>2. Exchanging
    BY <2>1, BridgeFacts DEF Exchanging
  <2>3. mode = "translate" /\ races = {} => BridgeKnows'
    <3> SUFFICES ASSUME mode = "translate", races = {} PROVE BridgeKnows'
      OBVIOUS
    <3>1. BridgeKnows /\ scene' = scene
      BY <1>1, Known, OtherFileStill DEF Still
    <3> QED BY <1>1, <1>3, <2>1, <3>1 DEF BridgeKnows, Body
  <2> QED BY <1>1, <2>1, <2>2, <2>3, OtherFileStill, Proceeds
<1>4. CASE ~(Succeeded /\ dav.tok # mem.etag)
  <2>1. UNCHANGED <<mem, stored>> /\ Loop
    BY <1>4 DEF HeadAnswered
  <2> QED BY <1>1, <2>1, Known, LoopExchanges, OtherFileStill, LooksAround
<1> QED BY <1>2, <1>3, <1>4

LEMMA GetAnsweredSteps == FileInvariant /\ GetAnswered => FileInvariant'
<1> SUFFICES ASSUME FileInvariant, GetAnswered PROVE FileInvariant'
  OBVIOUS
<1>1. /\ pc = "get" /\ dav.pc = "done" /\ base' = base
      /\ UNCHANGED <<userVars, races>> /\ UNCHANGED otherFile
      /\ mem \in Memories /\ dav.tok \in Tokens /\ local \in Maybe
  BY BridgeFacts, UserFacts DEF GetAnswered, Answered
<1>2. CASE ~Succeeded
  <2>1. UNCHANGED <<mem, stored>> /\ Loop
    BY <1>2 DEF GetAnswered
  <2> QED BY <1>1, <2>1, Known, LoopExchanges, OtherFileStill, LooksAround
<1>3. CASE Succeeded /\ local = base
  <2>1. pc' = "replace" /\ dav' = dav /\ UNCHANGED <<mem, stored>>
    BY <1>3 DEF GetAnswered
  <2>2. mode = "translate" /\ races = {} => BridgeKnows'
    <3> SUFFICES ASSUME mode = "translate", races = {} PROVE BridgeKnows'
      OBVIOUS
    <3>1. Body(dav.data) \subseteq scene /\ BridgeKnows /\ scene' = scene
      BY <1>1, <1>3, AnsweredIsBacked, Known, OtherFileStill DEF Still
    <3> QED BY <1>1, <2>1, <3>1 DEF BridgeKnows, Body
  <2>3. Exchanging
    BY <2>1 DEF Exchanging
  <2> QED BY <1>1, <2>1, <2>2, <2>3, OtherFileStill, Proceeds
<1>4. CASE Succeeded /\ local # base
  <2>1. /\ mem' = [mem EXCEPT !.etag = dav.tok, !.blocked = local, !.recovery = local]
        /\ Persist /\ Loop
    BY <1>4 DEF GetAnswered
  <2>2. mem' \in Memories /\ mem'.synced = mem.synced
    BY <1>1, <2>1 DEF Memories
  <2>3. mode = "translate" /\ races = {} => Body(mem'.synced) \subseteq scene
    BY <2>2, Known
  <2> QED BY <1>1, <2>1, <2>2, <2>3, PersistStores, LoopExchanges, OtherFileStill, LooksAround
<1> QED BY <1>2, <1>3, <1>4

LEMMA MirrorReplaceSteps == FileInvariant /\ MirrorReplace => FileInvariant'
<1> SUFFICES ASSUME FileInvariant, MirrorReplace PROVE FileInvariant'
  OBVIOUS
<1>1. /\ pc = "replace" /\ Overwrite(base, dav.data)
      /\ mem' = [mem EXCEPT !.etag = dav.tok, !.synced = dav.data]
      /\ Persist /\ Loop
      /\ UNCHANGED <<base, opened, user, saved>> /\ UNCHANGED otherFile
  BY DEF MirrorReplace
<1>2. mem \in Memories /\ dav.tok \in Tokens /\ dav.data \in Maybe
  BY BridgeFacts
<1>3. mem' \in Memories /\ mem'.synced = dav.data
  BY <1>1, <1>2 DEF Memories
<1>4. mode = "translate" /\ races = {} =>
        Body(base) \subseteq scene /\ Body(dav.data) \subseteq scene
  BY <1>1, Known DEF BridgeKnows
<1> QED BY <1>1, <1>3, <1>4, PersistStores, LoopExchanges, OtherFileStill, Replaces

LEMMA BridgeCrashSteps == FileInvariant /\ Crash => FileInvariant'
<1> SUFFICES ASSUME FileInvariant, Crash PROVE FileInvariant'
  OBVIOUS
<1>1. /\ pc' = "down" /\ dav' = Idle /\ UNCHANGED <<mem, stored, base>>
      /\ UNCHANGED <<userVars, races>> /\ Still /\ Leaving
  BY DEF Crash, Hangup, Still, Leaving
<1>2. Exchanging
  BY <1>1 DEF Exchanging
<1> QED BY <1>1, <1>2, Known, BridgeFacts, LooksAround

LEMMA BridgeSteps == FileInvariant /\ (Bridge \/ Crash) => FileInvariant'
BY StartSteps, SeedSteps, PollPendingSteps, RefreshHeadSteps, RefreshGetSteps,
   RefreshReplaceSteps, NoticeSteps, UploadSteps, PutAnsweredSteps, PollRemoteSteps,
   HeadAnsweredSteps, GetAnsweredSteps, MirrorReplaceSteps, BridgeCrashSteps DEF Bridge

-----------------------------------------------------------------------------
(* The theorems.                                                            *)

LEMMA FileInitially == Init => FileInvariant
<1> SUFFICES ASSUME Init PROVE FileInvariant
  OBVIOUS
<1>1. /\ \E s \in Scenarios : mode = s.mode
      /\ epoch = 0 /\ seq = InitialSeq /\ scene = {} /\ reserved = Nil
      /\ cache = Nil /\ dav = Idle /\ late = Nil
      /\ local = Nil /\ opened = Nil /\ user = "idle" /\ saved = {}
      /\ pc = "down" /\ mem = Blank /\ stored = Nil /\ base = Nil
  BY DEF Init, FileInit
<1>2. Types
  <2>1. SceneTypes
    BY <1>1, ConstantsTyped, NothingIsABody DEF SceneTypes
  <2>2. ExchangeTypes
    BY <1>1, IdleTyped DEF ExchangeTypes, Maybe
  <2>3. BridgeTypes
    BY <1>1, BlankTyped DEF BridgeTypes, Maybe
  <2>4. UserTypes
    BY <1>1 DEF UserTypes, Maybe
  <2> QED BY <2>1, <2>2, <2>3, <2>4 DEF Types
<1>3. Dates
  BY <1>1, IdleTyped DEF Dates, Dated, DatedAt
<1>4. Backing
  BY <1>1, IdleTyped, BlankTyped DEF Backing, ServerShows, BridgeKnows, SavesHeld, Backed, Body
<1> QED BY <1>2, <1>3, <1>4 DEF FileInvariant

LEMMA FileStutters == FileInvariant /\ UNCHANGED vars => FileInvariant'
<1> SUFFICES ASSUME FileInvariant, UNCHANGED vars PROVE FileInvariant'
  OBVIOUS
<1>1. UNCHANGED <<otherFile, dav, races, bridgeVars>> /\ UNCHANGED userVars
  BY DEF vars, fileVars, otherFile
<1>2. /\ UserTypes'
      /\ races = {} => Dated(local') /\ Dated(opened')
      /\ mode = "translate" /\ races = {} => saved' \subseteq scene \cup Held'
  BY <1>1, UserFacts DEF UserTypes, userVars, Held, Body
<1> QED BY <1>1, <1>2, UserKeeps

LEMMA FileSteps == FileInvariant /\ [Next]_vars => FileInvariant'
BY ServerSteps, UserSteps, BridgeSteps, FileStutters DEF Next

\* The inductive invariant of the virtual file and its mirror: the token of
\* any bytes that may still be uploaded tells how much of the scene they show
\* (snapshot_token, validate_stage_snapshot), and what the bridge takes for
\* synchronized is in the scene (_run_bridge, _write_sync_state).
THEOREM FileInvariance == Spec => []FileInvariant
BY FileInitially, FileSteps, PTL DEF Spec

\* Whatever is uploaded, late or on time, an edit the scene shows is never
\* taken away by replace_from_stage_snapshot; maintenance, restarts and the
\* bridge take none away either.
THEOREM NewerWorkIsKept == Spec => NewerWorkKept
<1>1. FileInvariant /\ [Next]_vars => [races = {} => scene \subseteq scene']_vars
  <2> SUFFICES ASSUME FileInvariant, Next, races = {} PROVE scene \subseteq scene'
    BY DEF vars, fileVars
  <2>1. CASE Server
    BY <2>1, ServerSteps
  <2>2. CASE Bridge \/ User \/ Crash
    <3>1. scene' = scene
      BY <2>2 DEF Bridge, User, Crash, Start, Seed, SeedFails, SeedNew, SeedSame, SeedStale,
         SeedReplace, SeedRecover, PollPending, RefreshHead, RefreshGet, RefreshReplace, Notice,
         Upload, PutAnswered, PollRemote, HeadAnswered, GetAnswered, MirrorReplace, Open, Save,
         SaveBegin, SaveEnd, otherFile, fileVars
    <3> QED BY <3>1
  <2> QED BY <2>1, <2>2 DEF Next
<1> QED BY <1>1, FileInvariance, PTL DEF Spec, NewerWorkKept

\* A completed save is in the live scene or still in the DCC that made it,
\* whatever crashes, answers are lost or files change in between.  Without
\* the excepted races no recovery copy is ever the only place of a save.
THEOREM SavesAlwaysSurvive == Spec => []SavesSurvive
<1>1. FileInvariant => SavesSurvive
  <2> SUFFICES ASSUME FileInvariant, mode = "translate", races = {}, NEW e \in saved
               PROVE  \/ e \in scene
                      \/ local # Nil /\ e \in local.body
                      \/ user = "writing" /\ e \in opened.body
    BY DEF SavesSurvive
  <2>1. e \in scene \/ e \in Held
    BY UserFacts
  <2>2. CASE e \in Held
    BY <2>2 DEF Held, Body
  <2> QED BY <2>1, <2>2
<1> QED BY <1>1, FileInvariance, PTL
=============================================================================
