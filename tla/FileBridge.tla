----------------------------- MODULE FileBridge -----------------------------
(***************************************************************************)
(* The local mirror of the virtual file (scripts/local_vfs_bridge.py): a   *)
(* process that keeps a normal file in a directory equal to the served     *)
(* one, uploads what a DCC saves there once it has settled, keeps a        *)
(* recovery copy of every save until the server has it, and remembers in a *)
(* state file what was synchronized so that it can be restarted.           *)
(*                                                                         *)
(* The module composes the server (VirtualFile), the bridge and the user:  *)
(* each HTTP exchange of the bridge runs through the server's steps while  *)
(* the user may save at any moment.  A digest is the bytes themselves.     *)
(***************************************************************************)
EXTENDS VirtualFile

VARIABLES
    local,        \* the file in the mirror directory
    opened,       \* what the DCC has in memory
    user,         \* "idle" or "writing" (a save in place is half done)
    saved,        \* edits whose save the DCC has completed
    pc,           \* where the bridge is
    mem,          \* what _run_bridge holds and persist() stores
    stored,       \* the sync-state file
    recoveries,   \* the recovery copies on disk
    base,         \* local file as it was when the exchange began
    cand          \* the save candidate that is settling

bridgeVars == <<pc, mem, stored, recoveries, base, cand>>
userVars   == <<local, opened, user, saved>>
vars       == <<fileVars, bridgeVars, userVars>>

\* What the bridge and the user leave to the server.
otherFile == <<mode, epoch, seq, scene, reserved, layered, cache, late>>

\* etag, synced_hash, pending_refresh, blocked_hash, recovery_file.
Blank == [etag |-> <<0, 0>>, synced |-> Nil, pending |-> FALSE, blocked |-> Nil, recovery |-> Nil]

Partial == Bytes(<<0, 0>>, {}, "partial")

-----------------------------------------------------------------------------
(* The user.                                                                *)

\* The DCC loads the file.
Open ==
    /\ user = "idle"
    /\ local # Nil /\ local.kind = "usd" /\ opened # local
    /\ opened' = local
    /\ UNCHANGED <<fileVars, bridgeVars, local, user, saved>>

\* What saving edit e writes: the metadata the DCC opened, and more.
SavedBytes(e, kind) == Bytes(opened.tok, opened.body \cup {e}, kind)

\* The DCC saves through a temporary sibling and a rename ...
Save(e, kind) ==
    /\ user = "idle" /\ opened # Nil
    /\ e \in Saves \ saved
    /\ Spend("save")
    /\ local' = SavedBytes(e, kind)
    /\ opened' = SavedBytes(e, kind)
    /\ saved' = saved \cup {e}
    /\ UNCHANGED <<otherFile, dav, races, bridgeVars, user>>

\* ... or in place, so that the file is half written for a while.
SaveBegin ==
    /\ user = "idle" /\ opened # Nil
    /\ Saves \ saved # {}
    /\ Spend("save")
    /\ user' = "writing"
    /\ local' = Partial
    /\ UNCHANGED <<otherFile, dav, races, bridgeVars, opened, saved>>

SaveEnd(e) ==
    /\ user = "writing"
    /\ e \in Saves \ saved
    /\ user' = "idle"
    /\ local' = SavedBytes(e, "usd")
    /\ opened' = SavedBytes(e, "usd")
    /\ saved' = saved \cup {e}
    /\ UNCHANGED <<fileVars, bridgeVars>>

-----------------------------------------------------------------------------
(* The bridge.                                                              *)


\* _request: the exchange begins, ...
Send(op, data) == dav' = Request(op, mem'.etag, data)

\* ... and ends: the connection is closed.
Hangup == dav' = Idle

Answered(at)  == pc = at /\ dav.pc = "done"
Succeeded     == dav.status = "ok"

\* _write_sync_state: an operating-system error is only logged.
Persist ==
    \/ stored' = mem' /\ UNCHANGED budget
    \/ Spend("persist") /\ UNCHANGED stored

\* _preserve_recovery: the current copy is reused when it has these bytes.
Preserve(data) ==
    /\ recoveries' = recoveries \cup {data}
    /\ mem'.recovery = data

\* _remove_recovery: only the copy the bridge points to is removed.
Discard == recoveries' = recoveries \ {mem.recovery}

\* After a clean download nothing is blocked, pending or to be recovered.
Clean(etag, data) == [Blank EXCEPT !.etag = etag, !.synced = data]

\* os.replace of the mirror: a save that arrived after the check is lost.
Overwrite(expected, data) ==
    /\ local' = data
    /\ races' = IF local # expected THEN races \cup {"replace"} ELSE races

Loop == pc' = "poll" /\ Hangup

\* The process starts: it takes the stored state, looks at the local file
\* and fetches the remote one.
Start ==
    /\ pc = "down" /\ dav.op = "none"
    /\ pc' = "seed"
    /\ mem' = IF stored = Nil THEN Blank ELSE stored
    /\ base' = local
    /\ cand' = Nil
    /\ Send("GET", Nil)
    /\ UNCHANGED <<otherFile, budget, races, stored, recoveries, userVars>>

\* StoredClean: the local file is what was last synchronized.
StoredClean == IF stored = Nil THEN FALSE ELSE base = stored.synced

\* The first download failed, or a clean local file changed between the two
\* looks at it: the process exits.
SeedFails ==
    /\ Answered("seed")
    /\ \/ ~Succeeded
       \/ base # Nil /\ StoredClean /\ base # dav.data /\ local # base
    /\ pc' = "down" /\ Hangup
    /\ UNCHANGED <<otherFile, budget, races, mem, stored, recoveries, base, cand, userVars>>

\* There was no local file: what was fetched becomes it, unchecked.
SeedNew ==
    /\ Answered("seed") /\ Succeeded
    /\ base = Nil
    /\ Overwrite(Nil, dav.data)
    /\ mem' = Clean(dav.tok, dav.data)
    /\ Discard
    /\ Persist /\ Loop
    /\ UNCHANGED <<otherFile, base, cand, opened, user, saved>>

\* The local file is the remote one.
SeedSame ==
    /\ Answered("seed") /\ Succeeded
    /\ base = dav.data /\ local = base
    /\ mem' = Clean(dav.tok, dav.data)
    /\ Discard
    /\ Persist /\ Loop
    /\ UNCHANGED <<otherFile, races, base, cand, userVars>>

\* A clean local file will be replaced.
SeedStale ==
    /\ Answered("seed") /\ Succeeded
    /\ base # Nil /\ local = base /\ base # dav.data
    /\ StoredClean
    /\ pc' = "seedReplace"
    /\ UNCHANGED <<otherFile, dav, budget, races, mem, stored, recoveries, base, cand, userVars>>

SeedReplace ==
    /\ pc = "seedReplace"
    /\ Overwrite(base, dav.data)
    /\ mem' = Clean(dav.tok, dav.data)
    /\ Discard
    /\ Persist /\ Loop
    /\ UNCHANGED <<otherFile, base, cand, opened, user, saved>>

\* The local file holds work the server does not have.  It is preserved, and
\* uploaded again only if the server has not moved and has not refused it.
SeedRecover ==
    /\ Answered("seed") /\ Succeeded
    /\ base # Nil
    /\ \/ local # base
       \/ base # dav.data /\ ~StoredClean
    /\ LET retry  == /\ stored # Nil /\ mem.synced # Nil
                     /\ mem.etag = dav.tok
                     /\ mem.blocked # local
           synced == IF mem.synced = Nil THEN dav.data ELSE mem.synced
       IN  /\ mem' = [etag |-> dav.tok, synced |-> synced, pending |-> FALSE,
                      blocked |-> IF retry THEN mem.blocked ELSE local,
                      recovery |-> local]
           /\ Preserve(local)
    /\ Persist /\ Loop
    /\ UNCHANGED <<otherFile, races, base, cand, userVars>>

\* An accepted upload has to be reconciled: what the server made of it
\* replaces the local file if nobody saved again.
PollPending ==
    /\ pc = "poll" /\ mem.pending
    /\ pc' = "refreshHead"
    /\ base' = local
    /\ UNCHANGED mem /\ Send("HEAD", Nil)
    /\ UNCHANGED <<otherFile, budget, races, stored, recoveries, cand, userVars>>

\* MUTANT: a save that arrived meanwhile leaves the refresh pending.
RefreshForever ==
    /\ Answered("refreshHead")
    /\ IF Succeeded /\ local = mem.synced
       THEN /\ mem' = [mem EXCEPT !.etag = dav.tok]
            /\ pc' = "refreshGet"
            /\ Send("GET", Nil)
       ELSE UNCHANGED mem /\ Loop
    /\ base' = local
    /\ UNCHANGED <<otherFile, races, stored, budget, recoveries, cand, userVars>>

\* The server has a file for the accepted save: it is fetched unless the user
\* has saved again.
RefreshHead ==
    /\ Answered("refreshHead")
    /\ IF ~Succeeded
       THEN /\ UNCHANGED <<mem, stored, budget>>
            /\ Loop
       ELSE IF local = mem.synced
       THEN /\ mem' = [mem EXCEPT !.etag = dav.tok]
            /\ pc' = "refreshGet"
            /\ Send("GET", Nil)
            /\ UNCHANGED <<stored, budget>>
       ELSE /\ mem' = [mem EXCEPT !.etag = dav.tok, !.pending = FALSE]
            /\ Persist /\ Loop
    /\ base' = local
    /\ UNCHANGED <<otherFile, races, recoveries, cand, userVars>>

\* The fetched bytes are at hand: the hash of the local file is checked.
RefreshGet ==
    /\ Answered("refreshGet")
    /\ IF Succeeded /\ local = base
       THEN pc' = "refreshReplace" /\ UNCHANGED dav
       ELSE Loop
    /\ UNCHANGED <<otherFile, budget, races, mem, stored, recoveries, base, cand, userVars>>

RefreshReplace ==
    /\ pc = "refreshReplace"
    /\ Overwrite(base, dav.data)
    /\ mem' = [mem EXCEPT !.etag = dav.tok, !.synced = dav.data, !.pending = FALSE,
                          !.recovery = Nil]
    /\ Discard
    /\ Persist /\ Loop
    /\ UNCHANGED <<otherFile, base, cand, opened, user, saved>>

\* A file that changed since the server refused it is no longer blocked.
Unblocked == IF local # mem.blocked THEN [mem EXCEPT !.blocked = Nil] ELSE mem

\* A changed file starts to settle, or starts again.
Notice ==
    /\ pc = "poll" /\ ~mem.pending
    /\ local \notin {mem.synced, mem.blocked}
    /\ cand # local
    /\ cand' = local
    /\ mem' = Unblocked
    /\ base' = local
    /\ UNCHANGED <<fileVars, pc, stored, recoveries, userVars>>

\* It has not changed for the settle time: it is preserved and uploaded.
Upload ==
    /\ pc = "poll" /\ ~mem.pending
    /\ local \notin {mem.synced, mem.blocked}
    /\ cand = local
    /\ mem' = [Unblocked EXCEPT !.recovery = local]
    /\ Preserve(local)
    /\ Persist
    /\ pc' = "put"
    /\ base' = local
    /\ Send("PUT", local)
    /\ UNCHANGED <<otherFile, races, cand, userVars>>

\* The server's answer to an upload: accepted, refused, or to be retried.
PutAnswered ==
    /\ Answered("put")
    /\ CASE Succeeded ->
              /\ mem' = [mem EXCEPT !.synced = base, !.etag = dav.tok, !.pending = TRUE,
                                    !.blocked = Nil]
              /\ cand' = Nil
              /\ Persist
         [] dav.status = "conflict" ->
              /\ mem' = [mem EXCEPT !.blocked = base]
              /\ cand' = Nil
              /\ Persist
         [] dav.status = "error" -> UNCHANGED <<mem, cand>> /\ Persist
         [] dav.status = "lost" -> UNCHANGED <<mem, cand, stored, budget>>
    /\ Loop
    /\ UNCHANGED <<otherFile, races, recoveries, base, userVars>>

\* Nothing to upload: has the remote file changed?
PollRemote ==
    /\ pc = "poll" /\ ~mem.pending
    /\ local \in {mem.synced, mem.blocked}
    /\ pc' = "head"
    /\ mem' = Unblocked
    /\ base' = local
    /\ cand' = Nil
    /\ Send("HEAD", Nil)
    /\ UNCHANGED <<otherFile, budget, races, stored, recoveries, userVars>>

HeadAnswered ==
    /\ Answered("head")
    /\ IF Succeeded /\ dav.tok # mem.etag
       THEN IF mem.blocked # Nil
            THEN /\ mem' = [mem EXCEPT !.etag = dav.tok]
                 /\ Persist /\ Loop
            ELSE /\ pc' = "get"
                 /\ UNCHANGED mem /\ Send("GET", Nil)
                 /\ UNCHANGED <<stored, budget>>
       ELSE UNCHANGED <<mem, stored, budget>> /\ Loop
    /\ UNCHANGED <<otherFile, races, recoveries, base, cand, userVars>>

\* MUTANT: the baseline is taken after the download.
GetRebased ==
    /\ Answered("get")
    /\ IF Succeeded THEN pc' = "replace" /\ UNCHANGED dav ELSE Loop
    /\ base' = local
    /\ UNCHANGED <<otherFile, races, mem, stored, recoveries, budget, cand, userVars>>

\* The remote file is at hand.  If the user has saved meanwhile the save is
\* preserved and blocked; otherwise the mirror is replaced.
GetAnswered ==
    /\ Answered("get")
    /\ IF ~Succeeded
       THEN UNCHANGED <<mem, stored, recoveries, budget>> /\ Loop
       ELSE IF local = base
       THEN pc' = "replace" /\ UNCHANGED <<dav, mem, stored, recoveries, budget>>
       ELSE /\ mem' = [mem EXCEPT !.etag = dav.tok, !.blocked = local, !.recovery = local]
            /\ Preserve(local)
            /\ Persist /\ Loop
    /\ UNCHANGED <<otherFile, races, base, cand, userVars>>

MirrorReplace ==
    /\ pc = "replace"
    /\ Overwrite(base, dav.data)
    /\ mem' = [mem EXCEPT !.etag = dav.tok, !.synced = dav.data]
    /\ Persist /\ Loop
    /\ UNCHANGED <<otherFile, recoveries, base, cand, opened, user, saved>>

\* The bridge is stopped or dies; an upload it was waiting for may go on.
Crash ==
    /\ pc # "down"
    /\ Spend("crash")
    /\ pc' = "down"
    /\ Hangup
    /\ IF dav.pc = "commit" /\ late = Nil
       THEN late' \in {Nil, [kind |-> "late", data |-> dav.data, same |-> dav.same]}
       ELSE UNCHANGED late
    /\ UNCHANGED <<mode, epoch, seq, scene, reserved, layered, cache, races,
                   mem, stored, recoveries, base, cand, userVars>>

-----------------------------------------------------------------------------
Init ==
    /\ FileInit
    /\ local = Nil /\ opened = Nil /\ user = "idle" /\ saved = {}
    /\ pc = "down" /\ mem = Blank /\ stored = Nil /\ recoveries = {}
    /\ base = Nil /\ cand = Nil

Seed   == SeedFails \/ SeedNew \/ SeedSame \/ SeedStale \/ SeedReplace \/ SeedRecover
Bridge == \/ Start \/ Seed
          \/ PollPending \/ RefreshHead \/ RefreshGet \/ RefreshReplace
          \/ Notice \/ Upload \/ PutAnswered
          \/ PollRemote \/ HeadAnswered \/ GetAnswered \/ MirrorReplace

User == \/ Open
        \/ \E e \in Saves, kind \in {"usd", "refused"} : Save(e, kind)
        \/ SaveBegin
        \/ \E e \in Saves : SaveEnd(e)

Server == (Serve \/ SceneStep) /\ UNCHANGED <<bridgeVars, userVars>>

Next == Bridge \/ User \/ Server \/ Crash

\* Threads and processes that can go on do so; the user finishes a save.
Fairness ==
    /\ WF_vars(Bridge)
    /\ WF_vars(Serve /\ UNCHANGED <<bridgeVars, userVars>>)
    /\ WF_vars((Apply \/ CommitLate) /\ UNCHANGED <<bridgeVars, userVars>>)
    /\ WF_vars(\E e \in Saves : SaveEnd(e))

Spec == Init /\ [][Next]_vars /\ Fairness

-----------------------------------------------------------------------------
\* An accepted save replaces the whole scene, yet never takes away an edit
\* that the scene shows: every upload based on an older state is refused by
\* its If-Match or by the token in its metadata.  Two races are excepted
\* here: a cached file labelled with a sequence it does not show, and a
\* restart that makes a used token current again.
NewerWorkKept == [][races = {} => scene \subseteq scene']_vars

\* A completed save is never lost: at every moment it is in the live scene, in
\* the mirror, in a recovery copy, or about to be written again.  Only a file
\* that is served to discard uploads, and a save that slips between the check
\* and the replacement of the mirror, are excepted.
SavesSurvive ==
    mode = "translate" /\ races = {} =>
        \A e \in saved :
            \/ e \in scene
            \/ local # Nil /\ e \in local.body
            \/ \E r \in recoveries : e \in r.body
            \/ user = "writing" /\ e \in opened.body

\* Once users, faults and live clients stop, the mirror shows the live scene
\* or the bridge has declared the file in conflict.
MirrorSettles ==
    <>[](mode = "translate" /\ races = {} =>
            local # Nil /\ (local = mem.blocked \/ local.body = scene))
=============================================================================
