---------------------------- MODULE VirtualFile ----------------------------
(***************************************************************************)
(* The server side of `live open': the stage published as one flattened    *)
(* USD file over WebDAV, cached under the journal's snapshot token, and    *)
(* the write fallback that translates a complete uploaded file back into   *)
(* the live scene (server/vfs/provider.py, server/vfs/webdav.py,           *)
(* server/snapshots.py and the snapshot half of server/state.py,           *)
(* journal.py and maintenance.py).                                         *)
(*                                                                         *)
(* A scene is the set of edits it shows.  The bytes of a file are the      *)
(* token its metadata carries, the edits it shows and whether the server's *)
(* analysis of it would accept it; two files are the same bytes exactly    *)
(* when these agree.  The token <<epoch, seq>> is also the ETag.           *)
(*                                                                         *)
(* One WebDAV request runs at a time beside live commits; a PUT whose      *)
(* client has gone away may finish later.  The transaction barrier is      *)
(* implicit: an exclusive step requires that no commit has reserved a      *)
(* sequence and that no snapshot is between its token and its flattening.  *)
(***************************************************************************)
EXTENDS Naturals, FiniteSets

CONSTANTS
    Remote,       \* edits that live producers may commit
    Saves,        \* edits that the user of the file may save
    Scenarios,    \* how the file is served, and how often each of Rare may happen
    InitialSeq    \* head of the log when the scene is empty

Modes == {"forbid", "drop", "translate", "unchecked"}
Rare  == {"edit", "save", "compact", "restart", "layer", "store", "lost", "late", "persist",
          "crash"}

ASSUME ConstantsTyped ==
    /\ Remote \cap Saves = {}
    /\ \A s \in Scenarios : s.mode \in Modes /\ s.budget \in [Rare -> Nat]
    /\ InitialSeq \in Nat

VARIABLES
    mode,       \* write mode; "unchecked" is translate without validation
    epoch,      \* EventJournal.snapshot_epoch
    seq,        \* EventJournal.next_seq - 1
    scene,      \* edits the authoritative stage shows
    reserved,   \* edit with a sequence that is not yet on the stage
    layered,    \* a collaboration layer besides the default one exists
    cache,      \* _cached_bytes and _cached_key
    dav,        \* the WebDAV request in progress
    late,       \* an upload whose client stopped waiting
    budget,     \* how often each of Rare may still happen
    races       \* races that really happened (auxiliary)

fileVars == <<mode, epoch, seq, scene, reserved, layered, cache, dav, late, budget, races>>

Edits == Remote \cup Saves
Token == <<epoch, seq>>
Nil   == [kind |-> "nil"]

\* Bytes of a file: what its metadata claims, what it shows, and how the
\* analysis of an upload would judge it.
Bytes(tok, body, kind) == [kind |-> kind, tok |-> tok, body |-> body]

\* What may be rare happens at most so often.
Spend(what) ==
    /\ budget[what] > 0
    /\ budget' = [budget EXCEPT ![what] = @ - 1]

-----------------------------------------------------------------------------
(* The live scene.                                                          *)

\* _apply_and_persist_managed: the records of a transaction take their
\* sequences and are encoded before the scene lock is taken, so the head of
\* the log moves before the stage does.
Reserve(e) ==
    /\ reserved = Nil
    /\ e \in Remote \ scene
    /\ Spend("edit")
    /\ reserved' = [kind |-> "edit", edit |-> e]
    /\ seq' = seq + 1
    /\ UNCHANGED <<mode, epoch, scene, layered, cache, dav, late, races>>

\* The rest of the commit, under the scene lock: the stage is changed and the
\* records are stored.
Apply ==
    /\ reserved # Nil
    /\ scene' = scene \cup {reserved.edit}
    /\ reserved' = Nil
    /\ UNCHANGED <<mode, epoch, seq, layered, cache, dav, late, budget, races>>

\* The store refuses the records: atomic_edit restores the stage and
\* reserve_sequences gives the sequences back.
Rollback ==
    /\ reserved # Nil
    /\ Spend("store")
    /\ reserved' = Nil
    /\ seq' = seq - 1
    /\ UNCHANGED <<mode, epoch, scene, layered, cache, dav, late, races>>

\* Nobody holds the barrier shared.
NoReaders == reserved = Nil /\ dav.pc # "flatten"

\* Compaction leaves one record for each edit that still shows and starts a
\* new epoch.
Compact ==
    /\ NoReaders
    /\ seq > Cardinality(scene)
    /\ Spend("compact")
    /\ seq' = Cardinality(scene)
    /\ epoch' = epoch + 1
    /\ UNCHANGED <<mode, scene, reserved, layered, cache, dav, late, races>>

\* A department layer is created: no record, but a new epoch.
JoinDepartment ==
    /\ ~layered
    /\ Spend("layer")
    /\ layered' = TRUE
    /\ epoch' = epoch + 1
    /\ UNCHANGED <<mode, seq, scene, reserved, cache, dav, late, races>>

\* The process stops and a new one restores the scene from the store.  The
\* epoch counts from zero again; the cache, the requests and an empty
\* department layer are gone.
Restart ==
    /\ Spend("restart")
    /\ epoch' = 0
    /\ layered' = FALSE
    /\ seq' = IF reserved = Nil THEN seq ELSE seq - 1
    /\ reserved' = Nil
    /\ cache' = Nil
    /\ dav' = IF dav.op = "none" THEN dav ELSE [dav EXCEPT !.pc = "done", !.status = "lost"]
    /\ late' = Nil
    /\ races' = IF epoch > 0 THEN races \cup {"restart"} ELSE races
    /\ UNCHANGED <<mode, scene>>

-----------------------------------------------------------------------------
(* A WebDAV request.  `need' says what the request does with the snapshot   *)
(* it is waiting for.                                                       *)

Idle == [op |-> "none", pc |-> "idle", need |-> "none", status |-> "none",
         ifMatch |-> <<0, 0>>, data |-> Nil, tok |-> <<0, 0>>, same |-> FALSE]

Request(op, ifMatch, data) ==
    [Idle EXCEPT !.op = op, !.pc = "lookup", !.ifMatch = ifMatch, !.data = data,
                 !.need = IF op = "PUT" THEN "match" ELSE "reply"]

Done(status) == [dav EXCEPT !.pc = "done", !.status = status]

\* The snapshot `s' has been found or made: go on with the request.
\* get_etag against If-Match, begin_write, the comparison of the upload with
\* the current bytes, and the ETag of the answer.
Use(s) ==
    CASE dav.need = "reply" -> [Done("ok") EXCEPT !.tok = s.tok, !.data = s]
      [] dav.need = "match" ->
            IF dav.ifMatch # s.tok
            THEN Done("conflict") ELSE [dav EXCEPT !.pc = "begin"]
      [] dav.need = "write" -> [dav EXCEPT !.pc = "commit", !.same = dav.data = s]
      [] dav.need = "answer" -> [Done("ok") EXCEPT !.tok = s.tok]

\* The resource is opened for writing: refused in forbid mode, discarded in
\* drop mode, and otherwise compared with a snapshot before it is translated.
BeginWrite ==
    /\ dav.pc = "begin"
    /\ dav' = CASE mode = "forbid" -> Done("error")
                [] mode = "drop" -> [dav EXCEPT !.pc = "lookup", !.need = "answer"]
                [] OTHER -> [dav EXCEPT !.pc = "lookup", !.need = "write"]
    /\ UNCHANGED <<mode, epoch, seq, scene, reserved, layered, cache, late, budget, races>>

\* _ensure_current: the cached bytes serve while the token has not moved.
Lookup ==
    /\ dav.pc = "lookup"
    /\ dav' = IF cache # Nil /\ cache.tok = Token THEN Use(cache)
                                                  ELSE [dav EXCEPT !.pc = "token"]
    /\ UNCHANGED <<mode, epoch, seq, scene, reserved, layered, cache, late, budget, races>>

\* _generate holds the barrier shared, which live commits do too: it reads
\* the token first ...
ReadToken ==
    /\ dav.pc = "token"
    /\ dav' = [dav EXCEPT !.pc = "flatten", !.tok = Token]
    /\ UNCHANGED <<mode, epoch, seq, scene, reserved, layered, cache, late, budget, races>>

\* ... and flattens the stage when it gets the scene lock.  The race `skew'
\* is a label that covers a sequence whose edit the bytes do not show.
Flatten ==
    /\ dav.pc = "flatten"
    /\ LET fresh == Bytes(dav.tok, scene, "usd")
       IN  /\ cache' = fresh
           /\ dav' = Use(fresh)
    /\ races' = IF dav.tok[2] > seq - (IF reserved = Nil THEN 0 ELSE 1)
                THEN races \cup {"skew"} ELSE races
    /\ UNCHANGED <<mode, epoch, seq, scene, reserved, layered, late, budget>>

\* MUTANT: the token of the upload is not compared.
AnyToken(b) == b.kind = "usd" /\ ~layered

\* validate_stage_snapshot and _open_uploaded_stage: what makes the upload
\* acceptable for translation.
Acceptable(b) ==
    /\ b.kind = "usd"
    /\ ~layered
    /\ b.tok = Token

\* Without validation, bytes that are not USD are accepted and dropped.
Unread(b) == mode = "unchecked" /\ b.kind = "partial"

\* replace_from_stage_snapshot under the exclusive barrier.  The store
\* is rewritten before the scene; a store that fails leaves both alone.
Replace(b, same) ==
    /\ NoReaders
    /\ IF Acceptable(b) /\ ~same
       THEN /\ scene' = b.body
            /\ seq' = Cardinality(b.body)
            /\ epoch' = epoch + 1
       ELSE UNCHANGED <<epoch, seq, scene>>
    /\ UNCHANGED <<mode, reserved, layered, cache, races>>

CommitUpload ==
    /\ dav.pc = "commit"
    /\ Replace(dav.data, dav.same)
    /\ dav' = IF Acceptable(dav.data) \/ Unread(dav.data)
              THEN [dav EXCEPT !.pc = "lookup", !.need = "answer"]
              ELSE Done("conflict")
    /\ UNCHANGED <<late, budget>>

\* clear_and_rewrite fails: the answer is an internal error.
FailUpload ==
    /\ dav.pc = "commit"
    /\ NoReaders
    /\ Acceptable(dav.data) /\ ~dav.same
    /\ Spend("store")
    /\ dav' = Done("error")
    /\ UNCHANGED <<mode, epoch, seq, scene, reserved, layered, cache, late, races>>

\* The client stops waiting for its upload, which goes on without it, ...
Orphan ==
    /\ dav.pc = "commit"
    /\ late = Nil
    /\ Spend("late")
    /\ late' = [kind |-> "late", data |-> dav.data, same |-> dav.same]
    /\ dav' = Done("lost")
    /\ UNCHANGED <<mode, epoch, seq, scene, reserved, layered, cache, races>>

\* ... and is committed after whatever its client did next.
CommitLate ==
    /\ late # Nil
    /\ Replace(late.data, late.same)
    /\ late' = Nil
    /\ UNCHANGED <<dav, budget>>

\* The answer never arrives.
LoseReply ==
    /\ dav.pc = "done" /\ dav.status # "lost"
    /\ Spend("lost")
    /\ dav' = Done("lost")
    /\ UNCHANGED <<mode, epoch, seq, scene, reserved, layered, cache, late, races>>

FileInit ==
    /\ \E s \in Scenarios : mode = s.mode /\ budget = s.budget
    /\ epoch = 0 /\ seq = InitialSeq
    /\ scene = {} /\ reserved = Nil /\ layered = FALSE
    /\ cache = Nil /\ dav = Idle /\ late = Nil
    /\ races = {}

\* What a worker thread of the WebDAV server does next.
Serve == BeginWrite \/ Lookup \/ ReadToken \/ Flatten \/ CommitUpload

\* What live clients, maintenance and failures do to the scene.
SceneStep ==
    \/ \E e \in Remote : Reserve(e)
    \/ Apply
    \/ Rollback
    \/ Compact
    \/ JoinDepartment
    \/ Restart
    \/ FailUpload
    \/ Orphan
    \/ CommitLate
    \/ LoseReply
=============================================================================
