---------------------------- MODULE UploadCommit ----------------------------
(***************************************************************************)
(* The upload of an object: PUT_INIT, PUT_CHUNK, PUT_COMMIT with an        *)
(* optional atomic bind, and the BIND and UNBIND that share its state      *)
(* (hsp-service, AlphaService::put_init, put_chunk, put_commit).           *)
(*                                                                         *)
(* The store holds chunks and manifests by content identifier, one upload  *)
(* session per manifest (its id is derived from the manifest's) and the    *)
(* current binding of each path.  Handlers run concurrently and take no    *)
(* lock; a step is one store access.  A handler can die between any two    *)
(* steps and any store access can fail.                                    *)
(*                                                                         *)
(* Abstracted: revisions of paths (an if_revision precondition holds or    *)
(* fails, depending on what the client read before; module Namespace has   *)
(* the revisions), authorization (module ReplayGuard), and the session's   *)
(* uploaded_chunks and deadline, which the service writes and never reads. *)
(***************************************************************************)
EXTENDS Naturals

CONSTANTS Objects,       \* manifests, by CID
          Chunks,        \* chunks, by CID; objects may share them
          ChunksOf,      \* ChunksOf[o]: the chunk_refs of the manifest
          Paths,         \* namespace paths
          Workers,       \* concurrent request handlers
          None,          \* nothing stored
          BindModes,     \* if_absent of the atomic binds clients ask for; one with
                         \* FALSE, an if_revision, can do all that one with TRUE can
          MaxFaults      \* bound on crashes and store errors

ASSUME UploadAssumption ==
  /\ ChunksOf \in [Objects -> SUBSET Chunks]
  /\ None \notin Objects
  /\ BindModes \subseteq BOOLEAN /\ BindModes # {}
  /\ MaxFaults \in Nat

VARIABLES
  atomic,     \* the store: TRUE is S3; FALSE the filesystem, truncate then fill
  chunks,     \* chunks[c]: "none", "partial" or "whole"
  manifests,  \* manifests[o]: likewise
  sessions,   \* sessions[o]: the upload session record, or None
  current,    \* current[p]: the object p is bound to, or None
  acked,      \* objects whose PUT_COMMIT left its idempotency record: it was
              \* answered with committed: true, or a retry will be
  bindFailed, \* history: objects a commit of which failed in its atomic bind
  pc,         \* pc[w]: the next step of handler w
  job,        \* job[w]: what handler w works on, with its copy of the session
  faults      \* crashes and store errors so far

store == <<atomic, chunks, manifests, sessions, current, acked>>
vars == <<store, bindFailed, pc, job, faults>>

Contents == {"none", "partial", "whole"}
Binds == [path : Paths, if_absent : BindModes]
Session == [bind : Binds \cup {None}, committed : BOOLEAN]
Job == [obj : Objects, chunk : Chunks \cup {None}, snap : Session \cup {None},
        path : Paths \cup {None}]
NoJob == None

ASSUME NoneIsNoRecord == None \notin Session \cup Binds \cup Job

ChunkSteps == {"chunk_check", "chunk_write", "chunk_fill", "chunk_session"}
CommitSteps == {"commit_check", "commit_write", "commit_fill", "commit_bind",
                "commit_bind_write", "commit_rollback", "commit_session", "commit_idem"}
BindSteps == {"bind_check", "bind_write"}
Steps == ChunkSteps \cup CommitSteps \cup BindSteps

Init ==
  /\ atomic \in BOOLEAN
  /\ chunks = [c \in Chunks |-> "none"]
  /\ manifests = [o \in Objects |-> "none"]
  /\ sessions = [o \in Objects |-> None]
  /\ current = [p \in Paths |-> None]
  /\ acked = {}
  /\ bindFailed = {}
  /\ pc = [w \in Workers |-> "idle"]
  /\ job = [w \in Workers |-> NoJob]
  /\ faults = 0

-----------------------------------------------------------------------------
Goto(w, step) == pc' = [pc EXCEPT ![w] = step] /\ UNCHANGED job
Return(w) == pc' = [pc EXCEPT ![w] = "idle"] /\ job' = [job EXCEPT ![w] = NoJob]
(* The atomic bind of a commit fails: the manifest is to be taken back.    *)
BindFails(w) ==
  /\ Goto(w, "commit_rollback")
  /\ bindFailed' = bindFailed \cup {job[w].obj}
Start(w, step, j) ==
  /\ pc[w] = "idle"
  /\ pc' = [pc EXCEPT ![w] = step]
  /\ job' = [job EXCEPT ![w] = j]

Stored(c) == chunks[c] # "none"            \* StoreBackend::exists
SeenMissing(c) == atomic \/ ~Stored(c) \* S3: a failed HEAD counts as absent
Readable(o) == manifests[o] = "whole"      \* the envelope decrypts and parses

(***************************************************************************)
(* PUT_INIT writes a new session over whatever session there was.  The     *)
(* chunk store only grows, so the missing-chunk list it returns first      *)
(* needs no step of its own.                                               *)
(***************************************************************************)
PutInit(o, b) ==
  /\ sessions' = [sessions EXCEPT ![o] = [bind |-> b, committed |-> FALSE]]
  /\ UNCHANGED <<atomic, bindFailed, chunks, manifests, current, acked, pc, job, faults>>

(***************************************************************************)
(* PUT_CHUNK: read the session, look for the chunk, write it when absent,  *)
(* write the session as it was read.                                       *)
(***************************************************************************)
PutChunk(w, o, c) ==
  /\ sessions[o] # None
  /\ ~sessions[o].committed
  /\ c \in ChunksOf[o]
  /\ Start(w, "chunk_check", [obj |-> o, chunk |-> c, snap |-> sessions[o], path |-> None])
  /\ UNCHANGED <<store, bindFailed, faults>>

ChunkCheck(w) ==
  /\ pc[w] = "chunk_check"
  /\ \/ Stored(job[w].chunk) /\ Goto(w, "chunk_session")
     \/ SeenMissing(job[w].chunk) /\ Goto(w, "chunk_write")
  /\ UNCHANGED <<store, bindFailed, faults>>

ChunkWrite(w) ==
  /\ pc[w] = "chunk_write"
  /\ \/ /\ atomic
        /\ chunks' = [chunks EXCEPT ![job[w].chunk] = "whole"]
        /\ Goto(w, "chunk_session")
     \/ /\ ~atomic
        /\ chunks' = [chunks EXCEPT ![job[w].chunk] = "partial"]
        /\ Goto(w, "chunk_fill")
  /\ UNCHANGED <<atomic, bindFailed, manifests, sessions, current, acked, faults>>

ChunkFill(w) ==
  /\ pc[w] = "chunk_fill"
  /\ chunks' = [chunks EXCEPT ![job[w].chunk] = "whole"]
  /\ Goto(w, "chunk_session")
  /\ UNCHANGED <<atomic, bindFailed, manifests, sessions, current, acked, faults>>

ChunkSession(w) ==
  /\ pc[w] = "chunk_session"
  /\ sessions' = [sessions EXCEPT ![job[w].obj] = job[w].snap]
  /\ Return(w)
  /\ UNCHANGED <<atomic, bindFailed, chunks, manifests, current, acked, faults>>

(***************************************************************************)
(* PUT_COMMIT: read the session; an idempotent retry answers from the      *)
(* record; every chunk must exist; write the manifest; bind it; event and  *)
(* audit records (module EventStream); write the session as committed;     *)
(* write the idempotency record and answer.                                *)
(***************************************************************************)
(* Mutant: the chunks are not looked for.                                  *)
PutCommitUnchecked(w, o) ==
  /\ sessions[o] # None
  /\ Start(w, "commit_write", [obj |-> o, chunk |-> None, snap |-> sessions[o], path |-> None])
  /\ UNCHANGED <<store, bindFailed, faults>>

PutCommit(w, o) ==
  /\ sessions[o] # None
  /\ Start(w, "commit_check", [obj |-> o, chunk |-> None, snap |-> sessions[o], path |-> None])
  /\ UNCHANGED <<store, bindFailed, faults>>

CommitRetry(w) ==
  /\ pc[w] = "commit_check"
  /\ job[w].obj \in acked
  /\ Return(w)
  /\ UNCHANGED <<store, bindFailed, faults>>

CommitMissingChunk(w) ==
  /\ pc[w] = "commit_check"
  /\ \E c \in ChunksOf[job[w].obj] : SeenMissing(c)
  /\ Return(w)
  /\ UNCHANGED <<store, bindFailed, faults>>

(* Mutant: one stored chunk is enough.                                     *)
CommitCheckAny(w) ==
  /\ pc[w] = "commit_check"
  /\ \E c \in ChunksOf[job[w].obj] : Stored(c)
  /\ Goto(w, "commit_write")
  /\ UNCHANGED <<store, bindFailed, faults>>

CommitCheck(w) ==
  /\ pc[w] = "commit_check"
  /\ \A c \in ChunksOf[job[w].obj] : Stored(c)
  /\ Goto(w, "commit_write")
  /\ UNCHANGED <<store, bindFailed, faults>>

AfterManifest(w) == IF job[w].snap.bind = None THEN "commit_session" ELSE "commit_bind"

CommitWrite(w) ==
  /\ pc[w] = "commit_write"
  /\ \/ /\ atomic
        /\ manifests' = [manifests EXCEPT ![job[w].obj] = "whole"]
        /\ Goto(w, AfterManifest(w))
     \/ /\ ~atomic
        /\ manifests' = [manifests EXCEPT ![job[w].obj] = "partial"]
        /\ Goto(w, "commit_fill")
  /\ UNCHANGED <<atomic, bindFailed, chunks, sessions, current, acked, faults>>

CommitFill(w) ==
  /\ pc[w] = "commit_fill"
  /\ manifests' = [manifests EXCEPT ![job[w].obj] = "whole"]
  /\ Goto(w, AfterManifest(w))
  /\ UNCHANGED <<atomic, bindFailed, chunks, sessions, current, acked, faults>>

(* bind_internal: the manifest must be there, then the precondition.       *)
Precondition(b, p) == b.if_absent => current[p] = None

CommitBind(w) ==
  LET b == job[w].snap.bind IN
  /\ pc[w] = "commit_bind"
  /\ \/ /\ Readable(job[w].obj)
        /\ Precondition(b, b.path)
        /\ Goto(w, "commit_bind_write")
        /\ UNCHANGED bindFailed
     \/ /\ Readable(job[w].obj) => (b.if_absent => current[b.path] # None)
        /\ BindFails(w)
  /\ UNCHANGED <<store, faults>>

(* The current state is written; an error in one of the writes that follow *)
(* (journal, event, audit) still fails the bind.                           *)
CommitBindWrite(w) ==
  /\ pc[w] = "commit_bind_write"
  /\ current' = [current EXCEPT ![job[w].snap.bind.path] = job[w].obj]
  /\ \/ Goto(w, "commit_session") /\ UNCHANGED <<bindFailed, faults>>
     \/ /\ faults < MaxFaults
        /\ faults' = faults + 1
        /\ BindFails(w)
  /\ UNCHANGED <<atomic, chunks, manifests, sessions, acked>>

CommitRollback(w) ==
  /\ pc[w] = "commit_rollback"
  /\ manifests' = [manifests EXCEPT ![job[w].obj] = "none"]
  /\ Return(w)
  /\ UNCHANGED <<atomic, bindFailed, chunks, sessions, current, acked, faults>>

(* Mutant: the session keeps the path of the bind in place of the bind.    *)
CommitSessionPath(w) ==
  /\ pc[w] = "commit_session"
  /\ sessions' = [sessions EXCEPT ![job[w].obj] =
                    [bind |-> IF job[w].snap.bind = None THEN None ELSE job[w].snap.bind.path,
                     committed |-> TRUE]]
  /\ Goto(w, "commit_idem")
  /\ UNCHANGED <<atomic, bindFailed, chunks, manifests, current, acked, faults>>

CommitSession(w) ==
  /\ pc[w] = "commit_session"
  /\ sessions' = [sessions EXCEPT ![job[w].obj] =
                    [bind |-> job[w].snap.bind, committed |-> TRUE]]
  /\ Goto(w, "commit_idem")
  /\ UNCHANGED <<atomic, bindFailed, chunks, manifests, current, acked, faults>>

CommitIdem(w) ==
  /\ pc[w] = "commit_idem"
  /\ acked' = acked \cup {job[w].obj}
  /\ Return(w)
  /\ UNCHANGED <<atomic, bindFailed, chunks, manifests, sessions, current, faults>>

(***************************************************************************)
(* BIND of a committed object and UNBIND (module Namespace has the detail  *)
(* of both).                                                               *)
(***************************************************************************)
Bind(w, o, p) ==
  /\ Start(w, "bind_check", [obj |-> o, chunk |-> None, snap |-> None, path |-> p])
  /\ UNCHANGED <<store, bindFailed, faults>>

(* Mutant: the manifest is not looked for.                                 *)
BindCheckUnread(w) ==
  /\ pc[w] = "bind_check"
  /\ Goto(w, "bind_write") \/ Return(w)
  /\ UNCHANGED <<store, bindFailed, faults>>

BindCheck(w) ==
  /\ pc[w] = "bind_check"
  /\ \/ Readable(job[w].obj) /\ Goto(w, "bind_write")
     \/ Return(w)                 \* no manifest, or the precondition fails
  /\ UNCHANGED <<store, bindFailed, faults>>

BindWrite(w) ==
  /\ pc[w] = "bind_write"
  /\ current' = [current EXCEPT ![job[w].path] = job[w].obj]
  /\ Return(w)
  /\ UNCHANGED <<atomic, bindFailed, chunks, manifests, sessions, acked, faults>>

Unbind(p) ==
  /\ current[p] # None
  /\ current' = [current EXCEPT ![p] = None]
  /\ UNCHANGED <<atomic, bindFailed, chunks, manifests, sessions, acked, pc, job, faults>>

(* Mutant: an error after the manifest was written always takes it back.   *)
FaultRollsBack(w) ==
  /\ pc[w] # "idle"
  /\ faults < MaxFaults
  /\ faults' = faults + 1
  /\ IF pc[w] \in CommitSteps \ {"commit_check", "commit_write"}
     THEN Goto(w, "commit_rollback")
     ELSE Return(w)
  /\ UNCHANGED <<store, bindFailed>>

(* The handler dies, or a store access fails and it returns the error; an  *)
(* error inside the atomic bind is rolled back instead.                    *)
Fault(w) ==
  /\ pc[w] # "idle"
  /\ faults < MaxFaults
  /\ faults' = faults + 1
  /\ \/ Return(w) /\ UNCHANGED bindFailed
     \/ pc[w] \in {"commit_bind", "commit_bind_write"} /\ BindFails(w)
  /\ UNCHANGED store

Request(w) ==
  \/ \E o \in Objects, c \in Chunks : PutChunk(w, o, c)
  \/ \E o \in Objects : PutCommit(w, o)
  \/ \E o \in Objects, p \in Paths : Bind(w, o, p)

Step(w) ==
  \/ ChunkCheck(w) \/ ChunkWrite(w) \/ ChunkFill(w) \/ ChunkSession(w)
  \/ CommitRetry(w) \/ CommitMissingChunk(w) \/ CommitCheck(w)
  \/ CommitWrite(w) \/ CommitFill(w) \/ CommitBind(w) \/ CommitBindWrite(w)
  \/ CommitRollback(w) \/ CommitSession(w) \/ CommitIdem(w)
  \/ BindCheck(w) \/ BindWrite(w)

Next ==
  \/ \E o \in Objects, b \in Binds \cup {None} : PutInit(o, b)
  \/ \E w \in Workers : Request(w) \/ Step(w) \/ Fault(w)
  \/ \E p \in Paths : Unbind(p)

Spec == Init /\ [][Next]_vars

-----------------------------------------------------------------------------
(* The values the store and the handlers hold.                             *)
TypeOK ==
  /\ atomic \in BOOLEAN
  /\ chunks \in [Chunks -> Contents]
  /\ manifests \in [Objects -> Contents]
  /\ sessions \in [Objects -> Session \cup {None}]
  /\ current \in [Paths -> Objects \cup {None}]
  /\ acked \in SUBSET Objects
  /\ bindFailed \in SUBSET Objects
  /\ pc \in [Workers -> Steps \cup {"idle"}]
  /\ job \in [Workers -> Job \cup {NoJob}]
  /\ faults \in Nat

(* On the S3 store a manifest that GET and RESOLVE can read has all its    *)
(* chunks, whole: put_commit never makes an incomplete object visible,     *)
(* whatever uploads, commits and rollbacks of objects that share chunks    *)
(* run beside it.  (On the filesystem a chunk left half written counts as  *)
(* stored and breaks this.)                                                *)
VisibleComplete ==
  atomic => \A o \in Objects : Readable(o) => \A c \in ChunksOf[o] : chunks[c] = "whole"

(* On the S3 store a path is never bound to an object whose data was not   *)
(* stored, not even after a failed commit took the manifest away again.    *)
BoundDataStored ==
  atomic => \A p \in Paths :
    current[p] # None => \A c \in ChunksOf[current[p]] : chunks[c] = "whole"

(* A session marked committed lacks no chunk.  Otherwise its upload would  *)
(* be stuck: put_chunk refuses a committed session, put_commit a missing   *)
(* chunk.                                                                  *)
CommittedNotStuck ==
  \A o \in Objects :
    (sessions[o] # None /\ sessions[o].committed)
      => \A c \in ChunksOf[o] : Stored(c)

(* hsp_tz_ru.md 13.1: an object whose commit was acknowledged stays        *)
(* readable.                                                               *)
AckedReadable ==
  \A o \in acked : Readable(o) /\ \A c \in ChunksOf[o] : chunks[c] = "whole"

(* On the S3 store an object that was acknowledged or bound can be read,   *)
(* whatever handlers die and whatever else runs, unless a commit of it     *)
(* failed in its atomic bind and took the manifest back.  Such a commit    *)
(* takes it from those who were told the object is there (upload_rollback).*)
HiddenByFailedBind ==
  atomic => \A o \in Objects :
    (o \in acked \/ \E p \in Paths : current[p] = o) => Readable(o) \/ o \in bindFailed
=============================================================================
