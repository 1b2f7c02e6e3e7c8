------------------------------ MODULE Multipart ------------------------------
(***************************************************************************)
(* A bucket of hsp-distribution with one object key: creation and removal  *)
(* of the bucket, its configuration records, and multipart uploads of the  *)
(* object (create, upload_part, complete, abort).                          *)
(*                                                                         *)
(* An upload keeps a session record, and for each part the bytes and a     *)
(* record with their hash.  complete_multipart_upload reads every part     *)
(* twice: to lay out the manifest, and again to upload its chunks; then it *)
(* commits, marks the session and removes what the upload left behind.     *)
(* One step is one access to the store, and nothing is held between two    *)
(* steps.  A put_commit is one step here (module UploadCommit looks inside *)
(* it), and so is the put_object of another client (module ObjectLock).    *)
(*                                                                         *)
(* Abstracted: a hash is the content it is the hash of; the object is not  *)
(* locked; uploads are of ciphertext (an upload of plaintext can be        *)
(* created, and is refused when it is completed); upload ids are distinct  *)
(* (they hash the millisecond they were made in).                          *)
(***************************************************************************)
EXTENDS Naturals, Sequences, SequencesExt

CONSTANTS Workers,       \* concurrent request handlers
          Uploads,       \* upload ids
          NParts,        \* part numbers 1..NParts
          Contents,      \* what a client sends as a part: sequences of bytes
          FixedChunkSize,\* FIXED_CHUNK_SIZE
          None,
          MaxRev, MaxJobs, MaxFaults  \* bounds

Parts == 1..NParts
Kinds == {"acl", "object_acl", "lifecycle", "website", "replication"}
Part == [n : Parts, etag : Contents]

ASSUME MultipartAssumption ==
  /\ NParts \in Nat \ {0} /\ FixedChunkSize \in Nat \ {0}
  /\ MaxRev \in Nat \ {0} /\ MaxJobs \in Nat /\ MaxFaults \in Nat
  /\ \A c \in Contents : c \in Seq(Nat)
  /\ None \notin Contents \cup Uploads

VARIABLES
  registered,  \* the bucket registry has the bucket
  metadata,    \* and its metadata record is stored
  config,      \* the kinds of configuration that have a record
  session,     \* session[u]: "none" yet, "open", "completed" or "removed"
  bytes,       \* bytes[u][n]: the stored part
  meta,        \* meta[u][n]: the hash in the part's record
  chunks,      \* the chunk store
  object,      \* the binding: its revision, its chunk references, its upload
  nextRev,
  pc, job, loc,\* each handler's next step, request and local variables
  answered,    \* history: u's complete was answered before revision "at",
               \* and removed "parts", which nobody sent again
  jobs, faults

bucket == <<registered, metadata, config>>
staged == <<session, bytes, meta>>
content == <<chunks, object, nextRev>>
store == <<bucket, staged, content>>
vars == <<store, pc, job, loc, answered, jobs, faults>>

(* i: the part in work; etag: the hash in its record; pending: bytes not   *)
(* yet in a chunk; refs: the manifest; sent: chunks uploaded; seen: the    *)
(* revision that was resolved; gone: the parts left to remove.             *)
Fresh == [i |-> 1, etag |-> None, pending |-> <<>>, refs |-> <<>>, sent |-> <<>>,
          seen |-> 0, gone |-> {}]
NotYet == [at |-> 0, parts |-> {}]
(* found is history: the next revision and the open uploads as the request *)
(* began.                                                                  *)
NoJob == [op |-> "none", u |-> None, n |-> None, data |-> None, parts |-> <<>>,
          found |-> [rev |-> 0, open |-> {}]]

(* Before the bucket is created, or with uploads under way in it.          *)
Init ==
  /\ \/ registered = FALSE /\ session = [u \in Uploads |-> "none"]
     \/ registered = TRUE /\ session = [u \in Uploads |-> "open"]
  /\ metadata = registered
  /\ config = {}
  /\ bytes = [u \in Uploads |-> [n \in Parts |-> None]]
  /\ meta = [u \in Uploads |-> [n \in Parts |-> None]]
  /\ chunks = {} /\ object = None /\ nextRev = 1
  /\ pc = [w \in Workers |-> "idle"]
  /\ job = [w \in Workers |-> NoJob]
  /\ loc = [w \in Workers |-> Fresh]
  /\ answered = [u \in Uploads |-> NotYet] /\ jobs = 0 /\ faults = 0

-----------------------------------------------------------------------------
(* A request passed its scope checks and goes to work.                     *)
Begin(w, r, step) ==
  /\ pc[w] = "idle"
  /\ jobs < MaxJobs
  /\ jobs' = jobs + 1
  /\ job' = [job EXCEPT ![w] = r]
  /\ loc' = [loc EXCEPT ![w] = Fresh]
  /\ pc' = [pc EXCEPT ![w] = step]
  /\ UNCHANGED <<store, answered, faults>>

(* One step of w's request.                                                *)
Goto(w, step) == pc' = [pc EXCEPT ![w] = step] /\ UNCHANGED <<job, jobs, faults>>

End(w) ==
  /\ pc' = [pc EXCEPT ![w] = "idle"]
  /\ job' = [job EXCEPT ![w] = NoJob]
  /\ loc' = [loc EXCEPT ![w] = Fresh]
  /\ UNCHANGED <<jobs, faults>>

(* The request is answered with an error.                                  *)
Refuse(w) == End(w) /\ UNCHANGED <<store, answered>>

-----------------------------------------------------------------------------
(* create_bucket: look the name up, write the registry record and then the *)
(* metadata record, which nothing reads.                                   *)
CreateBucket(w) ==
  /\ ~registered
  /\ Begin(w, [NoJob EXCEPT !.op = "create_bucket"], "b_write")

CreateBucketWrite(w) ==
  /\ pc[w] = "b_write"
  /\ registered' = TRUE
  /\ Goto(w, "b_meta")
  /\ UNCHANGED <<metadata, config, staged, content, loc, answered>>

CreateBucketMeta(w) ==
  /\ pc[w] = "b_meta"
  /\ metadata' = TRUE
  /\ End(w)
  /\ UNCHANGED <<registered, config, staged, content, answered>>

(* delete_bucket: the bucket must be there ...                             *)
DeleteBucket(w) ==
  /\ registered
  /\ Begin(w, [NoJob EXCEPT !.op = "delete_bucket",
                            !.found = [rev |-> nextRev,
                                       open |-> {u \in Uploads : session[u] = "open"}]],
           "d_list")

(* ... list no object ...                                                  *)
DeleteBucketList(w) ==
  /\ pc[w] = "d_list"
  /\ \/ object # None /\ Refuse(w)
     \/ object = None /\ Goto(w, "d_sessions") /\ UNCHANGED <<store, loc, answered>>

(* Mutant: only sessions that have parts count.                            *)
HasMultipartSessionsWithParts ==
  \E u \in Uploads : session[u] = "open" /\ \E n \in Parts : meta[u][n] # None

HasMultipartSessions == \E u \in Uploads : session[u] = "open"

(* ... and have no session that is still open.                             *)
DeleteBucketSessions(w) ==
  /\ pc[w] = "d_sessions"
  /\ \/ HasMultipartSessions /\ Refuse(w)
     \/ ~HasMultipartSessions /\ Goto(w, "d_registry") /\ UNCHANGED <<store, loc, answered>>

(* The registry record goes, then the metadata; the configuration stays.   *)
DeleteBucketRegistry(w) ==
  /\ pc[w] = "d_registry"
  /\ registered' = FALSE
  /\ Goto(w, "d_meta")
  /\ UNCHANGED <<metadata, config, staged, content, loc, answered>>

DeleteBucketMeta(w) ==
  /\ pc[w] = "d_meta"
  /\ metadata' = FALSE
  /\ End(w)
  /\ UNCHANGED <<registered, config, staged, content, answered>>

-----------------------------------------------------------------------------
RequireBucket == registered

PutConfig(w, kind) ==
  /\ RequireBucket
  /\ Begin(w, [NoJob EXCEPT !.op = kind], "k_write")

PutBucketAcl(w) == PutConfig(w, "acl")
PutObjectAcl(w) == PutConfig(w, "object_acl")
PutLifecycleConfig(w) == PutConfig(w, "lifecycle")
PutWebsiteConfig(w) == PutConfig(w, "website")
PutReplicationConfig(w) == PutConfig(w, "replication")

PutConfigWrite(w) ==
  /\ pc[w] = "k_write"
  /\ config' = config \cup {job[w].op}
  /\ End(w)
  /\ UNCHANGED <<registered, metadata, staged, content, answered>>

(* The removal of a record asks for no bucket.                             *)
DeleteConfig(w, kind) ==
  /\ pc[w] = "idle" /\ jobs < MaxJobs
  /\ jobs' = jobs + 1
  /\ config' = config \ {kind}
  /\ UNCHANGED <<registered, metadata, staged, content, pc, job, loc, answered, faults>>

DeleteLifecycleConfig(w) == DeleteConfig(w, "lifecycle")
DeleteWebsiteConfig(w) == DeleteConfig(w, "website")
DeleteReplicationConfig(w) == DeleteConfig(w, "replication")

-----------------------------------------------------------------------------
(* create_multipart_upload: the bucket is read, then the session written.  *)
CreateMultipartUpload(w) ==
  \E u \in Uploads :
    /\ RequireBucket
    /\ session[u] = "none"
    /\ \A v \in Workers : job[v].u # u
    /\ Begin(w, [NoJob EXCEPT !.op = "create", !.u = u], "s_write")

CreateMultipartUploadWrite(w) ==
  /\ pc[w] = "s_write"
  /\ session' = [session EXCEPT ![job[w].u] = "open"]
  /\ End(w)
  /\ UNCHANGED <<bucket, bytes, meta, content, answered>>

(* upload_part reads the session, refuses a completed one, and writes the  *)
(* bytes and then the record.                                              *)
UploadPart(w) ==
  \E u \in Uploads, n \in Parts, c \in Contents :
    /\ session[u] = "open"
    /\ Begin(w, [NoJob EXCEPT !.op = "part", !.u = u, !.n = n, !.data = c], "p_bytes")

UploadPartBytes(w) ==
  /\ pc[w] = "p_bytes"
  /\ bytes' = [bytes EXCEPT ![job[w].u][job[w].n] = job[w].data]
  /\ answered' = [answered EXCEPT ![job[w].u].parts = @ \ {job[w].n}]
  /\ Goto(w, "p_meta")
  /\ UNCHANGED <<bucket, session, meta, content, loc>>

UploadPartMeta(w) ==
  /\ pc[w] = "p_meta"
  /\ meta' = [meta EXCEPT ![job[w].u][job[w].n] = job[w].data]
  /\ End(w)
  /\ UNCHANGED <<bucket, session, bytes, content, answered>>

-----------------------------------------------------------------------------
(* The chunks of a sequence of bytes: all full but, after a flush, the     *)
(* last.                                                                   *)
ChunkRef(index, offset, data) == [index |-> index, offset |-> offset, cid |-> data]
Total(refs) == IF refs = <<>> THEN 0 ELSE Last(refs).offset + Len(Last(refs).cid)

Append1(refs, data) == Append(refs, ChunkRef(Len(refs), Total(refs), data))

(* The bytes after which a chunk is cut off.                               *)
CollectFixedChunkRefs(refs, pending, data) ==
  LET all == pending \o data
      full == Len(all) \div FixedChunkSize
      cut(i) == SubSeq(all, (i - 1) * FixedChunkSize + 1, i * FixedChunkSize)
  IN [refs |-> FoldLeft(Append1, refs, [i \in 1..full |-> cut(i)]),
      pending |-> SubSeq(all, full * FixedChunkSize + 1, Len(all))]

FlushFixedChunkRef(refs, pending) == IF pending = <<>> THEN refs ELSE Append1(refs, pending)

(* How put_object cuts up a whole payload.                                 *)
ChunkCiphertext(data) ==
  LET n == (Len(data) + FixedChunkSize - 1) \div FixedChunkSize
      end(i) == IF i = n THEN Len(data) ELSE i * FixedChunkSize
  IN [i \in 1..n |-> ChunkRef(i - 1, (i - 1) * FixedChunkSize,
                              SubSeq(data, (i - 1) * FixedChunkSize + 1, end(i)))]

(* A client names the parts of the object: numbers and hashes.             *)
CompleteMultipartUpload(w) ==
  \E u \in Uploads, ps \in SeqOf(Part, NParts) :
    /\ session[u] = "open"
    /\ ps # <<>>
    /\ Begin(w, [NoJob EXCEPT !.op = "complete", !.u = u, !.parts = ps], "meta1")

Numbers(ps) == {p.n : p \in ToSet(ps)}
Named(w) == job[w].parts[loc[w].i]
InOrder(w) == loc[w].i > 1 => Named(w).n > job[w].parts[loc[w].i - 1].n

(* multipart_part_ciphertext reads the record of the part, whose hash must *)
(* be the client's ...                                                     *)
ReadMeta(w) ==
  LET stored == meta[job[w].u][Named(w).n]
  IN \/ stored # Named(w).etag /\ Refuse(w)
     \/ /\ stored = Named(w).etag
        /\ loc' = [loc EXCEPT ![w].etag = stored]
        /\ Goto(w, IF pc[w] = "meta1" THEN "bytes1" ELSE "bytes2")
        /\ UNCHANGED <<store, answered>>

CompleteMeta(w) ==
  /\ pc[w] = "meta1"
  /\ \/ ~InOrder(w) /\ Refuse(w)
     \/ InOrder(w) /\ ReadMeta(w)

(* Mutant: the length is compared, the hash is not.                        *)
IntactLength(w) ==
  LET b == bytes[job[w].u][Named(w).n]
  IN b # None /\ Len(b) = Len(loc[w].etag)

(* ... and then the bytes, whose length and hash must be that record's.    *)
Intact(w) == bytes[job[w].u][Named(w).n] = Named(w).etag

LastPart(w) == loc[w].i = Len(job[w].parts)

CompleteBytes(w) ==
  /\ pc[w] = "bytes1"
  /\ LET c == CollectFixedChunkRefs(loc[w].refs, loc[w].pending,
                                    bytes[job[w].u][Named(w).n])
         refs == FlushFixedChunkRef(c.refs, c.pending)
     IN \/ ~Intact(w) /\ Refuse(w)
        \/ /\ Intact(w) /\ ~LastPart(w)
           /\ loc' = [loc EXCEPT ![w].i = @ + 1, ![w].etag = None,
                                 ![w].refs = c.refs, ![w].pending = c.pending]
           /\ Goto(w, "meta1")
           /\ UNCHANGED <<store, answered>>
        \/ Intact(w) /\ LastPart(w) /\ refs = <<>> /\ Refuse(w)
        \/ /\ Intact(w) /\ LastPart(w) /\ refs # <<>>
           /\ loc' = [loc EXCEPT ![w] = [Fresh EXCEPT !.refs = refs]]
           /\ Goto(w, "bucket")
           /\ UNCHANGED <<store, answered>>

CompleteBucket(w) ==
  /\ pc[w] = "bucket"
  /\ \/ ~RequireBucket /\ Refuse(w)
     \/ RequireBucket /\ Goto(w, "resolve") /\ UNCHANGED <<store, loc, answered>>

(* The revision to replace; then put_init with the manifest.               *)
CompleteResolve(w) ==
  /\ pc[w] = "resolve"
  /\ loc' = [loc EXCEPT ![w].seen = IF object = None THEN 0 ELSE object.rev]
  /\ Goto(w, "meta2")
  /\ UNCHANGED <<store, answered>>

(* Mutant: the second pass takes the bytes the first one read.             *)
CompleteMetaAgainKept(w) ==
  /\ pc[w] = "meta2"
  /\ chunks' = chunks \cup {r.cid : r \in ToSet(loc[w].refs)}
  /\ Goto(w, "commit")
  /\ UNCHANGED <<bucket, staged, object, nextRev, loc, answered>>

CompleteMetaAgain(w) == pc[w] = "meta2" /\ ReadMeta(w)

(* put_chunk takes a chunk that the manifest has at its place.             *)
Expected(w, sent) == IsPrefix(sent, loc[w].refs)

CompleteUpload(w) ==
  /\ pc[w] = "bytes2"
  /\ LET c == CollectFixedChunkRefs(loc[w].sent, loc[w].pending,
                                    bytes[job[w].u][Named(w).n])
         sent == IF LastPart(w) THEN FlushFixedChunkRef(c.refs, c.pending) ELSE c.refs
     IN \/ ~(Intact(w) /\ Expected(w, sent)) /\ Refuse(w)
        \/ /\ Intact(w) /\ Expected(w, sent)
           /\ chunks' = chunks \cup {r.cid : r \in ToSet(sent)}
           /\ loc' = [loc EXCEPT ![w].i = IF LastPart(w) THEN @ ELSE @ + 1,
                                 ![w].etag = None, ![w].sent = sent,
                                 ![w].pending = IF LastPart(w) THEN <<>> ELSE c.pending]
           /\ Goto(w, IF LastPart(w) THEN "commit" ELSE "meta2")
           /\ UNCHANGED <<bucket, staged, object, nextRev, answered>>

Unmoved(w) == loc[w].seen = IF object = None THEN 0 ELSE object.rev
Uploaded(w) == \A r \in ToSet(loc[w].refs) : r.cid \in chunks

(* put_commit with its atomic bind.                                        *)
CompleteCommit(w) ==
  /\ pc[w] = "commit"
  /\ \/ ~(Unmoved(w) /\ Uploaded(w)) /\ Refuse(w)
     \/ /\ Unmoved(w) /\ Uploaded(w)
        /\ nextRev < MaxRev
        /\ object' = [rev |-> nextRev, refs |-> loc[w].refs, u |-> job[w].u,
                      of |-> job[w].parts]
        /\ nextRev' = nextRev + 1
        /\ Goto(w, "mark")
        /\ UNCHANGED <<bucket, staged, chunks, loc, answered>>

(* The session record is written back, whatever became of it meanwhile.    *)
CompleteMark(w) ==
  /\ pc[w] = "mark"
  /\ session' = [session EXCEPT ![job[w].u] = "completed"]
  /\ loc' = [loc EXCEPT ![w].gone = Numbers(job[w].parts)]
  /\ Goto(w, "clean")
  /\ UNCHANGED <<bucket, bytes, meta, content, answered>>

Least(S) == CHOOSE n \in S : \A m \in S : n <= m

(* cleanup_multipart: the bytes and the record of each part, then the      *)
(* session.                                                                *)
CleanupBytes(w) ==
  /\ pc[w] = "clean" /\ loc[w].gone # {}
  /\ bytes' = [bytes EXCEPT ![job[w].u][Least(loc[w].gone)] = None]
  /\ Goto(w, "cleanmeta")
  /\ UNCHANGED <<bucket, session, meta, content, loc, answered>>

CleanupMeta(w) ==
  /\ pc[w] = "cleanmeta"
  /\ meta' = [meta EXCEPT ![job[w].u][Least(loc[w].gone)] = None]
  /\ loc' = [loc EXCEPT ![w].gone = @ \ {Least(@)}]
  /\ Goto(w, "clean")
  /\ UNCHANGED <<bucket, session, bytes, content, answered>>

CleanupSession(w) ==
  /\ pc[w] = "clean" /\ loc[w].gone = {}
  /\ session' = [session EXCEPT ![job[w].u] = "removed"]
  /\ answered' = IF job[w].op = "complete" /\ answered[job[w].u] = NotYet
        THEN [answered EXCEPT ![job[w].u] =
                [at |-> nextRev,
                 parts |-> {n \in Numbers(job[w].parts) : bytes[job[w].u][n] = None}]]
        ELSE answered
  /\ End(w)
  /\ UNCHANGED <<bucket, bytes, meta, content>>

(* abort_multipart_upload: any session; the parts that have records.       *)
AbortMultipartUpload(w) ==
  \E u \in Uploads :
    /\ session[u] \in {"open", "completed"}
    /\ Begin(w, [NoJob EXCEPT !.op = "abort", !.u = u], "a_list")

(* Mutant: part numbers counted from zero.                                 *)
AbortListFromZero(w) ==
  /\ pc[w] = "a_list"
  /\ loc' = [loc EXCEPT ![w].gone = {n \in 0..(NParts - 1) : meta[job[w].u][n + 1] # None}]
  /\ Goto(w, "clean")
  /\ UNCHANGED <<store, answered>>

AbortList(w) ==
  /\ pc[w] = "a_list"
  /\ loc' = [loc EXCEPT ![w].gone = {n \in Parts : meta[job[w].u][n] # None}]
  /\ Goto(w, "clean")
  /\ UNCHANGED <<store, answered>>

-----------------------------------------------------------------------------
(* Another client's put_object, and its delete_object.                     *)
OtherPut ==
  /\ registered
  /\ nextRev < MaxRev
  /\ object' = [rev |-> nextRev, refs |-> <<>>, u |-> None, of |-> <<>>]
  /\ nextRev' = nextRev + 1
  /\ UNCHANGED <<bucket, staged, chunks, pc, job, loc, answered, jobs, faults>>

OtherDelete ==
  /\ object # None
  /\ object' = None
  /\ UNCHANGED <<bucket, staged, chunks, nextRev, pc, job, loc, answered, jobs, faults>>

(* A handler dies, or an access to the store fails: the request ends where *)
(* it is.                                                                  *)
Fails(w) ==
  /\ pc[w] # "idle"
  /\ faults < MaxFaults
  /\ faults' = faults + 1
  /\ pc' = [pc EXCEPT ![w] = "idle"]
  /\ job' = [job EXCEPT ![w] = NoJob]
  /\ loc' = [loc EXCEPT ![w] = Fresh]
  /\ UNCHANGED <<store, answered, jobs>>

Configure(w) ==
  \/ PutBucketAcl(w) \/ PutObjectAcl(w) \/ PutLifecycleConfig(w) \/ PutWebsiteConfig(w)
  \/ PutReplicationConfig(w) \/ PutConfigWrite(w)
  \/ DeleteLifecycleConfig(w) \/ DeleteWebsiteConfig(w) \/ DeleteReplicationConfig(w)

Complete(w) ==
  \/ CompleteMultipartUpload(w) \/ CompleteMeta(w) \/ CompleteBytes(w) \/ CompleteBucket(w)
  \/ CompleteResolve(w) \/ CompleteMetaAgain(w) \/ CompleteUpload(w) \/ CompleteCommit(w)
  \/ CompleteMark(w) \/ CleanupBytes(w) \/ CleanupMeta(w) \/ CleanupSession(w)

Step(w) ==
  \/ CreateBucket(w) \/ CreateBucketWrite(w) \/ CreateBucketMeta(w)
  \/ DeleteBucket(w) \/ DeleteBucketList(w) \/ DeleteBucketSessions(w)
  \/ DeleteBucketRegistry(w) \/ DeleteBucketMeta(w)
  \/ Configure(w)
  \/ CreateMultipartUpload(w) \/ CreateMultipartUploadWrite(w)
  \/ UploadPart(w) \/ UploadPartBytes(w) \/ UploadPartMeta(w)
  \/ Complete(w)
  \/ AbortMultipartUpload(w) \/ AbortList(w)
  \/ Fails(w)

Next == (\E w \in Workers : Step(w)) \/ OtherPut \/ OtherDelete

Spec == Init /\ [][Next]_vars

-----------------------------------------------------------------------------
Positions == {"idle", "b_write", "b_meta", "d_list", "d_sessions", "d_registry", "d_meta",
  "k_write", "s_write", "p_bytes", "p_meta", "meta1", "bytes1", "bucket", "resolve", "meta2",
  "bytes2", "commit", "mark", "clean", "cleanmeta", "a_list"}

(* The stores hold values of these sets; a request works on one upload.    *)
TypeOK ==
  /\ registered \in BOOLEAN /\ metadata \in BOOLEAN
  /\ config \subseteq Kinds
  /\ session \in [Uploads -> {"none", "open", "completed", "removed"}]
  /\ bytes \in [Uploads -> [Parts -> Contents \cup {None}]]
  /\ meta \in [Uploads -> [Parts -> Contents \cup {None}]]
  /\ nextRev \in 1..MaxRev
  /\ object # None => object.rev \in 1..(nextRev - 1)
  /\ pc \in [Workers -> Positions]
  /\ \A w \in Workers : loc[w].gone \subseteq Parts /\ loc[w].i \in 1..NParts
  /\ answered \in [Uploads -> [at : 0..MaxRev, parts : SUBSET Parts]]

(* docs/ping-large-media-integration.md:14-18: a completed upload is the   *)
(* parts the client named by their hashes, in that order, laid out in      *)
(* chunks as put_object would lay out the whole, and the chunks are        *)
(* stored; whatever parts were sent again, removed or named by somebody    *)
(* else while it ran.                                                      *)
CompletedIsParts ==
  object # None /\ object.u # None =>
    /\ object.refs = ChunkCiphertext(FlattenSeq([i \in DOMAIN object.of |-> object.of[i].etag]))
    /\ \A r \in ToSet(object.refs) : r.cid \in chunks

(* An object that was put after a complete was answered is not replaced by *)
(* another complete of that upload that is still under way (a client that  *)
(* repeats a slow request), unless the two name no part in common or the   *)
(* part was sent again.  An object that was deleted meanwhile may come     *)
(* back.                                                                   *)
NotBroughtBack ==
  [][object' # object /\ object' # None /\ object'.u # None /\ object # None
       => \/ object.rev < answered[object'.u].at
          \/ answered[object'.u].parts \cap Numbers(object'.of) = {}]_vars

(* delete_bucket refuses a bucket that is not empty (bucket_not_empty):    *)
(* when it removes the bucket, the object and the uploads it found when it *)
(* began are gone.  Only what was put or begun while it ran can be left    *)
(* behind: its looks at the objects and at the uploads are two steps, and  *)
(* nothing keeps others out between them and the removal.                  *)
DeletedWasEmptied ==
  [][\A w \in Workers : DeleteBucketRegistry(w) =>
       /\ object # None => object.rev >= job[w].found.rev
       /\ \A u \in job[w].found.open : session[u] # "open"]_vars
=============================================================================
