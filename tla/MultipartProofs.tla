-------------------------- MODULE MultipartProofs ---------------------------
(***************************************************************************)
(* Proofs about Multipart for any handlers, uploads, parts, contents and   *)
(* chunk size: TypeOK, NotBroughtBack, DeletedWasEmptied and               *)
(* CompletedIsParts.                                                       *)
(*                                                                         *)
(* The last one needs what the fold of CollectFixedChunkRefs and           *)
(* FlattenSeq compute for every input; the induction is over a set of      *)
(* numbers (SetInduction).                                                 *)
(***************************************************************************)
EXTENDS Multipart, SequenceTheorems, WellFoundedInduction, TLAPS

Completing == {"meta1", "bytes1", "bucket", "resolve", "meta2", "bytes2", "commit", "mark"}
Cleaning == {"clean", "cleanmeta"}
OnUpload == {"s_write", "p_bytes", "p_meta", "a_list"} \cup Completing \cup Cleaning
Firsts == {"b_write", "d_list", "k_write", "s_write", "p_bytes", "meta1", "a_list"}
Fields == {"i", "etag", "pending", "refs", "sent", "seen", "gone"}

Deleting(w) == job[w].op = "delete_bucket"
Creating(w) == job[w].op = "create"

(* What a handler at each step works on.                                   *)
WorkInv(w) ==
  /\ DOMAIN loc[w] = Fields
  /\ loc[w].gone \subseteq Parts /\ loc[w].i \in 1..NParts
  /\ pc[w] = "k_write" => job[w].op \in Kinds
  /\ pc[w] \in OnUpload => job[w].u \in Uploads
  /\ pc[w] \in {"p_bytes", "p_meta"} => job[w].n \in Parts /\ job[w].data \in Contents
  /\ pc[w] \in Completing =>
       job[w].op = "complete" /\ Len(job[w].parts) <= NParts /\ loc[w].i <= Len(job[w].parts)
  /\ job[w].op = "complete" => job[w].parts \in Seq(Part)
  /\ pc[w] = "cleanmeta" => loc[w].gone # {}
  /\ Deleting(w) <=> pc[w] \in {"d_list", "d_sessions", "d_registry", "d_meta"}
  /\ Creating(w) <=> pc[w] = "s_write"

TypeInv ==
  /\ TypeOK
  /\ DOMAIN job = Workers /\ DOMAIN loc = Workers
  /\ \A w \in Workers : WorkInv(w)

(* A step of w leaves the other handlers where they are.                   *)
Frame(w) ==
  /\ pc' = [v \in Workers |-> pc'[v]] /\ DOMAIN job' = Workers /\ DOMAIN loc' = Workers
  /\ \A v \in Workers \ {w} : pc'[v] = pc[v] /\ job'[v] = job[v] /\ loc'[v] = loc[v]

-----------------------------------------------------------------------------
(* pc, job and loc are functions on the handlers.                          *)
LEMMA Domains == TypeInv => DOMAIN pc = Workers /\ DOMAIN job = Workers /\ DOMAIN loc = Workers
  BY DEF TypeInv, TypeOK

(* What the start of a request leaves behind, and for which handler.       *)
LEMMA Begins ==
  ASSUME TypeInv, NEW w \in Workers, NEW r, NEW step, Begin(w, r, step)
  PROVE  /\ Frame(w) /\ pc[w] = "idle"
         /\ pc'[w] = step /\ job'[w] = r /\ loc'[w] = Fresh
         /\ UNCHANGED <<store, answered>>
<1>. USE Domains
<1>. QED
  BY DEF Begin, Frame

(* The end of a request: the handler is idle and its variables are fresh.  *)
LEMMA Ends ==
  ASSUME TypeInv, NEW w \in Workers, End(w)
  PROVE  Frame(w) /\ pc'[w] = "idle" /\ job'[w] = NoJob /\ loc'[w] = Fresh
  BY Domains DEF End, Frame

(* loc changes at w at most, to l.                                         *)
LEMMA Goes ==
  ASSUME TypeInv, NEW w \in Workers, NEW step, Goto(w, step),
         NEW l, loc' = [loc EXCEPT ![w] = l]
  PROVE  Frame(w) /\ pc'[w] = step /\ job'[w] = job[w] /\ loc'[w] = l
  BY Domains DEF Goto, Frame

(* A step that only moves the handler on.                                  *)
LEMMA Stays ==
  ASSUME TypeInv, NEW w \in Workers, NEW step, Goto(w, step), UNCHANGED loc
  PROVE  Frame(w) /\ pc'[w] = step /\ job'[w] = job[w] /\ loc'[w] = loc[w]
  BY Domains DEF Goto, Frame

(* The local variables and the job of an idle handler.                     *)
LEMMA FreshWork ==
  /\ DOMAIN Fresh = Fields /\ Fresh.gone = {} /\ Fresh.i = 1 /\ Fresh.seen = 0
  /\ Fresh.refs = <<>> /\ Fresh.pending = <<>> /\ Fresh.sent = <<>>
  /\ NoJob.op = "none" /\ NoJob.u = None
  BY DEF Fresh, Fields, NoJob

(* An idle handler works on nothing.                                       *)
LEMMA IdleWork ==
  ASSUME TypeInv, NEW w \in Workers, pc'[w] = "idle", job'[w] = NoJob, loc'[w] = Fresh
  PROVE  WorkInv(w)'
  BY FreshWork, MultipartAssumption DEF WorkInv, Deleting, Creating, OnUpload, Completing, Cleaning

(* Least picks a member of a set of numbers that is not empty.             *)
LEMMA LeastIn ==
  ASSUME NEW S \in SUBSET Nat, S # {}
  PROVE  Least(S) \in S
<1>. DEFINE R == OpToRel(<, Nat)
<1>1. IsWellFoundedOn(R, Nat)
  BY NatLessThanWellFounded, Zenon
<1>. HIDE DEF R
<1>2. PICK x \in S : \A y \in S : ~(<<y, x>> \in R)
  BY <1>1, WFMin, Zenon
<1>3. ASSUME NEW y \in S PROVE x <= y
  <2>1. ~(y < x)
    BY <1>2 DEF R, OpToRel
  <2>. QED
    BY <2>1
<1>4. \E x1 \in S : \A y \in S : x1 <= y
  BY <1>2, <1>3
<1>. QED
  BY <1>4, Zenon DEF Least

(* The numbers a client can name are part numbers.                         *)
LEMMA NumbersIn ==
  ASSUME NEW ps \in Seq(Part)
  PROVE  Numbers(ps) \subseteq Parts
<1>1. \A i \in 1..Len(ps) : ps[i] \in Part
  OBVIOUS
<1>2. DOMAIN ps = 1..Len(ps)
  OBVIOUS
<1>3. SUFFICES ASSUME NEW p \in ToSet(ps) PROVE p.n \in Parts
  BY DEF Numbers
<1>4. PICK i \in DOMAIN ps : p = ps[i]
  BY DEF ToSet
<1>. QED
  BY <1>1, <1>2, <1>4 DEF Part

(* What the steps of a complete do to its local variables.                 *)
LEMMA Looks ==
  ASSUME TypeInv, NEW w \in Workers, NEW e, loc' = [loc EXCEPT ![w].etag = e]
  PROVE  /\ DOMAIN loc' = Workers /\ DOMAIN loc'[w] = Fields
         /\ \A v \in Workers \ {w} : loc'[v] = loc[v]
         /\ \A f \in Fields \ {"etag"} : loc'[w][f] = loc[w][f]
  BY DEF TypeInv, WorkInv

(* The revision is resolved.                                               *)
LEMMA Sees ==
  ASSUME TypeInv, NEW w \in Workers, NEW e, loc' = [loc EXCEPT ![w].seen = e]
  PROVE  /\ DOMAIN loc' = Workers /\ DOMAIN loc'[w] = Fields
         /\ \A v \in Workers \ {w} : loc'[v] = loc[v]
         /\ \A f \in Fields \ {"seen"} : loc'[w][f] = loc[w][f]
         /\ loc'[w].seen = e
  BY DEF TypeInv, WorkInv, Fields

(* The parts left to remove are set.                                       *)
LEMMA Drops ==
  ASSUME TypeInv, NEW w \in Workers, NEW e, loc' = [loc EXCEPT ![w].gone = e]
  PROVE  /\ DOMAIN loc' = Workers /\ DOMAIN loc'[w] = Fields
         /\ \A v \in Workers \ {w} : loc'[v] = loc[v]
         /\ \A f \in Fields \ {"gone"} : loc'[w][f] = loc[w][f]
         /\ loc'[w].gone = e
  BY DEF TypeInv, WorkInv, Fields

(* The first pass takes in a part.                                         *)
LEMMA Collects ==
  ASSUME TypeInv, NEW w \in Workers, NEW j, NEW rs, NEW p,
         loc' = [loc EXCEPT ![w].i = j, ![w].etag = None, ![w].refs = rs, ![w].pending = p]
  PROVE  /\ DOMAIN loc' = Workers /\ DOMAIN loc'[w] = Fields
         /\ \A v \in Workers \ {w} : loc'[v] = loc[v]
         /\ loc'[w].i = j /\ loc'[w].refs = rs /\ loc'[w].pending = p
         /\ loc'[w].gone = loc[w].gone /\ loc'[w].seen = loc[w].seen
         /\ loc'[w].sent = loc[w].sent
  BY DEF TypeInv, WorkInv, Fields

(* The second pass sends the chunks of a part.                             *)
LEMMA Uploads2 ==
  ASSUME TypeInv, NEW w \in Workers, NEW j, NEW rs, NEW p,
         loc' = [loc EXCEPT ![w].i = j, ![w].etag = None, ![w].sent = rs, ![w].pending = p]
  PROVE  /\ DOMAIN loc' = Workers /\ DOMAIN loc'[w] = Fields
         /\ \A v \in Workers \ {w} : loc'[v] = loc[v]
         /\ loc'[w].i = j /\ loc'[w].refs = loc[w].refs
         /\ loc'[w].gone = loc[w].gone /\ loc'[w].seen = loc[w].seen
  BY DEF TypeInv, WorkInv, Fields

-----------------------------------------------------------------------------
(* A handler begins a request with a job that fits its first step.         *)
LEMMA BeginWork ==
  ASSUME TypeInv, NEW w \in Workers,
         \/ CreateBucket(w) \/ DeleteBucket(w)
         \/ PutBucketAcl(w) \/ PutObjectAcl(w) \/ PutLifecycleConfig(w)
         \/ PutWebsiteConfig(w) \/ PutReplicationConfig(w)
         \/ CreateMultipartUpload(w) \/ UploadPart(w) \/ CompleteMultipartUpload(w)
         \/ AbortMultipartUpload(w)
  PROVE  /\ Frame(w) /\ WorkInv(w)' /\ pc[w] = "idle" /\ pc'[w] \in Firsts
         /\ loc'[w] = Fresh /\ UNCHANGED <<store, answered>>
<1>. USE FreshWork, MultipartAssumption DEF Firsts
<1>1. CASE CreateBucket(w)
  <2>. DEFINE r == [NoJob EXCEPT !.op = "create_bucket"]
  <2>1. Begin(w, r, "b_write") /\ r.op = "create_bucket"
    BY <1>1 DEF CreateBucket, NoJob
  <2>. HIDE DEF r
  <2>. QED
    BY <2>1, Begins DEF WorkInv, Deleting, Creating, OnUpload, Completing, Cleaning
<1>2. CASE DeleteBucket(w)
  <2>. DEFINE f == [rev |-> nextRev, open |-> {u \in Uploads : session[u] = "open"}]
              r == [NoJob EXCEPT !.op = "delete_bucket", !.found = f]
  <2>1. Begin(w, r, "d_list") /\ r.op = "delete_bucket"
    BY <1>2 DEF DeleteBucket, NoJob
  <2>. HIDE DEF r
  <2>. QED
    BY <2>1, Begins DEF WorkInv, Deleting, Creating, OnUpload, Completing, Cleaning
<1>3. ASSUME NEW kind \in Kinds, PutConfig(w, kind)
      PROVE  /\ Frame(w) /\ WorkInv(w)' /\ pc[w] = "idle" /\ pc'[w] \in Firsts
             /\ loc'[w] = Fresh /\ UNCHANGED <<store, answered>>
  <2>. DEFINE r == [NoJob EXCEPT !.op = kind]
  <2>1. Begin(w, r, "k_write") /\ r.op = kind /\ kind \notin {"complete", "delete_bucket", "create"}
    BY <1>3 DEF PutConfig, NoJob, Kinds
  <2>. HIDE DEF r
  <2>. QED
    BY <2>1, Begins DEF WorkInv, Deleting, Creating, OnUpload, Completing, Cleaning
<1>4. CASE \/ PutBucketAcl(w) \/ PutObjectAcl(w) \/ PutLifecycleConfig(w)
           \/ PutWebsiteConfig(w) \/ PutReplicationConfig(w)
  BY <1>3, <1>4 DEF PutBucketAcl, PutObjectAcl, PutLifecycleConfig, PutWebsiteConfig,
                    PutReplicationConfig, Kinds
<1>5. CASE CreateMultipartUpload(w)
  <2>1. PICK u \in Uploads : Begin(w, [NoJob EXCEPT !.op = "create", !.u = u], "s_write")
    BY <1>5 DEF CreateMultipartUpload
  <2>. DEFINE r == [NoJob EXCEPT !.op = "create", !.u = u]
  <2>2. Begin(w, r, "s_write") /\ r.op = "create" /\ r.u = u
    BY <2>1 DEF NoJob
  <2>. HIDE DEF r
  <2>. QED
    BY <2>2, Begins DEF WorkInv, Deleting, Creating, OnUpload, Completing, Cleaning
<1>6. CASE UploadPart(w)
  <2>1. PICK u \in Uploads, n \in Parts, c \in Contents :
          Begin(w, [NoJob EXCEPT !.op = "part", !.u = u, !.n = n, !.data = c], "p_bytes")
    BY <1>6 DEF UploadPart
  <2>. DEFINE r == [NoJob EXCEPT !.op = "part", !.u = u, !.n = n, !.data = c]
  <2>2. Begin(w, r, "p_bytes") /\ r.op = "part" /\ r.u = u /\ r.n = n /\ r.data = c
    BY <2>1 DEF NoJob
  <2>. HIDE DEF r
  <2>. QED
    BY <2>2, Begins DEF WorkInv, Deleting, Creating, OnUpload, Completing, Cleaning
<1>7. CASE CompleteMultipartUpload(w)
  <2>1. PICK u \in Uploads, ps \in SeqOf(Part, NParts) :
          /\ ps # <<>>
          /\ Begin(w, [NoJob EXCEPT !.op = "complete", !.u = u, !.parts = ps], "meta1")
    BY <1>7 DEF CompleteMultipartUpload
  <2>. DEFINE r == [NoJob EXCEPT !.op = "complete", !.u = u, !.parts = ps]
  <2>2. Begin(w, r, "meta1") /\ r.op = "complete" /\ r.u = u /\ r.parts = ps
    BY <2>1 DEF NoJob
  <2>3. ps \in Seq(Part) /\ Len(ps) \in 1..NParts
    BY <2>1 DEF SeqOf
  <2>. HIDE DEF r
  <2>. QED
    BY <2>2, <2>3, Begins DEF WorkInv, Deleting, Creating, OnUpload, Completing, Cleaning
<1>8. CASE AbortMultipartUpload(w)
  <2>1. PICK u \in Uploads : Begin(w, [NoJob EXCEPT !.op = "abort", !.u = u], "a_list")
    BY <1>8 DEF AbortMultipartUpload
  <2>. DEFINE r == [NoJob EXCEPT !.op = "abort", !.u = u]
  <2>2. Begin(w, r, "a_list") /\ r.op = "abort" /\ r.u = u
    BY <2>1 DEF NoJob
  <2>. HIDE DEF r
  <2>. QED
    BY <2>2, Begins DEF WorkInv, Deleting, Creating, OnUpload, Completing, Cleaning
<1>. QED
  BY <1>1, <1>2, <1>4, <1>5, <1>6, <1>7, <1>8

(* The request ends.                                                       *)
LEMMA EndWork ==
  ASSUME TypeInv, NEW w \in Workers, End(w) \/ Refuse(w) \/ Fails(w)
  PROVE  /\ Frame(w) /\ WorkInv(w)' /\ pc'[w] = "idle"
         /\ job'[w] = NoJob /\ loc'[w] = Fresh
<1>1. /\ Frame(w) /\ pc'[w] = "idle" /\ job'[w] = NoJob /\ loc'[w] = Fresh
  BY Ends, Domains DEF Refuse, Fails, Frame
<1>. QED
  BY <1>1, IdleWork

(* A handler that completes an upload has an upload, parts and a place in  *)
(* them.                                                                   *)
LEMMA Completes ==
  ASSUME TypeInv, NEW w \in Workers, pc[w] \in Completing
  PROVE  /\ job[w].u \in Uploads /\ job[w].parts \in Seq(Part)
         /\ Len(job[w].parts) \in 1..NParts
         /\ loc[w].i \in 1..Len(job[w].parts)
<1>1. /\ job[w].u \in Uploads /\ job[w].parts \in Seq(Part)
      /\ Len(job[w].parts) <= NParts
      /\ loc[w].i \in 1..NParts /\ loc[w].i <= Len(job[w].parts)
  BY DEF TypeInv, WorkInv, OnUpload
<1>. DEFINE ps == job[w].parts
<1>2. Len(ps) \in Nat
  BY <1>1
<1>. HIDE DEF ps
<1>. QED
  BY <1>1, <1>2, MultipartAssumption DEF ps

(* The next part of a pass, or the same one.                               *)
LEMMA ReadMetaWork ==
  ASSUME TypeInv, NEW w \in Workers, pc[w] \in {"meta1", "meta2"}, ReadMeta(w)
  PROVE  Frame(w) /\ WorkInv(w)' /\ pc'[w] \in Positions
<1>1. CASE Refuse(w)
  BY <1>1, EndWork DEF Positions
<1>2. CASE ~Refuse(w)
  <2>. DEFINE stored == meta[job[w].u][Named(w).n]
              step == IF pc[w] = "meta1" THEN "bytes1" ELSE "bytes2"
  <2>1. loc' = [loc EXCEPT ![w].etag = stored] /\ Goto(w, step)
    BY <1>2 DEF ReadMeta
  <2>2. step \in {"bytes1", "bytes2"}
    OBVIOUS
  <2>. HIDE DEF stored, step
  <2>3. /\ DOMAIN loc' = Workers /\ DOMAIN loc'[w] = Fields
        /\ \A v \in Workers \ {w} : loc'[v] = loc[v]
        /\ loc'[w].i = loc[w].i /\ loc'[w].gone = loc[w].gone
    BY <2>1, Looks DEF Fields
  <2>4. Frame(w) /\ pc'[w] = step /\ job'[w] = job[w]
    BY <2>1, <2>3, Domains DEF Goto, Frame
  <2>5. WorkInv(w)
    BY DEF TypeInv
  <2>. QED
    BY <2>2, <2>3, <2>4, <2>5 DEF WorkInv, Deleting, Creating, OnUpload, Completing, Cleaning, Positions
<1>. QED
  BY <1>1, <1>2

(* The steps of the two passes over the parts keep WorkInv.                *)
LEMMA PassWork ==
  ASSUME TypeInv, NEW w \in Workers,
         CompleteMeta(w) \/ CompleteBytes(w) \/ CompleteMetaAgain(w) \/ CompleteUpload(w)
  PROVE  Frame(w) /\ WorkInv(w)' /\ pc'[w] \in Positions
<1>. USE DEF Positions
<1>0. WorkInv(w)
  BY DEF TypeInv
<1>1. CASE Refuse(w)
  BY <1>1, EndWork
<1>2. CASE ReadMeta(w) /\ (CompleteMeta(w) \/ CompleteMetaAgain(w))
  BY <1>2, ReadMetaWork DEF CompleteMeta, CompleteMetaAgain
<1>3. CASE CompleteBytes(w) /\ ~Refuse(w)
  <2>. DEFINE c == CollectFixedChunkRefs(loc[w].refs, loc[w].pending,
                                         bytes[job[w].u][Named(w).n])
              rs == FlushFixedChunkRef(c.refs, c.pending)
              c1 == c.refs
              c2 == c.pending
              j == loc[w].i + 1
  <2>0. pc[w] = "bytes1"
    BY <1>3 DEF CompleteBytes
  <2>a. /\ Len(job[w].parts) \in 1..NParts
        /\ loc[w].i \in 1..Len(job[w].parts)
    BY <2>0, Completes DEF Completing
  <2>1. CASE /\ ~LastPart(w) /\ Goto(w, "meta1")
             /\ loc' = [loc EXCEPT ![w].i = j, ![w].etag = None,
                                   ![w].refs = c1, ![w].pending = c2]
    <3>0. ~LastPart(w)
      BY <2>1, Zenon
    <3>1. loc[w].i + 1 \in 1..NParts /\ loc[w].i + 1 <= Len(job[w].parts)
      BY <2>a, <3>0, MultipartAssumption DEF LastPart
    <3>2. j = loc[w].i + 1
      OBVIOUS
    <3>. HIDE DEF c1, c2, j
    <3>3. /\ DOMAIN loc' = Workers /\ DOMAIN loc'[w] = Fields
          /\ \A v \in Workers \ {w} : loc'[v] = loc[v]
          /\ loc'[w].i = j /\ loc'[w].gone = loc[w].gone
      BY <2>1, Collects
    <3>4. Frame(w) /\ pc'[w] = "meta1" /\ job'[w] = job[w] /\ pc[w] = "bytes1"
      BY <1>3, <2>1, <3>3, Domains DEF Goto, Frame, CompleteBytes
    <3>. QED
      BY <1>0, <3>1, <3>2, <3>3, <3>4 DEF WorkInv, Deleting, Creating, OnUpload, Completing, Cleaning
  <2>2. CASE loc' = [loc EXCEPT ![w] = [Fresh EXCEPT !.refs = rs]] /\ Goto(w, "bucket")
    <3>. DEFINE l == [Fresh EXCEPT !.refs = rs]
    <3>1. DOMAIN l = Fields /\ l.i = 1 /\ l.gone = {}
      BY DEF Fresh, Fields
    <3>. HIDE DEF l
    <3>2. Frame(w) /\ pc'[w] = "bucket" /\ job'[w] = job[w] /\ loc'[w] = l
      BY <2>2, Goes DEF l
    <3>. QED
      BY <1>0, <2>0, <2>a, <3>1, <3>2, MultipartAssumption
      DEF WorkInv, Deleting, Creating, OnUpload, Completing, Cleaning
  <2>. QED
    BY <1>3, <2>1, <2>2 DEF CompleteBytes
<1>4. CASE CompleteUpload(w) /\ ~Refuse(w)
  <2>. DEFINE c == CollectFixedChunkRefs(loc[w].sent, loc[w].pending,
                                         bytes[job[w].u][Named(w).n])
              sent == IF LastPart(w) THEN FlushFixedChunkRef(c.refs, c.pending) ELSE c.refs
              j == IF LastPart(w) THEN loc[w].i ELSE loc[w].i + 1
              c2 == IF LastPart(w) THEN <<>> ELSE c.pending
              step == IF LastPart(w) THEN "commit" ELSE "meta2"
  <2>1. /\ pc[w] = "bytes2" /\ Goto(w, step)
        /\ loc' = [loc EXCEPT ![w].i = j, ![w].etag = None,
                              ![w].sent = sent, ![w].pending = c2]
    BY <1>4 DEF CompleteUpload
  <2>2. j \in 1..NParts /\ j <= Len(job[w].parts)
    <3>1. /\ Len(job[w].parts) \in 1..NParts
          /\ loc[w].i \in 1..Len(job[w].parts)
      BY <2>1, Completes DEF Completing
    <3>. QED
      BY <3>1, MultipartAssumption DEF LastPart
  <2>3. step \in {"commit", "meta2"}
    OBVIOUS
  <2>. HIDE DEF c2, j, sent, step
  <2>4. /\ DOMAIN loc' = Workers /\ DOMAIN loc'[w] = Fields
        /\ \A v \in Workers \ {w} : loc'[v] = loc[v]
        /\ loc'[w].i = j /\ loc'[w].gone = loc[w].gone
    BY <2>1, Uploads2
  <2>5. Frame(w) /\ pc'[w] = step /\ job'[w] = job[w]
    BY <2>1, <2>4, Domains DEF Goto, Frame
  <2>. QED
    BY <1>0, <2>1, <2>2, <2>3, <2>4, <2>5 DEF WorkInv, Deleting, Creating, OnUpload, Completing, Cleaning
<1>. QED
  BY <1>1, <1>2, <1>3, <1>4 DEF CompleteMeta, CompleteMetaAgain

(* The steps that go from one place to the next.                           *)
LEMMA GoWork ==
  ASSUME TypeInv, NEW w \in Workers,
         \/ CreateBucketWrite(w) \/ DeleteBucketList(w) \/ DeleteBucketSessions(w)
         \/ DeleteBucketRegistry(w) \/ UploadPartBytes(w)
         \/ CompleteBucket(w) \/ CompleteResolve(w) \/ CompleteCommit(w) \/ CompleteMark(w)
         \/ CleanupBytes(w) \/ CleanupMeta(w) \/ AbortList(w)
  PROVE  Frame(w) /\ WorkInv(w)' /\ pc'[w] \in Positions
<1>. USE DEF Positions
<1>0. WorkInv(w)
  BY DEF TypeInv
<1>. USE DEF WorkInv, Deleting, Creating, OnUpload, Completing, Cleaning
<1>1. CASE Refuse(w)
  BY <1>1, EndWork
<1>2. CASE DeleteBucketList(w) /\ ~Refuse(w)
  BY <1>0, <1>2, Stays DEF DeleteBucketList
<1>3. CASE DeleteBucketSessions(w) /\ ~Refuse(w)
  BY <1>0, <1>3, Stays DEF DeleteBucketSessions
<1>4. CASE UploadPartBytes(w)
  BY <1>0, <1>4, Stays DEF UploadPartBytes
<1>10. CASE CreateBucketWrite(w) \/ DeleteBucketRegistry(w)
  BY <1>0, <1>10, Stays DEF CreateBucketWrite, DeleteBucketRegistry
<1>5. CASE CompleteBucket(w) /\ ~Refuse(w)
  BY <1>0, <1>5, Stays DEF CompleteBucket
<1>6. CASE CompleteCommit(w) /\ ~Refuse(w)
  BY <1>0, <1>6, Stays DEF CompleteCommit
<1>7. CASE CleanupBytes(w)
  BY <1>0, <1>7, Stays DEF CleanupBytes
<1>8. CASE CompleteResolve(w)
  <2>1. PICK e : loc' = [loc EXCEPT ![w].seen = e]
    BY <1>8 DEF CompleteResolve
  <2>2. /\ DOMAIN loc' = Workers /\ DOMAIN loc'[w] = Fields
        /\ \A v \in Workers \ {w} : loc'[v] = loc[v]
        /\ loc'[w].i = loc[w].i /\ loc'[w].gone = loc[w].gone
    BY <2>1, Sees DEF Fields
  <2>3. Frame(w) /\ pc'[w] = "meta2" /\ job'[w] = job[w] /\ pc[w] = "resolve"
    BY <1>8, <2>2, Domains DEF CompleteResolve, Goto, Frame
  <2>. QED
    BY <1>0, <2>2, <2>3
<1>9. CASE CompleteMark(w) \/ CleanupMeta(w) \/ AbortList(w)
  <2>1. PICK e \in SUBSET Parts : loc' = [loc EXCEPT ![w].gone = e]
    <3>1. CASE CompleteMark(w)
      <4>1. Numbers(job[w].parts) \subseteq Parts
        BY <3>1, Completes, NumbersIn DEF CompleteMark
      <4>. QED
        BY <3>1, <4>1 DEF CompleteMark
    <3>2. CASE CleanupMeta(w)
      BY <1>0, <3>2 DEF CleanupMeta, TypeInv
    <3>3. CASE AbortList(w)
      BY <3>3 DEF AbortList
    <3>. QED
      BY <1>9, <3>1, <3>2, <3>3
  <2>2. /\ DOMAIN loc' = Workers /\ DOMAIN loc'[w] = Fields
        /\ \A v \in Workers \ {w} : loc'[v] = loc[v]
        /\ loc'[w].i = loc[w].i /\ loc'[w].gone \subseteq Parts
    BY <2>1, Drops DEF Fields
  <2>3. /\ Frame(w) /\ pc'[w] = "clean" /\ job'[w] = job[w]
        /\ pc[w] \in {"mark", "cleanmeta", "a_list"}
    BY <1>9, <2>2, Domains DEF CompleteMark, CleanupMeta, AbortList, Goto, Frame
  <2>. QED
    BY <1>0, <2>2, <2>3
<1>. QED
  BY <1>1, <1>2, <1>3, <1>4, <1>5, <1>6, <1>7, <1>8, <1>9, <1>10

(* Each step of a handler keeps its WorkInv and leaves the others alone.   *)
LEMMA WorkStep ==
  ASSUME TypeInv, NEW w \in Workers, Step(w)
  PROVE  Frame(w) /\ WorkInv(w)' /\ pc'[w] \in Positions
<1>1. CASE \/ CreateBucket(w) \/ DeleteBucket(w)
           \/ PutBucketAcl(w) \/ PutObjectAcl(w) \/ PutLifecycleConfig(w)
           \/ PutWebsiteConfig(w) \/ PutReplicationConfig(w)
           \/ CreateMultipartUpload(w) \/ UploadPart(w) \/ CompleteMultipartUpload(w)
           \/ AbortMultipartUpload(w)
  BY <1>1, BeginWork DEF Firsts, Positions
<1>2. CASE \/ CreateBucketMeta(w) \/ DeleteBucketMeta(w) \/ PutConfigWrite(w)
           \/ CreateMultipartUploadWrite(w) \/ UploadPartMeta(w) \/ CleanupSession(w)
           \/ Fails(w)
  BY <1>2, EndWork DEF CreateBucketMeta, DeleteBucketMeta, PutConfigWrite,
     CreateMultipartUploadWrite, UploadPartMeta, CleanupSession, Positions
<1>3. CASE CompleteMeta(w) \/ CompleteBytes(w) \/ CompleteMetaAgain(w) \/ CompleteUpload(w)
  BY <1>3, PassWork
<1>4. CASE \/ CreateBucketWrite(w) \/ DeleteBucketList(w) \/ DeleteBucketSessions(w)
           \/ DeleteBucketRegistry(w) \/ UploadPartBytes(w)
           \/ CompleteBucket(w) \/ CompleteResolve(w) \/ CompleteCommit(w) \/ CompleteMark(w)
           \/ CleanupBytes(w) \/ CleanupMeta(w) \/ AbortList(w)
  BY <1>4, GoWork
<1>5. CASE DeleteLifecycleConfig(w) \/ DeleteWebsiteConfig(w) \/ DeleteReplicationConfig(w)
  <2>1. UNCHANGED <<pc, job, loc>>
    BY <1>5 DEF DeleteLifecycleConfig, DeleteWebsiteConfig, DeleteReplicationConfig, DeleteConfig
  <2>. QED
    BY <2>1 DEF TypeInv, TypeOK, WorkInv, Deleting, Creating, Frame
<1>. QED
  BY <1>1, <1>2, <1>3, <1>4, <1>5 DEF Step, Configure, Complete

(* The steps that write; all others leave the store as it is.              *)
Writes(w) ==
  \/ CreateBucketWrite(w) \/ CreateBucketMeta(w) \/ DeleteBucketRegistry(w) \/ DeleteBucketMeta(w)
  \/ PutConfigWrite(w)
  \/ DeleteLifecycleConfig(w) \/ DeleteWebsiteConfig(w) \/ DeleteReplicationConfig(w)
  \/ CreateMultipartUploadWrite(w) \/ UploadPartBytes(w) \/ UploadPartMeta(w)
  \/ (CompleteUpload(w) /\ ~Refuse(w)) \/ (CompleteCommit(w) /\ ~Refuse(w))
  \/ CompleteMark(w) \/ CleanupBytes(w) \/ CleanupMeta(w) \/ CleanupSession(w)

(* The other steps leave the store and the history alone.                  *)
LEMMA OthersRead ==
  ASSUME TypeInv, NEW w \in Workers, Step(w), ~Writes(w)
  PROVE  UNCHANGED <<store, answered>>
<1>1. CASE \/ CreateBucket(w) \/ DeleteBucket(w)
           \/ PutBucketAcl(w) \/ PutObjectAcl(w) \/ PutLifecycleConfig(w)
           \/ PutWebsiteConfig(w) \/ PutReplicationConfig(w)
           \/ CreateMultipartUpload(w) \/ UploadPart(w) \/ CompleteMultipartUpload(w)
           \/ AbortMultipartUpload(w)
  BY <1>1, BeginWork
<1>2. CASE Refuse(w) \/ Fails(w)
  BY <1>2 DEF Refuse, Fails
<1>3. CASE CompleteMeta(w) \/ CompleteMetaAgain(w) \/ CompleteBytes(w)
  BY <1>3 DEF CompleteMeta, CompleteMetaAgain, CompleteBytes, ReadMeta, Refuse
<1>4. CASE \/ DeleteBucketList(w) \/ DeleteBucketSessions(w)
           \/ CompleteBucket(w) \/ CompleteResolve(w) \/ AbortList(w)
  BY <1>4 DEF DeleteBucketList, DeleteBucketSessions, CompleteBucket, CompleteResolve,
              AbortList, Refuse
<1>. QED
  BY <1>1, <1>2, <1>3, <1>4 DEF Step, Configure, Complete, Writes

(* The store part of TypeOK.                                               *)
StoreOK ==
  /\ registered \in BOOLEAN /\ metadata \in BOOLEAN
  /\ config \subseteq Kinds
  /\ session \in [Uploads -> {"none", "open", "completed", "removed"}]
  /\ bytes \in [Uploads -> [Parts -> Contents \cup {None}]]
  /\ meta \in [Uploads -> [Parts -> Contents \cup {None}]]
  /\ nextRev \in 1..MaxRev
  /\ object # None => object.rev \in 1..(nextRev - 1)
  /\ answered \in [Uploads -> [at : 0..MaxRev, parts : SUBSET Parts]]

(* The steps that write keep the types of the store.                       *)
LEMMA StoreWrites ==
  ASSUME TypeInv, NEW w \in Workers, Writes(w)
  PROVE  StoreOK'
<1>0. StoreOK /\ WorkInv(w)
  BY DEF TypeInv, TypeOK, StoreOK
<1>. USE DEF bucket, staged, content
<1>1. CASE CreateBucketWrite(w) \/ CreateBucketMeta(w)
  <2>1. registered' \in BOOLEAN /\ metadata' \in BOOLEAN
    BY <1>0, <1>1, Zenon DEF StoreOK, CreateBucketWrite, CreateBucketMeta
  <2>. QED
    BY <1>0, <1>1, <2>1 DEF StoreOK, CreateBucketWrite, CreateBucketMeta
<1>2. CASE DeleteBucketRegistry(w) \/ DeleteBucketMeta(w)
  <2>1. registered' \in BOOLEAN /\ metadata' \in BOOLEAN
    BY <1>0, <1>2, Zenon DEF StoreOK, DeleteBucketRegistry, DeleteBucketMeta
  <2>. QED
    BY <1>0, <1>2, <2>1 DEF StoreOK, DeleteBucketRegistry, DeleteBucketMeta
<1>3. CASE PutConfigWrite(w)
  BY <1>0, <1>3 DEF StoreOK, WorkInv, PutConfigWrite
<1>4. CASE DeleteLifecycleConfig(w) \/ DeleteWebsiteConfig(w) \/ DeleteReplicationConfig(w)
  <2>1. PICK kind \in Kinds : DeleteConfig(w, kind)
    BY <1>4 DEF DeleteLifecycleConfig, DeleteWebsiteConfig, DeleteReplicationConfig, Kinds
  <2>. QED
    BY <1>0, <2>1 DEF StoreOK, DeleteConfig
<1>5. CASE CreateMultipartUploadWrite(w)
  BY <1>0, <1>5 DEF StoreOK, CreateMultipartUploadWrite
<1>6. CASE UploadPartBytes(w)
  <2>1. job[w].u \in Uploads /\ job[w].n \in Parts /\ job[w].data \in Contents
    BY <1>0, <1>6 DEF UploadPartBytes, WorkInv, OnUpload
  <2>2. bytes' \in [Uploads -> [Parts -> Contents \cup {None}]]
    BY <1>0, <1>6, <2>1 DEF StoreOK, UploadPartBytes
  <2>3. answered' \in [Uploads -> [at : 0..MaxRev, parts : SUBSET Parts]]
    BY <1>0, <1>6, <2>1 DEF StoreOK, UploadPartBytes
  <2>. QED
    BY <1>0, <1>6, <2>2, <2>3 DEF StoreOK, UploadPartBytes
<1>7. CASE UploadPartMeta(w)
  <2>1. job[w].u \in Uploads /\ job[w].n \in Parts /\ job[w].data \in Contents
    BY <1>0, <1>7 DEF UploadPartMeta, WorkInv, OnUpload
  <2>2. meta' \in [Uploads -> [Parts -> Contents \cup {None}]]
    BY <1>0, <1>7, <2>1 DEF StoreOK, UploadPartMeta
  <2>. QED
    BY <1>0, <1>7, <2>2 DEF StoreOK, UploadPartMeta
<1>8. CASE CompleteUpload(w) /\ ~Refuse(w)
  <2>1. UNCHANGED <<bucket, staged, object, nextRev, answered>>
    BY <1>8 DEF CompleteUpload
  <2>. QED
    BY <1>0, <2>1 DEF StoreOK
<1>9. CASE CompleteCommit(w) /\ ~Refuse(w)
  <2>1. /\ nextRev < MaxRev /\ nextRev' = nextRev + 1 /\ object'.rev = nextRev
        /\ UNCHANGED <<bucket, staged, answered>>
    BY <1>9 DEF CompleteCommit
  <2>. QED
    BY <1>0, <2>1, MultipartAssumption DEF StoreOK
<1>10. CASE CompleteMark(w)
  BY <1>0, <1>10 DEF StoreOK, CompleteMark
<1>11. CASE CleanupBytes(w) \/ CleanupMeta(w)
  <2>1. job[w].u \in Uploads /\ loc[w].gone # {} /\ loc[w].gone \subseteq Parts
    BY <1>0, <1>11 DEF CleanupBytes, CleanupMeta, WorkInv, OnUpload, Cleaning
  <2>2. Least(loc[w].gone) \in Parts
    BY <2>1, LeastIn, MultipartAssumption DEF Parts
  <2>3. /\ bytes' \in [Uploads -> [Parts -> Contents \cup {None}]]
        /\ meta' \in [Uploads -> [Parts -> Contents \cup {None}]]
    <3>. DEFINE u == job[w].u
                n == Least(loc[w].gone)
    <3>1. u \in Uploads /\ n \in Parts
      BY <2>1, <2>2
    <3>2. \/ bytes' = [bytes EXCEPT ![u][n] = None] /\ meta' = meta
          \/ meta' = [meta EXCEPT ![u][n] = None] /\ bytes' = bytes
      BY <1>11 DEF CleanupBytes, CleanupMeta
    <3>. HIDE DEF u, n
    <3>3. /\ bytes \in [Uploads -> [Parts -> Contents \cup {None}]]
          /\ meta \in [Uploads -> [Parts -> Contents \cup {None}]]
      BY <1>0 DEF StoreOK
    <3>. DEFINE C == Contents \cup {None}
    <3>4. None \in C
      OBVIOUS
    <3>. HIDE DEF C
    <3>5. CASE bytes' = [bytes EXCEPT ![u][n] = None] /\ meta' = meta
      BY <3>1, <3>3, <3>4, <3>5 DEF C
    <3>6. CASE meta' = [meta EXCEPT ![u][n] = None] /\ bytes' = bytes
      BY <3>1, <3>3, <3>4, <3>6 DEF C
    <3>. QED
      BY <3>2, <3>5, <3>6
  <2>. QED
    BY <1>0, <1>11, <2>3 DEF StoreOK, CleanupBytes, CleanupMeta
<1>12. CASE CleanupSession(w)
  <2>1. job[w].u \in Uploads
    BY <1>0, <1>12 DEF CleanupSession, WorkInv, OnUpload, Cleaning
  <2>2. job[w].op = "complete" => Numbers(job[w].parts) \subseteq Parts
    BY <1>0, NumbersIn DEF WorkInv
  <2>3. answered' \in [Uploads -> [at : 0..MaxRev, parts : SUBSET Parts]]
    <3>. DEFINE Q == {n \in Numbers(job[w].parts) : bytes[job[w].u][n] = None}
                z == [at |-> nextRev, parts |-> Q]
    <3>1. CASE job[w].op = "complete" /\ answered[job[w].u] = NotYet
      <4>1. Q \subseteq Parts /\ nextRev \in 0..MaxRev
        BY <1>0, <2>2, <3>1, MultipartAssumption DEF StoreOK
      <4>2. answered' = [answered EXCEPT ![job[w].u] = z]
        BY <1>12, <3>1 DEF CleanupSession
      <4>. HIDE DEF Q
      <4>3. z \in [at : 0..MaxRev, parts : SUBSET Parts]
        BY <4>1
      <4>. HIDE DEF z
      <4>. QED
        BY <1>0, <2>1, <4>2, <4>3 DEF StoreOK
    <3>2. CASE ~(job[w].op = "complete" /\ answered[job[w].u] = NotYet)
      BY <1>0, <1>12, <3>2 DEF CleanupSession, StoreOK
    <3>. QED
      BY <3>1, <3>2
  <2>. QED
    BY <1>0, <1>12, <2>1, <2>3 DEF StoreOK, CleanupSession
<1>. QED
  BY <1>1, <1>2, <1>3, <1>4, <1>5, <1>6, <1>7, <1>8, <1>9, <1>10, <1>11, <1>12 DEF Writes

(* The initial states have the types.                                      *)
LEMMA TypeInit == Init => TypeInv
<1>. SUFFICES ASSUME Init PROVE TypeInv
  OBVIOUS
<1>1. StoreOK
  <2>0. registered \in BOOLEAN /\ metadata \in BOOLEAN
    BY Zenon DEF Init
  <2>1. nextRev \in 1..MaxRev /\ object = None
    BY MultipartAssumption DEF Init
  <2>2. session \in [Uploads -> {"none", "open", "completed", "removed"}]
    BY DEF Init
  <2>3. answered \in [Uploads -> [at : 0..MaxRev, parts : SUBSET Parts]]
    BY MultipartAssumption DEF Init, NotYet
  <2>4. config \subseteq Kinds
    BY DEF Init
  <2>. QED
    BY <2>0, <2>1, <2>2, <2>3, <2>4 DEF Init, StoreOK
<1>2. /\ pc \in [Workers -> Positions] /\ DOMAIN job = Workers /\ DOMAIN loc = Workers
      /\ \A w \in Workers : pc[w] = "idle" /\ job[w] = NoJob /\ loc[w] = Fresh
  BY DEF Init, Positions
<1>3. \A w \in Workers : WorkInv(w)
  BY <1>2, FreshWork, MultipartAssumption DEF WorkInv, Deleting, Creating, OnUpload, Completing, Cleaning
<1>. QED
  BY <1>1, <1>2, <1>3 DEF TypeInv, TypeOK, StoreOK, WorkInv

(* Each step keeps the types.                                              *)
LEMMA TypeNext == TypeInv /\ [Next]_vars => TypeInv'
<1>. SUFFICES ASSUME TypeInv, [Next]_vars PROVE TypeInv'
  OBVIOUS
<1>0. StoreOK
  BY DEF TypeInv, TypeOK, StoreOK
<1>1. ASSUME NEW w \in Workers, Step(w) PROVE TypeInv'
  <2>1. Frame(w) /\ WorkInv(w)' /\ pc'[w] \in Positions
    BY <1>1, WorkStep
  <2>2. StoreOK'
    <3>1. CASE Writes(w)
      BY <3>1, StoreWrites
    <3>2. CASE ~Writes(w)
      BY <1>0, <1>1, <3>2, OthersRead DEF StoreOK, store, bucket, staged, content
    <3>. QED
      BY <3>1, <3>2
  <2>3. \A v \in Workers : WorkInv(v)' /\ pc'[v] \in Positions
    <3>1. ASSUME NEW v \in Workers \ {w} PROVE WorkInv(v)' /\ pc'[v] \in Positions
      <4>1. pc'[v] = pc[v] /\ job'[v] = job[v] /\ loc'[v] = loc[v]
        BY <2>1 DEF Frame
      <4>. QED
        BY <4>1 DEF WorkInv, Deleting, Creating, TypeInv, TypeOK
    <3>. QED
      BY <2>1, <3>1
  <2>4. pc' \in [Workers -> Positions]
    BY <2>1, <2>3 DEF Frame, TypeInv, TypeOK
  <2>. QED
    BY <2>1, <2>2, <2>3, <2>4 DEF TypeInv, TypeOK, StoreOK, Frame, WorkInv
<1>2. CASE OtherPut \/ OtherDelete
  <2>1. nextRev' \in 1..MaxRev /\ (object' # None => object'.rev \in 1..(nextRev' - 1))
    BY <1>0, <1>2, MultipartAssumption DEF OtherPut, OtherDelete, StoreOK
  <2>2. StoreOK' /\ UNCHANGED <<pc, job, loc>>
    BY <1>0, <1>2, <2>1 DEF OtherPut, OtherDelete, StoreOK, bucket, staged, content
  <2>. QED
    BY <2>2 DEF TypeInv, TypeOK, StoreOK, WorkInv, Deleting, Creating
<1>3. CASE UNCHANGED vars
  BY <1>3 DEF TypeInv, TypeOK, WorkInv, Deleting, Creating, vars, store, bucket, staged, content
<1>. QED
  BY <1>1, <1>2, <1>3 DEF Next

(* The stores hold values of the sets TypeOK names, and a request works on *)
(* one upload and on parts that exist, for any handlers, uploads, parts    *)
(* and contents.                                                           *)
THEOREM TypeCorrect == Spec => []TypeOK
<1>1. Spec => []TypeInv
  BY TypeInit, TypeNext, PTL DEF Spec
<1>2. TypeInv => TypeOK
  BY DEF TypeInv
<1>. QED
  BY <1>1, <1>2, PTL

-----------------------------------------------------------------------------
(* Nothing is brought back.                                                *)

Second == {"bucket", "resolve", "meta2", "bytes2", "commit"}

(* The parts that a second pass has behind it.                             *)
Passed(w) ==
  {job[w].parts[j].n : j \in 1..(IF pc[w] = "commit" THEN Len(job[w].parts) ELSE loc[w].i - 1)}

(* A part that was removed and not sent again is not there.                *)
RemovedInv == \A u \in Uploads : \A n \in answered[u].parts : bytes[u][n] = None

(* A second pass that read a part which was removed since had resolved the *)
(* object before the upload was answered.                                  *)
SecondInv(w) ==
  /\ pc[w] \in {"bucket", "resolve"} => loc[w].i = 1
  /\ pc[w] \in {"meta2", "bytes2", "commit"} =>
       /\ loc[w].seen \in 0..(nextRev - 1)
       /\ Passed(w) \cap answered[job[w].u].parts # {} => loc[w].seen < answered[job[w].u].at

AnswerInv == RemovedInv /\ \A w \in Workers : SecondInv(w)

(* The steps of a handler that lead to the second pass or through it.      *)
Seconds(w) ==
  /\ ~Refuse(w)
  /\ \/ CompleteBytes(w) \/ CompleteBucket(w) \/ CompleteResolve(w) \/ CompleteMetaAgain(w)
     \/ CompleteUpload(w)

(* A handler is in the second pass after one of these steps, or was there. *)
LEMMA ToSecond ==
  ASSUME TypeInv, NEW w \in Workers, Step(w), pc'[w] \in Second
  PROVE  Seconds(w) \/ UNCHANGED <<pc, job, loc>>
<1>1. ~(End(w) \/ Refuse(w) \/ Fails(w))
  BY EndWork DEF Second
<1>2. ~(\/ CreateBucket(w) \/ DeleteBucket(w)
        \/ PutBucketAcl(w) \/ PutObjectAcl(w) \/ PutLifecycleConfig(w)
        \/ PutWebsiteConfig(w) \/ PutReplicationConfig(w)
        \/ CreateMultipartUpload(w) \/ UploadPart(w) \/ CompleteMultipartUpload(w)
        \/ AbortMultipartUpload(w))
  BY BeginWork DEF Second, Firsts
<1>3. CASE DeleteLifecycleConfig(w) \/ DeleteWebsiteConfig(w) \/ DeleteReplicationConfig(w)
  BY <1>3 DEF DeleteLifecycleConfig, DeleteWebsiteConfig, DeleteReplicationConfig, DeleteConfig
<1>4. ASSUME NEW step, Goto(w, step), step \notin Second PROVE FALSE
  BY <1>4, Domains DEF Goto
<1>5. ~(\/ CreateBucketWrite(w) \/ DeleteBucketList(w) \/ DeleteBucketSessions(w)
        \/ DeleteBucketRegistry(w) \/ UploadPartBytes(w)
        \/ CompleteCommit(w) \/ CompleteMark(w) \/ CleanupBytes(w) \/ CleanupMeta(w)
        \/ AbortList(w) \/ CompleteMeta(w))
  <2>1. ~(DeleteBucketList(w) \/ DeleteBucketSessions(w) \/ UploadPartBytes(w) \/ AbortList(w))
    BY <1>1, <1>4 DEF DeleteBucketList, DeleteBucketSessions, UploadPartBytes, AbortList, Second
  <2>4. ~(CreateBucketWrite(w) \/ DeleteBucketRegistry(w))
    BY <1>4 DEF CreateBucketWrite, DeleteBucketRegistry, Second
  <2>2. ~(CompleteCommit(w) \/ CompleteMark(w) \/ CleanupBytes(w) \/ CleanupMeta(w))
    BY <1>1, <1>4 DEF CompleteCommit, CompleteMark, CleanupBytes, CleanupMeta, Second
  <2>3. ~CompleteMeta(w)
    <3>. SUFFICES ASSUME CompleteMeta(w) PROVE FALSE
      OBVIOUS
    <3>1. pc[w] = "meta1" /\ ReadMeta(w)
      BY <1>1 DEF CompleteMeta
    <3>2. Goto(w, "bytes1")
      BY <1>1, <3>1 DEF ReadMeta
    <3>. QED
      BY <1>4, <3>2 DEF Second
  <2>. QED
    BY <2>1, <2>2, <2>3, <2>4
<1>6. ~(\/ CreateBucketMeta(w) \/ DeleteBucketMeta(w) \/ PutConfigWrite(w)
        \/ CreateMultipartUploadWrite(w) \/ UploadPartMeta(w) \/ CleanupSession(w))
  BY <1>1 DEF CreateBucketMeta, DeleteBucketMeta, PutConfigWrite,
     CreateMultipartUploadWrite, UploadPartMeta, CleanupSession
<1>. QED
  BY <1>1, <1>2, <1>3, <1>5, <1>6 DEF Step, Configure, Complete, Seconds

(* The history of an upload's answer: it is answered once, at the current  *)
(* revision, and then parts are only taken off.                            *)
LEMMA AnswerStep ==
  ASSUME TypeInv, NEW w \in Workers, Step(w)
  PROVE  /\ nextRev' >= nextRev
         /\ \A u \in Uploads :
              \/ answered'[u].at = answered[u].at /\ answered'[u].parts \subseteq answered[u].parts
              \/ answered'[u].at = nextRev
<1>0. StoreOK /\ WorkInv(w)
  BY DEF TypeInv, TypeOK, StoreOK
<1>1. CASE ~Writes(w)
  BY <1>0, <1>1, OthersRead DEF StoreOK, store, content
<1>2. CASE UploadPartBytes(w)
  <2>1. job[w].u \in Uploads
    BY <1>0, <1>2 DEF UploadPartBytes, WorkInv, OnUpload
  <2>2. \A u \in Uploads : answered[u] \in [at : 0..MaxRev, parts : SUBSET Parts]
    BY <1>0 DEF StoreOK
  <2>. QED
    BY <1>0, <1>2, <2>1, <2>2 DEF UploadPartBytes, StoreOK, content
<1>3. CASE CompleteCommit(w) /\ ~Refuse(w)
  BY <1>0, <1>3 DEF CompleteCommit, StoreOK
<1>4. CASE CleanupSession(w)
  BY <1>0, <1>4 DEF CleanupSession, StoreOK, content
<1>5. CASE \/ CreateBucketWrite(w) \/ CreateBucketMeta(w) \/ DeleteBucketRegistry(w)
           \/ DeleteBucketMeta(w) \/ PutConfigWrite(w)
           \/ CreateMultipartUploadWrite(w) \/ UploadPartMeta(w)
           \/ CompleteMark(w) \/ CleanupBytes(w) \/ CleanupMeta(w)
  <2>1. UNCHANGED <<nextRev, answered>>
    BY <1>5 DEF CreateBucketWrite, CreateBucketMeta, DeleteBucketRegistry, DeleteBucketMeta, PutConfigWrite,
       CreateMultipartUploadWrite, UploadPartMeta, CompleteMark, CleanupBytes, CleanupMeta, content
  <2>. QED
    BY <1>0, <2>1 DEF StoreOK
<1>6. CASE \/ DeleteLifecycleConfig(w) \/ DeleteWebsiteConfig(w) \/ DeleteReplicationConfig(w)
           \/ (CompleteUpload(w) /\ ~Refuse(w))
  <2>1. UNCHANGED <<nextRev, answered>>
    BY <1>6 DEF DeleteLifecycleConfig, DeleteWebsiteConfig, DeleteReplicationConfig, DeleteConfig,
       CompleteUpload, content
  <2>. QED
    BY <1>0, <2>1 DEF StoreOK
<1>. QED
  BY <1>1, <1>2, <1>3, <1>4, <1>5, <1>6 DEF Writes

(* Parts that count as removed stay without bytes: who sends one again     *)
(* takes it out of the history.                                            *)
LEMMA RemovedStep ==
  ASSUME TypeInv, RemovedInv, NEW w \in Workers, Step(w)
  PROVE  RemovedInv'
<1>0. StoreOK /\ WorkInv(w)
  BY DEF TypeInv, TypeOK, StoreOK
<1>. SUFFICES ASSUME NEW u \in Uploads, NEW n \in answered'[u].parts PROVE bytes'[u][n] = None
  BY DEF RemovedInv
<1>1. CASE UNCHANGED <<bytes, answered>>
  BY <1>1 DEF RemovedInv
<1>2. CASE UploadPartBytes(w)
  <2>1. job[w].u \in Uploads /\ job[w].n \in Parts
    BY <1>0, <1>2 DEF UploadPartBytes, WorkInv, OnUpload
  <2>2. \A x \in Uploads : answered[x] \in [at : 0..MaxRev, parts : SUBSET Parts]
    BY <1>0 DEF StoreOK
  <2>3. n \in answered[u].parts /\ ~(u = job[w].u /\ n = job[w].n)
    BY <1>0, <1>2, <2>1, <2>2 DEF UploadPartBytes, StoreOK
  <2>4. n \in Parts
    BY <2>2, <2>3
  <2>5. bytes'[u][n] = bytes[u][n]
    BY <1>0, <1>2, <2>1, <2>3, <2>4 DEF UploadPartBytes, StoreOK
  <2>. QED
    BY <2>3, <2>5 DEF RemovedInv
<1>3. CASE CleanupBytes(w)
  <2>1. job[w].u \in Uploads /\ loc[w].gone # {} /\ loc[w].gone \subseteq Parts
    BY <1>0, <1>3 DEF CleanupBytes, WorkInv, OnUpload, Cleaning
  <2>2. Least(loc[w].gone) \in Parts
    BY <2>1, LeastIn, MultipartAssumption DEF Parts
  <2>3. n \in answered[u].parts /\ n \in Parts
    BY <1>0, <1>3 DEF CleanupBytes, StoreOK
  <2>4. bytes'[u][n] \in {None, bytes[u][n]}
    <3>. DEFINE x == job[w].u
                k == Least(loc[w].gone)
    <3>1. bytes' = [bytes EXCEPT ![x][k] = None] /\ x \in Uploads /\ k \in Parts
      BY <1>3, <2>1, <2>2 DEF CleanupBytes
    <3>. HIDE DEF x, k
    <3>. QED
      BY <1>0, <2>3, <3>1 DEF StoreOK
  <2>. QED
    BY <2>3, <2>4 DEF RemovedInv
<1>4. CASE CleanupSession(w)
  <2>1. job[w].u \in Uploads
    BY <1>0, <1>4 DEF CleanupSession, WorkInv, OnUpload, Cleaning
  <2>2. CASE job[w].op = "complete" /\ answered[job[w].u] = NotYet
    <3>. DEFINE Q == {k \in Numbers(job[w].parts) : bytes[job[w].u][k] = None}
    <3>1. answered' = [answered EXCEPT ![job[w].u] = [at |-> nextRev, parts |-> Q]]
      BY <1>4, <2>2 DEF CleanupSession
    <3>2. u = job[w].u => bytes[u][n] = None
      BY <1>0, <2>1, <3>1 DEF StoreOK
    <3>. HIDE DEF Q
    <3>3. u # job[w].u => n \in answered[u].parts
      BY <1>0, <2>1, <3>1 DEF StoreOK
    <3>. QED
      BY <1>4, <3>2, <3>3 DEF CleanupSession, RemovedInv
  <2>3. CASE ~(job[w].op = "complete" /\ answered[job[w].u] = NotYet)
    BY <1>4, <2>3 DEF CleanupSession, RemovedInv
  <2>. QED
    BY <2>2, <2>3
<1>5. CASE ~Writes(w)
  BY <1>1, <1>5, OthersRead DEF store, staged
<1>6. CASE \/ CreateBucketWrite(w) \/ CreateBucketMeta(w) \/ DeleteBucketRegistry(w)
           \/ DeleteBucketMeta(w) \/ PutConfigWrite(w)
           \/ CreateMultipartUploadWrite(w) \/ UploadPartMeta(w)
           \/ CompleteMark(w) \/ CleanupMeta(w)
  BY <1>1, <1>6 DEF CreateBucketWrite, CreateBucketMeta, DeleteBucketRegistry, DeleteBucketMeta, PutConfigWrite,
     CreateMultipartUploadWrite, UploadPartMeta, CompleteMark, CleanupMeta, staged
<1>7. CASE \/ DeleteLifecycleConfig(w) \/ DeleteWebsiteConfig(w) \/ DeleteReplicationConfig(w)
           \/ ((CompleteUpload(w) \/ CompleteCommit(w)) /\ ~Refuse(w))
  BY <1>1, <1>7 DEF DeleteLifecycleConfig, DeleteWebsiteConfig, DeleteReplicationConfig, DeleteConfig,
     CompleteUpload, CompleteCommit, staged
<1>. QED
  BY <1>2, <1>3, <1>4, <1>5, <1>6, <1>7 DEF Writes

(* A handler that does not move, while the store does.                     *)
LEMMA SecondKept ==
  ASSUME TypeInv, NEW v \in Workers, SecondInv(v),
         pc'[v] = pc[v], job'[v] = job[v], loc'[v] = loc[v],
         nextRev' \in Nat, nextRev' >= nextRev,
         \A u \in Uploads :
           \/ answered'[u].at = answered[u].at /\ answered'[u].parts \subseteq answered[u].parts
           \/ answered'[u].at = nextRev
  PROVE  SecondInv(v)'
<1>1. Passed(v)' = Passed(v)
  BY DEF Passed
<1>2. pc[v] \in {"bucket", "resolve"} => loc'[v].i = 1
  BY DEF SecondInv
<1>3. ASSUME pc[v] \in {"meta2", "bytes2", "commit"}
      PROVE  /\ loc[v].seen \in 0..(nextRev' - 1)
             /\ Passed(v) \cap answered'[job[v].u].parts # {} =>
                  loc[v].seen < answered'[job[v].u].at
  <2>1. job[v].u \in Uploads
    BY <1>3 DEF TypeInv, WorkInv, OnUpload, Completing
  <2>2. /\ loc[v].seen \in 0..(nextRev - 1)
        /\ Passed(v) \cap answered[job[v].u].parts # {} => loc[v].seen < answered[job[v].u].at
    BY <1>3 DEF SecondInv
  <2>3. nextRev \in Nat
    BY DEF TypeInv, TypeOK
  <2>. QED
    BY <2>1, <2>2, <2>3
<1>. QED
  BY <1>1, <1>2, <1>3 DEF SecondInv

(* The steps of the second pass keep SecondInv: a part it passes was       *)
(* stored, and so is not one that an earlier answer removed.               *)
LEMMA SecondStep ==
  ASSUME TypeInv, RemovedInv, NEW w \in Workers, SecondInv(w), Step(w), Seconds(w)
  PROVE  SecondInv(w)'
<1>0. StoreOK /\ WorkInv(w)
  BY DEF TypeInv, TypeOK, StoreOK
<1>1. CASE CompleteBytes(w)
  <2>0. pc[w] = "bytes1" /\ ~Refuse(w)
    BY <1>1 DEF Seconds, CompleteBytes
  <2>1. CASE Goto(w, "meta1")
    BY <2>1, Domains DEF Goto, SecondInv
  <2>2. CASE ~Goto(w, "meta1")
    <3>1. PICK rs : loc' = [loc EXCEPT ![w] = [Fresh EXCEPT !.refs = rs]] /\ Goto(w, "bucket")
      BY <1>1, <2>0, <2>2 DEF CompleteBytes
    <3>. DEFINE l == [Fresh EXCEPT !.refs = rs]
    <3>2. l.i = 1
      BY DEF Fresh
    <3>. HIDE DEF l
    <3>3. pc'[w] = "bucket" /\ loc'[w] = l
      BY <3>1, Goes DEF l
    <3>. QED
      BY <3>2, <3>3 DEF SecondInv
  <2>. QED
    BY <2>1, <2>2
<1>2. CASE CompleteBucket(w)
  <2>1. pc[w] = "bucket" /\ Goto(w, "resolve") /\ UNCHANGED loc
    BY <1>2 DEF Seconds, CompleteBucket
  <2>. QED
    BY <2>1, Stays DEF SecondInv
<1>3. CASE CompleteResolve(w)
  <2>. DEFINE e == IF object = None THEN 0 ELSE object.rev
  <2>1. pc[w] = "resolve" /\ Goto(w, "meta2") /\ loc' = [loc EXCEPT ![w].seen = e]
        /\ UNCHANGED <<store, answered>>
    BY <1>3 DEF CompleteResolve
  <2>2. e \in 0..(nextRev - 1)
    BY <1>0, MultipartAssumption DEF StoreOK
  <2>. HIDE DEF e
  <2>3. loc'[w].seen = e /\ loc'[w].i = loc[w].i
    BY <2>1, Sees DEF Fields
  <2>4. pc'[w] = "meta2" /\ job'[w] = job[w] /\ loc'[w].i = 1
    BY <2>1, <2>3, Domains DEF Goto, SecondInv
  <2>5. Passed(w)' = {}
    BY <2>4 DEF Passed
  <2>. QED
    BY <2>1, <2>2, <2>3, <2>4, <2>5 DEF SecondInv, store, content
<1>4. CASE CompleteMetaAgain(w)
  <2>1. pc[w] = "meta2" /\ ReadMeta(w) /\ ~Refuse(w)
    BY <1>4 DEF Seconds, CompleteMetaAgain
  <2>2. PICK e : loc' = [loc EXCEPT ![w].etag = e]
    BY <2>1 DEF ReadMeta
  <2>3. Goto(w, "bytes2") /\ UNCHANGED <<store, answered>>
    BY <2>1 DEF ReadMeta
  <2>4. loc'[w].seen = loc[w].seen /\ loc'[w].i = loc[w].i
    BY <2>2, Looks DEF Fields
  <2>5. pc'[w] = "bytes2" /\ job'[w] = job[w]
    BY <2>3, Domains DEF Goto
  <2>6. Passed(w)' = Passed(w)
    BY <2>1, <2>4, <2>5 DEF Passed
  <2>. QED
    BY <2>1, <2>3, <2>4, <2>5, <2>6 DEF SecondInv, store, content
<1>5. CASE CompleteUpload(w)
  <2>. DEFINE c == CollectFixedChunkRefs(loc[w].sent, loc[w].pending,
                                         bytes[job[w].u][Named(w).n])
              sent == IF LastPart(w) THEN FlushFixedChunkRef(c.refs, c.pending) ELSE c.refs
              j == IF LastPart(w) THEN loc[w].i ELSE loc[w].i + 1
              c2 == IF LastPart(w) THEN <<>> ELSE c.pending
              step == IF LastPart(w) THEN "commit" ELSE "meta2"
  <2>1. /\ pc[w] = "bytes2" /\ Goto(w, step) /\ Intact(w)
        /\ loc' = [loc EXCEPT ![w].i = j, ![w].etag = None,
                              ![w].sent = sent, ![w].pending = c2]
        /\ UNCHANGED <<nextRev, answered>>
    BY <1>5 DEF CompleteUpload, Seconds
  <2>. HIDE DEF c2, sent
  <2>2. loc'[w].i = j /\ loc'[w].seen = loc[w].seen
    <3>. HIDE DEF j
    <3>. QED
      BY <2>1, Uploads2
  <2>3. pc'[w] = step /\ job'[w] = job[w]
    <3>. HIDE DEF step
    <3>. QED
      BY <2>1, Domains DEF Goto
  <2>. DEFINE ps == job[w].parts
              i == loc[w].i
              u == job[w].u
  <2>4. u \in Uploads /\ ps \in Seq(Part) /\ i \in 1..Len(ps) /\ Len(ps) \in Nat
    BY <2>1, Completes DEF Completing
  <2>5. ps[i].n \notin answered[u].parts
    <3>1. ps[i] \in Part
      BY <2>4
    <3>2. bytes[u][ps[i].n] = ps[i].etag
      BY <2>1 DEF Intact, Named
    <3>3. bytes[u][ps[i].n] # None
      BY <3>1, <3>2, MultipartAssumption DEF Part
    <3>. QED
      BY <2>4, <3>3 DEF RemovedInv
  <2>6. ASSUME NEW n \in Passed(w)' PROVE n \in Passed(w) \/ n = ps[i].n
    <3>1. PICK k \in 1..(IF pc'[w] = "commit" THEN Len(ps) ELSE loc'[w].i - 1) : n = ps[k].n
      BY <2>3, <2>6 DEF Passed
    <3>2. k \in 1..i
      <4>1. CASE LastPart(w)
        <5>1. i = Len(ps)
          BY <4>1 DEF LastPart
        <5>2. pc'[w] = "commit"
          BY <2>3, <4>1
        <5>. QED
          BY <3>1, <5>1, <5>2
      <4>2. CASE ~LastPart(w)
        <5>1. pc'[w] = "meta2" /\ loc'[w].i = i + 1
          BY <2>2, <2>3, <4>2
        <5>. HIDE DEF i, ps
        <5>. QED
          BY <2>4, <3>1, <5>1
      <4>. QED
        BY <4>1, <4>2
    <3>3. Passed(w) = {ps[k1].n : k1 \in 1..(i - 1)}
      BY <2>1 DEF Passed
    <3>4. k = i \/ k \in 1..(i - 1)
      <4>. HIDE DEF i, ps
      <4>. QED
        BY <2>4, <3>2
    <3>. HIDE DEF i, ps
    <3>. QED
      BY <3>1, <3>3, <3>4
  <2>7. Passed(w)' \cap answered[u].parts # {} => Passed(w) \cap answered[u].parts # {}
    BY <2>5, <2>6
  <2>8. /\ loc[w].seen \in 0..(nextRev - 1)
        /\ Passed(w) \cap answered[u].parts # {} => loc[w].seen < answered[u].at
    BY <2>1 DEF SecondInv
  <2>9. pc'[w] \notin {"bucket", "resolve"}
    BY <2>3
  <2>. QED
    BY <2>1, <2>2, <2>3, <2>7, <2>8, <2>9 DEF SecondInv
<1>. QED
  BY <1>1, <1>2, <1>3, <1>4, <1>5 DEF Seconds

(* Nothing was answered yet.                                               *)
LEMMA AnswerInit == Init => AnswerInv
  BY DEF Init, AnswerInv, RemovedInv, SecondInv, NotYet

(* Each step keeps AnswerInv.                                              *)
LEMMA AnswerNext == TypeInv /\ AnswerInv /\ [Next]_vars => AnswerInv'
<1>. SUFFICES ASSUME TypeInv, AnswerInv, [Next]_vars PROVE AnswerInv'
  OBVIOUS
<1>0. RemovedInv /\ (\A v \in Workers : SecondInv(v)) /\ nextRev \in Nat /\ nextRev' \in Nat
  <2>1. TypeInv'
    BY TypeNext
  <2>. QED
    BY <2>1 DEF AnswerInv, TypeInv, TypeOK
<1>1. ASSUME NEW w \in Workers, Step(w) PROVE AnswerInv'
  <2>1. RemovedInv'
    BY <1>0, <1>1, RemovedStep
  <2>2. /\ Frame(w) /\ nextRev' >= nextRev
        /\ \A u \in Uploads :
             \/ answered'[u].at = answered[u].at /\ answered'[u].parts \subseteq answered[u].parts
             \/ answered'[u].at = nextRev
    BY <1>1, AnswerStep, WorkStep
  <2>3. ASSUME NEW v \in Workers, pc'[v] = pc[v], job'[v] = job[v], loc'[v] = loc[v]
        PROVE  SecondInv(v)'
    BY <1>0, <2>2, <2>3, SecondKept
  <2>4. SecondInv(w)'
    <3>1. CASE pc'[w] \notin Second
      BY <3>1 DEF SecondInv, Second
    <3>2. CASE pc'[w] \in Second /\ Seconds(w)
      BY <1>0, <1>1, <3>2, SecondStep
    <3>3. CASE UNCHANGED <<pc, job, loc>>
      BY <2>3, <3>3
    <3>. QED
      BY <1>1, <3>1, <3>2, <3>3, ToSecond
  <2>. QED
    BY <2>1, <2>2, <2>3, <2>4 DEF AnswerInv, Frame
<1>2. CASE OtherPut \/ OtherDelete
  <2>1. UNCHANGED <<bytes, answered, pc, job, loc>> /\ nextRev' >= nextRev
    BY <1>0, <1>2 DEF OtherPut, OtherDelete, staged
  <2>2. ASSUME NEW v \in Workers PROVE SecondInv(v)'
    BY <1>0, <2>1, SecondKept
  <2>. QED
    BY <1>0, <2>1, <2>2 DEF AnswerInv, RemovedInv
<1>3. CASE UNCHANGED vars
  <2>1. UNCHANGED <<bytes, answered, pc, job, loc, nextRev>>
    BY <1>3 DEF vars, store, staged, content
  <2>2. ASSUME NEW v \in Workers PROVE SecondInv(v)'
    BY <1>0, <2>1, SecondKept
  <2>. QED
    BY <1>0, <2>1, <2>2 DEF AnswerInv, RemovedInv
<1>. QED
  BY <1>1, <1>2, <1>3 DEF Next

(* The object changes by another client's hand, or by a commit that still  *)
(* finds the revision it resolved.                                         *)
LEMMA ObjectStep ==
  ASSUME TypeInv, [Next]_vars, object' # object
  PROVE  \/ OtherPut \/ OtherDelete
         \/ \E w \in Workers : CompleteCommit(w) /\ ~Refuse(w)
<1>1. ASSUME NEW w \in Workers, Step(w), ~(CompleteCommit(w) /\ ~Refuse(w)) PROVE FALSE
  <2>1. Writes(w)
    BY <1>1, OthersRead DEF store, content
  <2>2. UNCHANGED object
    BY <1>1, <2>1 DEF Writes, CreateBucketWrite, CreateBucketMeta, DeleteBucketRegistry, DeleteBucketMeta,
       PutConfigWrite,
       DeleteLifecycleConfig, DeleteWebsiteConfig, DeleteReplicationConfig, DeleteConfig,
       CreateMultipartUploadWrite, UploadPartBytes, UploadPartMeta, CompleteUpload,
       CompleteMark, CleanupBytes, CleanupMeta, CleanupSession, content
  <2>. QED
    BY <2>2
<1>2. ~UNCHANGED vars
  BY DEF vars, store, content
<1>. QED
  BY <1>1, <1>2 DEF Next

(* An object that was put after a complete was answered is not replaced by *)
(* another complete of that upload that names a part which was removed and *)
(* not sent again.                                                         *)
THEOREM NotBroughtBackHolds == Spec => NotBroughtBack
<1>. DEFINE P == object' # object /\ object' # None /\ object'.u # None /\ object # None
                   => \/ object.rev < answered[object'.u].at
                      \/ answered[object'.u].parts \cap Numbers(object'.of) = {}
<1>1. TypeInv /\ AnswerInv /\ [Next]_vars => P
  <2>. SUFFICES ASSUME TypeInv, AnswerInv, [Next]_vars,
                       object' # object, object' # None, object'.u # None, object # None,
                       answered[object'.u].parts \cap Numbers(object'.of) # {}
                PROVE  object.rev < answered[object'.u].at
    OBVIOUS
  <2>1. ~OtherPut /\ ~OtherDelete
    BY DEF OtherPut, OtherDelete
  <2>2. PICK w \in Workers : CompleteCommit(w) /\ ~Refuse(w)
    BY <2>1, ObjectStep
  <2>3. /\ pc[w] = "commit" /\ Unmoved(w)
        /\ object'.u = job[w].u /\ object'.of = job[w].parts
    BY <2>2 DEF CompleteCommit
  <2>4. job[w].parts \in Seq(Part)
    BY <2>3, Completes DEF Completing
  <2>5. Numbers(job[w].parts) = Passed(w)
    <3>. DEFINE ps == job[w].parts
    <3>1. DOMAIN ps = 1..Len(ps)
      BY <2>4
    <3>. QED
      BY <2>3, <3>1 DEF Passed, Numbers, ToSet
  <2>6. loc[w].seen < answered[job[w].u].at
    BY <2>3, <2>5 DEF AnswerInv, SecondInv
  <2>. QED
    BY <2>3, <2>6 DEF Unmoved
<1>2. Spec => []TypeInv
  BY TypeInit, TypeNext, PTL DEF Spec
<1>3. Spec => []AnswerInv
  BY <1>2, AnswerInit, AnswerNext, PTL DEF Spec
<1>4. Spec => [][P]_vars
  BY <1>1, <1>2, <1>3, PTL DEF Spec
<1>. QED
  BY <1>4 DEF NotBroughtBack

-----------------------------------------------------------------------------
(* What a delete finds when it begins is gone before it removes the bucket. *)
DeleteSteps == {"d_list", "d_sessions", "d_registry"}

FoundInv(w) ==
  pc[w] \in DeleteSteps =>
    /\ job[w].found.rev \in Nat /\ job[w].found.rev <= nextRev
    /\ \A u \in job[w].found.open : u \in Uploads /\ session[u] # "none"
    /\ pc[w] # "d_list" /\ object # None => object.rev >= job[w].found.rev
    /\ pc[w] = "d_registry" => \A u \in job[w].found.open : session[u] # "open"

(* An upload that is being created is not there, and nobody works on it.   *)
CreatorInv(w) ==
  pc[w] = "s_write" =>
    session[job[w].u] = "none" /\ \A v \in Workers \ {w} : job[v].u # job[w].u

EmptiedInv == \A w \in Workers : FoundInv(w) /\ CreatorInv(w)

(* Which job a handler has after a step.                                   *)
LEMMA JobStep ==
  ASSUME TypeInv, NEW w \in Workers, Step(w)
  PROVE  \/ job'[w] = job[w]
         \/ pc'[w] = "idle" /\ job'[w] = NoJob
         \/ DeleteBucket(w) \/ CreateMultipartUpload(w)
         \/ /\ pc'[w] \notin DeleteSteps \cup {"s_write"}
            /\ job'[w].u = None \/ (job'[w].u \in Uploads /\ session[job'[w].u] # "none")
<1>. USE DEF DeleteSteps
<1>1. CASE End(w) \/ Refuse(w) \/ Fails(w)
  BY <1>1, EndWork
<1>2. CASE CreateBucket(w)
  <2>. DEFINE r == [NoJob EXCEPT !.op = "create_bucket"]
  <2>1. Begin(w, r, "b_write") /\ r.u = None
    BY <1>2 DEF CreateBucket, NoJob
  <2>. HIDE DEF r
  <2>. QED
    BY <2>1, Begins
<1>3. ASSUME NEW kind \in Kinds, PutConfig(w, kind)
      PROVE  pc'[w] = "k_write" /\ job'[w].u = None
  <2>. DEFINE r == [NoJob EXCEPT !.op = kind]
  <2>1. Begin(w, r, "k_write") /\ r.u = None
    BY <1>3 DEF PutConfig, NoJob
  <2>. HIDE DEF r
  <2>. QED
    BY <2>1, Begins
<1>4. CASE \/ PutBucketAcl(w) \/ PutObjectAcl(w) \/ PutLifecycleConfig(w)
           \/ PutWebsiteConfig(w) \/ PutReplicationConfig(w)
  BY <1>3, <1>4 DEF PutBucketAcl, PutObjectAcl, PutLifecycleConfig, PutWebsiteConfig,
                    PutReplicationConfig, Kinds
<1>5. CASE UploadPart(w)
  <2>1. PICK u \in Uploads, n \in Parts, c \in Contents :
          /\ session[u] = "open"
          /\ Begin(w, [NoJob EXCEPT !.op = "part", !.u = u, !.n = n, !.data = c], "p_bytes")
    BY <1>5 DEF UploadPart
  <2>. DEFINE r == [NoJob EXCEPT !.op = "part", !.u = u, !.n = n, !.data = c]
  <2>2. Begin(w, r, "p_bytes") /\ r.u = u
    BY <2>1 DEF NoJob
  <2>. HIDE DEF r
  <2>. QED
    BY <2>1, <2>2, Begins
<1>6. CASE CompleteMultipartUpload(w)
  <2>1. PICK u \in Uploads, ps \in SeqOf(Part, NParts) :
          /\ session[u] = "open"
          /\ Begin(w, [NoJob EXCEPT !.op = "complete", !.u = u, !.parts = ps], "meta1")
    BY <1>6 DEF CompleteMultipartUpload
  <2>. DEFINE r == [NoJob EXCEPT !.op = "complete", !.u = u, !.parts = ps]
  <2>2. Begin(w, r, "meta1") /\ r.u = u
    BY <2>1 DEF NoJob
  <2>. HIDE DEF r
  <2>. QED
    BY <2>1, <2>2, Begins
<1>7. CASE AbortMultipartUpload(w)
  <2>1. PICK u \in Uploads :
          /\ session[u] \in {"open", "completed"}
          /\ Begin(w, [NoJob EXCEPT !.op = "abort", !.u = u], "a_list")
    BY <1>7 DEF AbortMultipartUpload
  <2>. DEFINE r == [NoJob EXCEPT !.op = "abort", !.u = u]
  <2>2. Begin(w, r, "a_list") /\ r.u = u
    BY <2>1 DEF NoJob
  <2>. HIDE DEF r
  <2>. QED
    BY <2>1, <2>2, Begins
<1>8. ASSUME NEW step, Goto(w, step) PROVE job'[w] = job[w]
  BY <1>8 DEF Goto
<1>9. CASE \/ CreateBucketWrite(w) \/ DeleteBucketRegistry(w) \/ UploadPartBytes(w)
           \/ CompleteResolve(w) \/ CompleteMark(w)
           \/ CleanupBytes(w) \/ CleanupMeta(w) \/ AbortList(w)
  BY <1>8, <1>9 DEF CreateBucketWrite, DeleteBucketRegistry, UploadPartBytes, CompleteResolve,
     CompleteMark, CleanupBytes, CleanupMeta, AbortList
<1>10. CASE /\ ~Refuse(w)
            /\ \/ DeleteBucketList(w) \/ DeleteBucketSessions(w) \/ CompleteMeta(w)
               \/ CompleteBytes(w) \/ CompleteBucket(w) \/ CompleteMetaAgain(w)
               \/ CompleteUpload(w) \/ CompleteCommit(w)
  BY <1>8, <1>10, Zenon DEF DeleteBucketList, DeleteBucketSessions, CompleteMeta, CompleteBytes,
     CompleteBucket, CompleteMetaAgain, CompleteUpload, CompleteCommit, ReadMeta
<1>11. CASE \/ CreateBucketMeta(w) \/ DeleteBucketMeta(w) \/ PutConfigWrite(w)
            \/ CreateMultipartUploadWrite(w) \/ UploadPartMeta(w) \/ CleanupSession(w)
  BY <1>1, <1>11 DEF CreateBucketMeta, DeleteBucketMeta, PutConfigWrite,
     CreateMultipartUploadWrite, UploadPartMeta, CleanupSession
<1>12. CASE DeleteLifecycleConfig(w) \/ DeleteWebsiteConfig(w) \/ DeleteReplicationConfig(w)
  BY <1>12 DEF DeleteLifecycleConfig, DeleteWebsiteConfig, DeleteReplicationConfig, DeleteConfig
<1>. QED
  BY <1>1, <1>2, <1>4, <1>5, <1>6, <1>7, <1>9, <1>10, <1>11, <1>12 DEF Step, Configure, Complete

(* What a step does to the sessions: it creates the one it was to create,  *)
(* or ends one.                                                            *)
LEMMA SessionStep ==
  ASSUME TypeInv, NEW w \in Workers, Step(w)
  PROVE  \/ session' = session
         \/ pc[w] = "s_write" /\ session' = [session EXCEPT ![job[w].u] = "open"]
         \/ \E x \in {"completed", "removed"} : session' = [session EXCEPT ![job[w].u] = x]
<1>1. CASE ~Writes(w)
  BY <1>1, OthersRead DEF store, staged
<1>2. CASE CreateMultipartUploadWrite(w)
  BY <1>2 DEF CreateMultipartUploadWrite
<1>3. CASE CompleteMark(w) \/ CleanupSession(w)
  BY <1>3 DEF CompleteMark, CleanupSession
<1>4. CASE Writes(w) /\ ~CreateMultipartUploadWrite(w) /\ ~CompleteMark(w) /\ ~CleanupSession(w)
  BY <1>4 DEF Writes, CreateBucketWrite, CreateBucketMeta, DeleteBucketRegistry, DeleteBucketMeta,
     PutConfigWrite, DeleteLifecycleConfig, DeleteWebsiteConfig, DeleteReplicationConfig,
     DeleteConfig, UploadPartBytes, UploadPartMeta, CompleteUpload, CompleteCommit,
     CleanupBytes, CleanupMeta, staged
<1>. QED
  BY <1>1, <1>2, <1>3, <1>4

(* A revision that appears is a new one.                                   *)
LEMMA RevisionStep ==
  ASSUME TypeInv, [Next]_vars
  PROVE  /\ nextRev \in Nat /\ nextRev' \in Nat /\ nextRev' >= nextRev
         /\ object' # None => object' = object \/ object'.rev = nextRev
<1>1. nextRev \in Nat /\ nextRev' \in Nat
  BY TypeNext DEF TypeInv, TypeOK
<1>2. ASSUME NEW w \in Workers, Step(w) PROVE nextRev' >= nextRev
  BY <1>2, AnswerStep
<1>3. nextRev' >= nextRev
  BY <1>1, <1>2 DEF Next, OtherPut, OtherDelete, vars, store, content
<1>4. ASSUME object' # object, object' # None PROVE object'.rev = nextRev
  <2>1. CASE OtherPut \/ OtherDelete
    BY <1>4, <2>1 DEF OtherPut, OtherDelete
  <2>2. ASSUME NEW w \in Workers, CompleteCommit(w), ~Refuse(w) PROVE object'.rev = nextRev
    BY <2>2 DEF CompleteCommit
  <2>. QED
    BY <1>4, <2>1, <2>2, ObjectStep
<1>. QED
  BY <1>1, <1>3, <1>4

(* A handler that does not move, while the sessions and the object do.     *)
LEMMA FoundKept ==
  ASSUME TypeInv, [Next]_vars, NEW v \in Workers, FoundInv(v), pc'[v] = pc[v], job'[v] = job[v],
         \A u \in Uploads : session[u] # "none" =>
           session'[u] # "none" /\ (session'[u] = "open" => session[u] = "open")
  PROVE  FoundInv(v)'
<1>. SUFFICES ASSUME pc[v] \in DeleteSteps PROVE FoundInv(v)'
  BY DEF FoundInv
<1>. DEFINE f == job[v].found
<1>1. /\ f.rev \in Nat /\ f.rev <= nextRev
      /\ \A u \in f.open : u \in Uploads /\ session[u] # "none"
      /\ pc[v] # "d_list" /\ object # None => object.rev >= f.rev
      /\ pc[v] = "d_registry" => \A u \in f.open : session[u] # "open"
  BY DEF FoundInv
<1>2. job'[v].found = f
  OBVIOUS
<1>. HIDE DEF f
<1>3. f.rev <= nextRev' /\ (pc[v] # "d_list" /\ object' # None => object'.rev >= f.rev)
  BY <1>1, RevisionStep
<1>. QED
  BY <1>1, <1>2, <1>3 DEF FoundInv

(* A delete that begins notes what is there; its two looks find it gone.   *)
LEMMA FoundStep ==
  ASSUME TypeInv, NEW w \in Workers, Step(w), FoundInv(w), pc'[w] \in DeleteSteps
  PROVE  FoundInv(w)'
<1>0. WorkInv(w) /\ WorkInv(w)'
  BY WorkStep DEF TypeInv
<1>1. CASE DeleteBucket(w)
  <2>. DEFINE f == [rev |-> nextRev, open |-> {u \in Uploads : session[u] = "open"}]
              r == [NoJob EXCEPT !.op = "delete_bucket", !.found = f]
  <2>1. Begin(w, r, "d_list") /\ r.found = f
    BY <1>1 DEF DeleteBucket, NoJob
  <2>2. pc'[w] = "d_list" /\ job'[w].found = f /\ nextRev' = nextRev /\ session' = session
    <3>. HIDE DEF r, f
    <3>. QED
      BY <2>1, Begins DEF store, staged, content
  <2>3. nextRev \in Nat
    BY DEF TypeInv, TypeOK
  <2>4. \A u \in f.open : u \in Uploads /\ session[u] = "open"
    OBVIOUS
  <2>. QED
    BY <2>2, <2>3, <2>4 DEF FoundInv
<1>2. CASE DeleteBucketList(w) /\ ~Refuse(w)
  <2>1. /\ pc[w] = "d_list" /\ pc'[w] = "d_sessions" /\ job'[w] = job[w] /\ object = None
        /\ UNCHANGED <<object, session, nextRev>>
    BY <1>2, Stays DEF DeleteBucketList, store, staged, content
  <2>. QED
    BY <2>1 DEF FoundInv, DeleteSteps
<1>3. CASE DeleteBucketSessions(w) /\ ~Refuse(w)
  <2>1. /\ pc[w] = "d_sessions" /\ pc'[w] = "d_registry" /\ job'[w] = job[w]
        /\ \A u \in Uploads : session[u] # "open"
        /\ UNCHANGED <<object, session, nextRev>>
    BY <1>3, Stays DEF DeleteBucketSessions, HasMultipartSessions, store, staged, content
  <2>. QED
    BY <2>1 DEF FoundInv, DeleteSteps
<1>4. CASE Refuse(w)
  BY <1>4, EndWork DEF DeleteSteps
<1>5. CASE DeleteBucketRegistry(w) \/ DeleteBucketMeta(w) \/ Fails(w)
  BY <1>5, EndWork, Stays DEF DeleteSteps, DeleteBucketRegistry, DeleteBucketMeta
<1>6. CASE ~DeleteBucket(w) /\ pc[w] \notin DeleteSteps \cup {"d_meta"}
  <2>1. ~(job'[w] = job[w])
    BY <1>0, <1>6 DEF WorkInv, Deleting, DeleteSteps
  <2>2. ~(pc'[w] = "idle")
    BY DEF DeleteSteps
  <2>3. ~CreateMultipartUpload(w)
    <3>. SUFFICES ASSUME CreateMultipartUpload(w) PROVE FALSE
      OBVIOUS
    <3>1. PICK u \in Uploads : Begin(w, [NoJob EXCEPT !.op = "create", !.u = u], "s_write")
      BY DEF CreateMultipartUpload
    <3>. DEFINE r == [NoJob EXCEPT !.op = "create", !.u = u]
    <3>2. Begin(w, r, "s_write")
      BY <3>1
    <3>. HIDE DEF r
    <3>. QED
      BY <3>2, Begins DEF DeleteSteps
  <2>. QED
    BY <1>6, <2>1, <2>2, <2>3, JobStep
<1>7. CASE pc[w] \in DeleteSteps \cup {"d_meta"} /\ ~Refuse(w) /\ ~Fails(w)
  <2>1. \/ DeleteBucketList(w) \/ DeleteBucketSessions(w)
        \/ DeleteBucketRegistry(w) \/ DeleteBucketMeta(w)
    <3>1. ~(\/ CreateBucket(w) \/ DeleteBucket(w)
            \/ PutBucketAcl(w) \/ PutObjectAcl(w) \/ PutLifecycleConfig(w)
            \/ PutWebsiteConfig(w) \/ PutReplicationConfig(w)
            \/ CreateMultipartUpload(w) \/ UploadPart(w) \/ CompleteMultipartUpload(w)
            \/ AbortMultipartUpload(w))
      BY <1>7, BeginWork DEF DeleteSteps
    <3>2. ~(\/ CreateBucketWrite(w) \/ CreateBucketMeta(w) \/ PutConfigWrite(w)
            \/ CreateMultipartUploadWrite(w) \/ UploadPartBytes(w) \/ UploadPartMeta(w))
      BY <1>7 DEF DeleteSteps, CreateBucketWrite, CreateBucketMeta, PutConfigWrite,
         CreateMultipartUploadWrite, UploadPartBytes, UploadPartMeta
    <3>3. ~(DeleteLifecycleConfig(w) \/ DeleteWebsiteConfig(w) \/ DeleteReplicationConfig(w))
      BY <1>7 DEF DeleteSteps, DeleteLifecycleConfig, DeleteWebsiteConfig,
         DeleteReplicationConfig, DeleteConfig
    <3>4. ~(\/ CompleteMeta(w) \/ CompleteBytes(w) \/ CompleteBucket(w) \/ CompleteResolve(w)
            \/ CompleteMetaAgain(w) \/ CompleteUpload(w) \/ CompleteCommit(w))
      BY <1>7 DEF DeleteSteps, CompleteMeta, CompleteBytes, CompleteBucket, CompleteResolve,
         CompleteMetaAgain, CompleteUpload, CompleteCommit
    <3>5. ~(\/ CompleteMark(w) \/ CleanupBytes(w) \/ CleanupMeta(w) \/ CleanupSession(w)
            \/ AbortList(w))
      BY <1>7 DEF DeleteSteps, CompleteMark, CleanupBytes, CleanupMeta, CleanupSession, AbortList
    <3>. QED
      BY <1>7, <3>1, <3>2, <3>3, <3>4, <3>5 DEF Step, Configure, Complete
  <2>. QED
    BY <1>2, <1>3, <1>5, <1>7, <2>1
<1>. QED
  BY <1>1, <1>4, <1>5, <1>6, <1>7

(* A handler begins to create an upload nobody works on.                   *)
LEMMA CreatorStep ==
  ASSUME TypeInv, NEW w \in Workers, Step(w), pc'[w] = "s_write"
  PROVE  CreatorInv(w)'
<1>0. WorkInv(w) /\ WorkInv(w)'
  BY WorkStep DEF TypeInv
<1>1. CASE CreateMultipartUpload(w)
  <2>1. PICK u \in Uploads :
          /\ session[u] = "none" /\ \A v \in Workers : job[v].u # u
          /\ Begin(w, [NoJob EXCEPT !.op = "create", !.u = u], "s_write")
    BY <1>1 DEF CreateMultipartUpload
  <2>. DEFINE r == [NoJob EXCEPT !.op = "create", !.u = u]
  <2>2. Begin(w, r, "s_write") /\ r.u = u
    BY <2>1 DEF NoJob
  <2>. HIDE DEF r
  <2>3. Frame(w) /\ job'[w].u = u /\ session' = session
    BY <2>2, Begins DEF store, staged
  <2>. QED
    BY <2>1, <2>3 DEF CreatorInv, Frame
<1>2. CASE DeleteBucket(w)
  <2>1. \E r : Begin(w, r, "d_list")
    BY <1>2 DEF DeleteBucket
  <2>. QED
    BY <2>1, Begins
<1>3. CASE job'[w] = job[w]
  <2>1. pc[w] = "s_write"
    BY <1>0, <1>3 DEF WorkInv, Creating
  <2>2. ~(End(w) \/ Refuse(w) \/ Fails(w))
    BY EndWork
  <2>3. ~(\/ CreateBucket(w) \/ DeleteBucket(w)
          \/ PutBucketAcl(w) \/ PutObjectAcl(w) \/ PutLifecycleConfig(w)
          \/ PutWebsiteConfig(w) \/ PutReplicationConfig(w)
          \/ CreateMultipartUpload(w) \/ UploadPart(w) \/ CompleteMultipartUpload(w)
          \/ AbortMultipartUpload(w))
    BY <2>1, BeginWork
  <2>4. ~(\/ CreateBucketWrite(w) \/ CreateBucketMeta(w) \/ PutConfigWrite(w)
          \/ DeleteBucketList(w) \/ DeleteBucketSessions(w) \/ DeleteBucketRegistry(w)
          \/ DeleteBucketMeta(w)
          \/ CreateMultipartUploadWrite(w) \/ UploadPartBytes(w) \/ UploadPartMeta(w))
    BY <2>1, <2>2 DEF CreateBucketWrite, CreateBucketMeta, PutConfigWrite, DeleteBucketList,
       DeleteBucketSessions, DeleteBucketRegistry, DeleteBucketMeta,
       CreateMultipartUploadWrite, UploadPartBytes, UploadPartMeta
  <2>5. ~(DeleteLifecycleConfig(w) \/ DeleteWebsiteConfig(w) \/ DeleteReplicationConfig(w))
    BY <2>1 DEF DeleteLifecycleConfig, DeleteWebsiteConfig, DeleteReplicationConfig, DeleteConfig
  <2>6. ~(\/ CompleteMeta(w) \/ CompleteBytes(w) \/ CompleteBucket(w) \/ CompleteResolve(w)
          \/ CompleteMetaAgain(w) \/ CompleteUpload(w) \/ CompleteCommit(w))
    BY <2>1 DEF CompleteMeta, CompleteBytes, CompleteBucket, CompleteResolve,
       CompleteMetaAgain, CompleteUpload, CompleteCommit
  <2>7. ~(\/ CompleteMark(w) \/ CleanupBytes(w) \/ CleanupMeta(w) \/ CleanupSession(w)
          \/ AbortList(w))
    BY <2>1 DEF CompleteMark, CleanupBytes, CleanupMeta, CleanupSession, AbortList
  <2>. QED
    BY <2>2, <2>3, <2>4, <2>5, <2>6, <2>7 DEF Step, Configure, Complete
<1>. QED
  BY <1>1, <1>2, <1>3, JobStep

(* Sessions end and are created, and none is created again.                *)
LEMMA SessionsMove ==
  ASSUME TypeInv, NEW w \in Workers, Step(w), CreatorInv(w)
  PROVE  /\ \A u \in Uploads : session[u] # "none" =>
              session'[u] # "none" /\ (session'[u] = "open" => session[u] = "open")
         /\ \A u \in Uploads : u # job[w].u => session'[u] = session[u]
<1>1. session \in [Uploads -> {"none", "open", "completed", "removed"}]
  BY DEF TypeInv, TypeOK
<1>2. CASE session' = session
  BY <1>1, <1>2
<1>3. CASE pc[w] = "s_write" /\ session' = [session EXCEPT ![job[w].u] = "open"]
  BY <1>1, <1>3 DEF CreatorInv
<1>4. ASSUME NEW x \in {"completed", "removed"}, session' = [session EXCEPT ![job[w].u] = x]
      PROVE  /\ \A u \in Uploads : session[u] # "none" =>
                  session'[u] # "none" /\ (session'[u] = "open" => session[u] = "open")
             /\ \A u \in Uploads : u # job[w].u => session'[u] = session[u]
  BY <1>1, <1>4
<1>. QED
  BY <1>2, <1>3, <1>4, SessionStep

(* Each step keeps EmptiedInv.                                             *)
LEMMA EmptiedNext == TypeInv /\ EmptiedInv /\ [Next]_vars => EmptiedInv'
<1>. SUFFICES ASSUME TypeInv, EmptiedInv, [Next]_vars PROVE EmptiedInv'
  OBVIOUS
<1>0. \A v \in Workers : FoundInv(v) /\ CreatorInv(v) /\ WorkInv(v)
  BY DEF EmptiedInv, TypeInv
<1>1. ASSUME NEW w \in Workers, Step(w) PROVE EmptiedInv'
  <2>1. Frame(w)
    BY <1>1, WorkStep
  <2>2. /\ \A u \in Uploads : session[u] # "none" =>
             session'[u] # "none" /\ (session'[u] = "open" => session[u] = "open")
        /\ \A u \in Uploads : u # job[w].u => session'[u] = session[u]
    BY <1>0, <1>1, SessionsMove
  <2>3. FoundInv(w)' /\ CreatorInv(w)'
    <3>1. FoundInv(w)'
      <4>1. CASE pc'[w] \in DeleteSteps
        BY <1>0, <1>1, <4>1, FoundStep
      <4>2. CASE pc'[w] \notin DeleteSteps
        BY <4>2 DEF FoundInv
      <4>. QED
        BY <4>1, <4>2
    <3>2. CreatorInv(w)'
      <4>1. CASE pc'[w] = "s_write"
        BY <1>1, <4>1, CreatorStep
      <4>2. CASE pc'[w] # "s_write"
        BY <4>2 DEF CreatorInv
      <4>. QED
        BY <4>1, <4>2
    <3>. QED
      BY <3>1, <3>2
  <2>4. ASSUME NEW v \in Workers \ {w} PROVE FoundInv(v)' /\ CreatorInv(v)'
    <3>1. pc'[v] = pc[v] /\ job'[v] = job[v]
      BY <2>1 DEF Frame
    <3>2. FoundInv(v)'
      BY <1>0, <2>2, <3>1, FoundKept
    <3>3. ASSUME pc[v] = "s_write"
          PROVE  session'[job[v].u] = "none" /\ \A x \in Workers \ {v} : job'[x].u # job[v].u
      <4>1. /\ session[job[v].u] = "none" /\ job[v].u \in Uploads
            /\ \A x \in Workers \ {v} : job[x].u # job[v].u
        BY <1>0, <3>3 DEF CreatorInv, WorkInv, OnUpload
      <4>2. session'[job[v].u] = "none"
        BY <2>2, <4>1
      <4>3. job'[w].u # job[v].u
        <5>1. CASE job'[w] = job[w]
          BY <4>1, <5>1
        <5>2. None # job[v].u
          BY <4>1, MultipartAssumption
        <5>3. CASE job'[w] = NoJob
          BY <5>2, <5>3, FreshWork
        <5>4. CASE DeleteBucket(w)
          <6>. DEFINE f == [rev |-> nextRev, open |-> {u \in Uploads : session[u] = "open"}]
                      r == [NoJob EXCEPT !.op = "delete_bucket", !.found = f]
          <6>1. Begin(w, r, "d_list") /\ r.u = None
            BY <5>4 DEF DeleteBucket, NoJob
          <6>. HIDE DEF r
          <6>. QED
            BY <5>2, <6>1, Begins
        <5>5. CASE CreateMultipartUpload(w)
          <6>1. PICK u \in Uploads :
                  /\ \A x \in Workers : job[x].u # u
                  /\ Begin(w, [NoJob EXCEPT !.op = "create", !.u = u], "s_write")
            BY <5>5 DEF CreateMultipartUpload
          <6>. DEFINE r == [NoJob EXCEPT !.op = "create", !.u = u]
          <6>2. Begin(w, r, "s_write") /\ r.u = u
            BY <6>1 DEF NoJob
          <6>. HIDE DEF r
          <6>. QED
            BY <6>1, <6>2, Begins
        <5>. QED
          BY <1>1, <4>1, <5>1, <5>2, <5>3, <5>4, <5>5, JobStep
      <4>. QED
        BY <2>1, <4>1, <4>2, <4>3 DEF Frame
    <3>. QED
      BY <3>1, <3>2, <3>3 DEF CreatorInv
  <2>. QED
    BY <2>3, <2>4 DEF EmptiedInv
<1>2. CASE OtherPut \/ OtherDelete \/ UNCHANGED vars
  <2>1. UNCHANGED <<pc, job, session>>
    BY <1>2 DEF OtherPut, OtherDelete, staged, vars, store
  <2>2. ASSUME NEW v \in Workers PROVE FoundInv(v)'
    BY <1>0, <2>1, FoundKept
  <2>3. ASSUME NEW v \in Workers PROVE CreatorInv(v)'
    BY <1>0, <2>1 DEF CreatorInv
  <2>. QED
    BY <2>2, <2>3 DEF EmptiedInv
<1>. QED
  BY <1>1, <1>2 DEF Next

(* delete_bucket removes no bucket in which the object or an upload that   *)
(* it found when it began is still there; whatever others put, begin, end  *)
(* and delete while it looks.                                              *)
THEOREM DeletedWasEmptiedHolds == Spec => DeletedWasEmptied
<1>. DEFINE P == \A w \in Workers : DeleteBucketRegistry(w) =>
                   /\ object # None => object.rev >= job[w].found.rev
                   /\ \A u \in job[w].found.open : session[u] # "open"
<1>1. EmptiedInv => P
  BY DEF EmptiedInv, FoundInv, DeleteSteps, DeleteBucketRegistry
<1>2. Init => EmptiedInv
  BY DEF Init, EmptiedInv, FoundInv, CreatorInv, DeleteSteps
<1>3. Spec => []TypeInv
  BY TypeInit, TypeNext, PTL DEF Spec
<1>4. Spec => []EmptiedInv
  BY <1>2, <1>3, EmptiedNext, PTL DEF Spec
<1>5. Spec => [][P]_vars
  BY <1>1, <1>4, PTL DEF Spec
<1>. QED
  BY <1>5 DEF DeletedWasEmptied

-----------------------------------------------------------------------------
(* The chunks of a sequence of bytes.  Full chunks of data, what is left   *)
(* after them, and the references of the first m chunks.                   *)
Full(data) == Len(data) \div FixedChunkSize
Rest(data) == SubSeq(data, Full(data) * FixedChunkSize + 1, Len(data))
Layout(data, m) ==
  [i \in 1..m |-> ChunkRef(i - 1, (i - 1) * FixedChunkSize,
                           SubSeq(data, (i - 1) * FixedChunkSize + 1, i * FixedChunkSize))]
Ref == [index : Nat, offset : Nat, cid : Seq(Nat)]

(* Products and quotients by the chunk size.                               *)
LEMMA Multiples ==
  ASSUME NEW a \in Nat
  PROVE  /\ a * FixedChunkSize \in Nat
         /\ (a + 1) * FixedChunkSize = a * FixedChunkSize + FixedChunkSize
         /\ \A b \in Nat : (a + b) * FixedChunkSize = a * FixedChunkSize + b * FixedChunkSize
         /\ \A b \in Nat : a <= b => a * FixedChunkSize <= b * FixedChunkSize
  BY MultipartAssumption

(* The number of full chunks, and that no other number is it.              *)
LEMMA Quotient ==
  ASSUME NEW a \in Nat
  PROVE  /\ a \div FixedChunkSize \in Nat
         /\ (a \div FixedChunkSize) * FixedChunkSize <= a
         /\ a < (a \div FixedChunkSize) * FixedChunkSize + FixedChunkSize
         /\ \A q \in Nat : q * FixedChunkSize <= a /\ a < q * FixedChunkSize + FixedChunkSize
              => q = a \div FixedChunkSize
<1>1. a \div FixedChunkSize \in Nat
  BY MultipartAssumption
<1>2. (a \div FixedChunkSize) * FixedChunkSize <= a
  BY MultipartAssumption
<1>3. a < (a \div FixedChunkSize) * FixedChunkSize + FixedChunkSize
  BY MultipartAssumption
<1>4. ASSUME NEW q \in Nat, q * FixedChunkSize <= a, a < q * FixedChunkSize + FixedChunkSize
      PROVE  q = a \div FixedChunkSize
  BY <1>4, MultipartAssumption
<1>. QED
  BY <1>1, <1>2, <1>3, <1>4

(* The slice of a sequence after its first x elements and up to y.         *)
LEMMA Slice ==
  ASSUME NEW d \in Seq(Nat), NEW x \in Nat, NEW y \in Nat, x <= y, y <= Len(d)
  PROVE  /\ SubSeq(d, x + 1, y) \in Seq(Nat) /\ Len(SubSeq(d, x + 1, y)) = y - x
         /\ \A i \in 1..(y - x) : SubSeq(d, x + 1, y)[i] = d[x + i]
<1>. DEFINE m == x + 1
            s == SubSeq(d, m, y)
<1>1. m \in Int /\ y \in Int /\ \A i \in m..y : d[i] \in Nat
  OBVIOUS
<1>2. m = x + 1
  OBVIOUS
<1>. HIDE DEF m
<1>3. /\ s \in Seq(Nat)
      /\ Len(s) = IF m <= y THEN y - m + 1 ELSE 0
      /\ \A i \in 1..(y - m + 1) : s[i] = d[m + i - 1]
  BY <1>1, SubSeqProperties
<1>. HIDE DEF s
<1>4. Len(s) = y - x /\ y - m + 1 = y - x
  BY <1>2, <1>3
<1>5. ASSUME NEW i \in 1..(y - x) PROVE s[i] = d[x + i]
  <2>1. m + i - 1 = x + i
    BY <1>2
  <2>. QED
    BY <1>3, <1>4, <2>1
<1>. QED
  BY <1>2, <1>3, <1>4, <1>5 DEF s

(* Sequences of one length with the same elements are equal.               *)
LEMMA SameSeq ==
  ASSUME NEW S, NEW s \in Seq(S), NEW t \in Seq(S), Len(s) = Len(t),
         \A i \in 1..Len(s) : s[i] = t[i]
  PROVE  s = t
  BY SeqEqual

(* A slice of what is left after z bytes.                                  *)
LEMMA SliceOfSlice ==
  ASSUME NEW d \in Seq(Nat), NEW z \in Nat, z <= Len(d),
         NEW x \in Nat, NEW y \in Nat, x <= y, z + y <= Len(d)
  PROVE  SubSeq(SubSeq(d, z + 1, Len(d)), x + 1, y) = SubSeq(d, z + x + 1, z + y)
<1>. DEFINE r == SubSeq(d, z + 1, Len(d))
            s == SubSeq(r, x + 1, y)
            t == SubSeq(d, z + x + 1, z + y)
<1>0. Len(d) \in Nat /\ z + x \in Nat /\ z + y \in Nat /\ z + x <= z + y
  OBVIOUS
<1>a. Len(d) <= Len(d) /\ Len(d) \in Nat
  BY <1>0
<1>1. r \in Seq(Nat) /\ Len(r) = Len(d) - z /\ \A i \in 1..(Len(d) - z) : r[i] = d[z + i]
  BY <1>a, Slice, Zenon
<1>. HIDE DEF r
<1>2. s \in Seq(Nat) /\ Len(s) = y - x /\ \A i \in 1..(y - x) : s[i] = r[x + i]
  BY <1>0, <1>1, Slice, SMTT(60)
<1>3. /\ t \in Seq(Nat) /\ Len(t) = (z + y) - (z + x)
      /\ \A i \in 1..((z + y) - (z + x)) : t[i] = d[(z + x) + i]
  BY <1>0, Slice
<1>. HIDE DEF s, t
<1>4. s = t
  <2>1. Len(s) = Len(t)
    BY <1>2, <1>3
  <2>2. ASSUME NEW i \in 1..Len(s) PROVE s[i] = t[i]
    <3>1. i \in 1..(y - x) /\ i \in 1..((z + y) - (z + x)) /\ x + i \in 1..(Len(d) - z)
      BY <1>0, <1>2
    <3>2. s[i] = d[z + (x + i)]
      BY <1>1, <1>2, <3>1
    <3>3. z + (x + i) = (z + x) + i
      BY <1>2
    <3>. QED
      BY <1>3, <3>1, <3>2, <3>3
  <2>. QED
    BY <1>2, <1>3, <2>1, <2>2, SameSeq
<1>. QED
  BY <1>4 DEF s, t, r

(* A slice that ends inside the first of two sequences.                    *)
LEMMA SliceOfConcat ==
  ASSUME NEW d \in Seq(Nat), NEW e \in Seq(Nat), NEW x \in Nat, NEW y \in Nat, x <= y, y <= Len(d)
  PROVE  SubSeq(d \o e, x + 1, y) = SubSeq(d, x + 1, y)
<1>. DEFINE de == d \o e
            s == SubSeq(de, x + 1, y)
            t == SubSeq(d, x + 1, y)
<1>0. /\ Len(d) \in Nat /\ Len(e) \in Nat /\ de \in Seq(Nat) /\ Len(de) = Len(d) + Len(e)
      /\ \A i \in 1..Len(d) : de[i] = d[i]
  OBVIOUS
<1>. HIDE DEF de
<1>a. y <= Len(de)
  BY <1>0
<1>1. s \in Seq(Nat) /\ Len(s) = y - x /\ \A i \in 1..(y - x) : s[i] = de[x + i]
  BY <1>0, <1>a, Slice, Zenon
<1>2. t \in Seq(Nat) /\ Len(t) = y - x /\ \A i \in 1..(y - x) : t[i] = d[x + i]
  BY <1>0, Slice, Zenon
<1>. HIDE DEF s, t
<1>3. ASSUME NEW i \in 1..Len(s) PROVE s[i] = t[i]
  <2>1. i \in 1..(y - x) /\ x + i \in 1..Len(d)
    BY <1>0, <1>1
  <2>. QED
    BY <1>0, <1>1, <1>2, <2>1
<1>4. s = t
  BY <1>1, <1>2, <1>3, SameSeq, Zenon
<1>. QED
  BY <1>4 DEF s, t, de

(* What is left of d after z bytes, and e after it, is what is left of     *)
(* both.                                                                   *)
LEMMA ConcatSlice ==
  ASSUME NEW d \in Seq(Nat), NEW e \in Seq(Nat), NEW z \in Nat, z <= Len(d)
  PROVE  SubSeq(d, z + 1, Len(d)) \o e = SubSeq(d \o e, z + 1, Len(d \o e))
<1>. DEFINE de == d \o e
            r == SubSeq(d, z + 1, Len(d))
            s == r \o e
            t == SubSeq(de, z + 1, Len(de))
<1>b. /\ Len(d) \in Nat /\ Len(e) \in Nat /\ de \in Seq(Nat) /\ Len(de) = Len(d) + Len(e)
      /\ \A i \in 1..Len(d) : de[i] = d[i]
  OBVIOUS
<1>c. ASSUME NEW i \in 1..Len(e) PROVE de[Len(d) + i] = e[i]
  BY <1>b
<1>0. /\ Len(d) \in Nat /\ Len(e) \in Nat /\ de \in Seq(Nat) /\ Len(de) = Len(d) + Len(e)
      /\ \A i \in 1..Len(d) : de[i] = d[i]
      /\ \A i \in 1..Len(e) : de[Len(d) + i] = e[i]
  BY <1>b, <1>c
<1>a. Len(d) <= Len(d) /\ Len(d) \in Nat
  BY <1>0
<1>1. r \in Seq(Nat) /\ Len(r) = Len(d) - z /\ \A i \in 1..(Len(d) - z) : r[i] = d[z + i]
  BY <1>a, Slice, Zenon
<1>. HIDE DEF de, r
<1>d. z <= Len(de) /\ Len(de) \in Nat /\ Len(de) <= Len(de)
  BY <1>0
<1>2. t \in Seq(Nat) /\ Len(t) = Len(de) - z /\ \A i \in 1..(Len(de) - z) : t[i] = de[z + i]
  BY <1>0, <1>d, Slice, Zenon
<1>3. s \in Seq(Nat) /\ Len(s) = Len(r) + Len(e)
  BY <1>1, ConcatProperties
<1>e. /\ Len(d) \in Nat /\ Len(e) \in Nat /\ Len(r) \in Nat /\ Len(r) = Len(d) - z
      /\ Len(de) = Len(d) + Len(e) /\ Len(s) = Len(r) + Len(e)
  <2>1. Len(r) = Len(d) - z /\ Len(d) \in Nat /\ Len(e) \in Nat
    BY <1>1
  <2>2. Len(de) = Len(d) + Len(e)
    BY <1>0
  <2>. QED
    BY <1>3, <2>1, <2>2
<1>4. ASSUME NEW i \in 1..Len(s) PROVE s[i] = t[i]
  <2>a. i \in 1..(Len(de) - z)
    BY <1>e
  <2>0. t[i] = de[z + i]
    BY <1>2, <2>a, Zenon
  <2>1. CASE i <= Len(r)
    <3>1. i \in 1..Len(r) /\ i \in 1..(Len(d) - z) /\ z + i \in 1..Len(d)
      BY <1>e, <2>1
    <3>2. s[i] = r[i]
      BY <1>1, <3>1
    <3>3. r[i] = d[z + i] /\ de[z + i] = d[z + i]
      BY <1>0, <1>1, <3>1, Zenon
    <3>. QED
      BY <2>0, <3>2, <3>3
  <2>2. CASE i > Len(r)
    <3>. DEFINE k == i - Len(r)
    <3>1. k \in 1..Len(e) /\ i = Len(r) + k /\ z + i = Len(d) + k
      BY <1>e, <2>2
    <3>. HIDE DEF k
    <3>2. s[i] = e[k]
      BY <1>1, <1>e, <3>1, SMTT(60)
    <3>3. de[Len(d) + k] = e[k]
      BY <1>0, <3>1, Zenon
    <3>. QED
      BY <2>0, <3>1, <3>2, <3>3
  <2>3. Len(r) \in Nat /\ i \in Nat
    BY <1>e, <2>a
  <2>4. i <= Len(r) \/ i > Len(r)
    BY <2>3
  <2>. QED
    BY <2>1, <2>2, <2>4, Zenon
<1>6. Len(s) = Len(t)
  BY <1>e, <1>2
<1>. HIDE DEF s, t
<1>5. s = t
  BY <1>2, <1>3, <1>4, <1>6, SameSeq, Zenon
<1>. QED
  BY <1>5 DEF s, t, r, de
(* A layout of m full chunks.                                              *)
LEMMA LayoutSeq ==
  ASSUME NEW d \in Seq(Nat), NEW m \in Nat, m * FixedChunkSize <= Len(d)
  PROVE  /\ Layout(d, m) \in Seq(Ref) /\ Len(Layout(d, m)) = m
         /\ Total(Layout(d, m)) = m * FixedChunkSize
<1>. DEFINE cut(i) == SubSeq(d, (i - 1) * FixedChunkSize + 1, i * FixedChunkSize)
<1>1. ASSUME NEW i \in 1..m
      PROVE  /\ cut(i) \in Seq(Nat) /\ Len(cut(i)) = FixedChunkSize
             /\ i - 1 \in Nat /\ (i - 1) * FixedChunkSize \in Nat
             /\ (i - 1) * FixedChunkSize + FixedChunkSize = i * FixedChunkSize
  <2>. DEFINE x == (i - 1) * FixedChunkSize
              y == i * FixedChunkSize
  <2>1. i - 1 \in Nat /\ i \in Nat /\ (i - 1) + 1 = i /\ i <= m
    OBVIOUS
  <2>2. x \in Nat /\ y = x + FixedChunkSize
    BY <2>1, Multiples
  <2>3. y <= m * FixedChunkSize
    BY <2>1, Multiples
  <2>4. m * FixedChunkSize \in Nat
    BY Multiples
  <2>. HIDE DEF x, y
  <2>5. y \in Nat /\ x <= y /\ y <= Len(d) /\ y - x = FixedChunkSize
    BY <2>2, <2>3, <2>4, MultipartAssumption
  <2>6. SubSeq(d, x + 1, y) \in Seq(Nat) /\ Len(SubSeq(d, x + 1, y)) = y - x
    BY <2>2, <2>5, Slice, Zenon
  <2>. QED
    BY <2>1, <2>2, <2>5, <2>6 DEF x, y
<1>. HIDE DEF cut
<1>2. Layout(d, m) = [i \in 1..m |-> ChunkRef(i - 1, (i - 1) * FixedChunkSize, cut(i))]
  BY DEF Layout, cut
<1>3. ASSUME NEW i \in 1..m PROVE ChunkRef(i - 1, (i - 1) * FixedChunkSize, cut(i)) \in Ref
  BY <1>1 DEF ChunkRef, Ref
<1>4. Layout(d, m) \in Seq(Ref) /\ Len(Layout(d, m)) = m
  BY <1>2, <1>3
<1>5. CASE m = 0
  <2>1. Layout(d, m) = <<>> /\ m * FixedChunkSize = 0
    BY <1>4, <1>5, MultipartAssumption
  <2>. QED
    BY <1>4, <2>1 DEF Total
<1>6. CASE m # 0
  <2>1. m \in 1..m /\ Layout(d, m) # <<>>
    BY <1>4, <1>6
  <2>2. Last(Layout(d, m)) = ChunkRef(m - 1, (m - 1) * FixedChunkSize, cut(m))
    BY <1>2, <1>4, <2>1 DEF Last
  <2>. DEFINE l == Last(Layout(d, m))
  <2>3. l.offset = (m - 1) * FixedChunkSize /\ l.cid = cut(m)
    BY <2>2 DEF ChunkRef
  <2>. HIDE DEF l
  <2>4. l.offset + Len(l.cid) = m * FixedChunkSize
    BY <1>1, <2>1, <2>3
  <2>5. Total(Layout(d, m)) = l.offset + Len(l.cid)
    BY <2>1 DEF Total, l
  <2>. QED
    BY <1>4, <2>4, <2>5
<1>. QED
  BY <1>4, <1>5, <1>6

(* One more.                                                               *)
LEMMA LayoutNext ==
  ASSUME NEW d \in Seq(Nat), NEW m \in Nat, (m + 1) * FixedChunkSize <= Len(d)
  PROVE  Append1(Layout(d, m), SubSeq(d, m * FixedChunkSize + 1, (m + 1) * FixedChunkSize))
           = Layout(d, m + 1)
<1>. DEFINE s == Layout(d, m)
            t == Layout(d, m + 1)
            c == SubSeq(d, m * FixedChunkSize + 1, (m + 1) * FixedChunkSize)
            r == ChunkRef(m, m * FixedChunkSize, c)
<1>1. m * FixedChunkSize <= Len(d) /\ m + 1 \in Nat
  BY Multiples, MultipartAssumption
<1>2. s \in Seq(Ref) /\ Len(s) = m /\ Total(s) = m * FixedChunkSize
  BY <1>1, LayoutSeq
<1>3. t \in Seq(Ref) /\ Len(t) = m + 1
  BY <1>1, LayoutSeq
<1>4. (m + 1) - 1 = m /\ m + 1 \in 1..(m + 1)
  OBVIOUS
<1>5. t[m + 1] = r
  BY <1>4 DEF Layout
<1>6. \A i \in 1..m : t[i] = s[i]
  BY DEF Layout
<1>. HIDE DEF s, t, r
<1>7. r \in Ref
  BY <1>3, <1>4, <1>5
<1>8. Append1(s, c) = Append(s, r)
  BY <1>2 DEF Append1, r
<1>9. Append(s, r) = t
  <2>. DEFINE a == Append(s, r)
  <2>1. a \in Seq(Ref) /\ Len(a) = m + 1 /\ (\A i \in 1..m : a[i] = s[i]) /\ a[m + 1] = r
    BY <1>2, <1>7
  <2>. HIDE DEF a
  <2>2. \A i \in 1..Len(a) : a[i] = t[i]
    BY <1>5, <1>6, <2>1
  <2>3. Len(a) = Len(t)
    BY <1>3, <2>1
  <2>4. a = t
    BY <1>3, <2>1, <2>2, <2>3, SameSeq, Zenon
  <2>. QED
    BY <2>4 DEF a
<1>. QED
  BY <1>8, <1>9 DEF s, t, c
(* Induction on the naturals, for a set instead of an operator.            *)
LEMMA SetInduction ==
  ASSUME NEW T, 0 \in T, \A n \in Nat : n \in T => n + 1 \in T
  PROVE  Nat \subseteq T
<1>. DEFINE R == OpToRel(<, Nat)
            U == Nat \ T
<1>. SUFFICES ASSUME U # {} PROVE FALSE
  OBVIOUS
<1>1. IsWellFoundedOn(R, Nat)
  BY NatLessThanWellFounded, Zenon
<1>. HIDE DEF R
<1>2. PICK x \in U : \A y \in U : ~(<<y, x>> \in R)
  BY <1>1, WFMin, Zenon
<1>3. x \in Nat /\ x # 0
  OBVIOUS
<1>4. x - 1 \in Nat /\ x - 1 < x /\ (x - 1) + 1 = x
  BY <1>3
<1>5. x - 1 \in U
  BY <1>4
<1>. QED
  BY <1>2, <1>3, <1>4, <1>5 DEF R, OpToRel

(* The greatest of a set of numbers up to n + 1; without it, the set is    *)
(* one of numbers up to n.                                                 *)
LEMMA Greatest ==
  ASSUME NEW n \in Nat, NEW S \in SUBSET (1..(n + 1)), S # {}
  PROVE  Max(S) \in S /\ (\A y \in S : Max(S) >= y) /\ S \ {Max(S)} \in SUBSET (1..n)
<1>. DEFINE R == OpToRel(<, Nat)
            U == {(n + 1) - y : y \in S}
<1>1. IsWellFoundedOn(R, Nat)
  BY NatLessThanWellFounded, Zenon
<1>2. U \in SUBSET Nat /\ U # {}
  <2>1. ASSUME NEW y \in S PROVE (n + 1) - y \in Nat
    OBVIOUS
  <2>. QED
    BY <2>1
<1>. HIDE DEF R
<1>3. PICK z \in U : \A y \in U : ~(<<y, z>> \in R)
  BY <1>1, <1>2, WFMin, Zenon
<1>4. PICK m \in S : z = (n + 1) - m
  BY <1>3
<1>5. ASSUME NEW y \in S PROVE m >= y
  <2>1. ~((n + 1) - y < (n + 1) - m)
    BY <1>2, <1>3, <1>4 DEF R, OpToRel
  <2>. QED
    BY <2>1
<1>6. \E x \in S : \A y \in S : x >= y
  BY <1>5
<1>7. Max(S) \in S /\ \A y \in S : Max(S) >= y
  BY <1>6, Zenon DEF Max
<1>. DEFINE x == Max(S)
<1>8. x \in S /\ \A y \in S : x >= y
  BY <1>7
<1>. HIDE DEF x
<1>9. ASSUME NEW y \in S, y # x PROVE y \in 1..n
  <2>1. x \in 1..(n + 1) /\ y \in 1..(n + 1) /\ x >= y
    BY <1>8
  <2>. QED
    BY <1>9, <2>1
<1>10. S \ {x} \in SUBSET (1..n)
  BY <1>9
<1>. QED
  BY <1>7, <1>10 DEF x

(* The recursive function inside FoldLeft.                                 *)
Folds(f, base, q, n) ==
  f = [s \in SUBSET (1..n) |-> IF s = {} THEN base ELSE Append1(f[s \ {Max(s)}], q[Max(s)])]

(* That function exists, so FoldLeft has a value.                          *)
LEMMA FoldsExist ==
  ASSUME NEW base, NEW q, NEW m \in Nat
  PROVE  \E f : Folds(f, base, q, m)
<1>. DEFINE T == {n \in Nat : \E f : Folds(f, base, q, n)}
<1>1. 0 \in T
  <2>1. Folds([s \in SUBSET (1..0) |-> base], base, q, 0)
    BY DEF Folds
  <2>. QED
    BY <2>1
<1>2. ASSUME NEW n \in Nat, n \in T PROVE n + 1 \in T
  <2>1. PICK f : Folds(f, base, q, n)
    BY <1>2
  <2>. DEFINE g == [s \in SUBSET (1..(n + 1)) |->
                     IF s = {} THEN base ELSE Append1(f[s \ {Max(s)}], q[Max(s)])]
  <2>2. ASSUME NEW s \in SUBSET (1..(n + 1)), s # {} PROVE g[s \ {Max(s)}] = f[s \ {Max(s)}]
    <3>1. s \ {Max(s)} \in SUBSET (1..n)
      BY <2>2, Greatest, Zenon
    <3>2. s \ {Max(s)} \in SUBSET (1..(n + 1))
      OBVIOUS
    <3>. QED
      BY <2>1, <3>1, <3>2 DEF Folds
  <2>3. Folds(g, base, q, n + 1)
    BY <2>2 DEF Folds
  <2>. QED
    BY <2>3
<1>. HIDE DEF T
<1>3. m \in T
  BY <1>1, <1>2, SetInduction
<1>. QED
  BY <1>3 DEF T

(* Its values on the first k indices, step by step.                        *)
LEMMA FoldSteps ==
  ASSUME NEW base, NEW q, NEW f, NEW m \in Nat, Folds(f, base, q, m)
  PROVE  /\ f[1..0] = base
         /\ \A k \in 1..m : f[1..k] = Append1(f[1..(k - 1)], q[k])
<1>1. f[1..0] = base
  <2>1. 1..0 = {} /\ {} \in SUBSET (1..m)
    OBVIOUS
  <2>. QED
    BY <2>1 DEF Folds
<1>2. ASSUME NEW k \in 1..m PROVE f[1..k] = Append1(f[1..(k - 1)], q[k])
  <2>. DEFINE n == k - 1
  <2>1. n \in Nat /\ n + 1 = k /\ k \in 1..k /\ \A i \in 1..k : i \in 1..m
    OBVIOUS
  <2>. HIDE DEF n
  <2>2. 1..k \in SUBSET (1..m) /\ 1..k # {} /\ 1..k \in SUBSET (1..(n + 1))
    BY <2>1, Zenon
  <2>3. Max(1..k) \in 1..k /\ \A y \in 1..k : Max(1..k) >= y
    BY <2>1, <2>2, Greatest, Zenon
  <2>4. Max(1..k) = k /\ (1..k) \ {k} = 1..n
    BY <2>1, <2>3
  <2>5. f[1..k] = Append1(f[(1..k) \ {Max(1..k)}], q[Max(1..k)])
    BY <2>2 DEF Folds
  <2>. QED
    BY <2>4, <2>5 DEF n
<1>. QED
  BY <1>1, <1>2

(* The references refs and those of the chunks in q after them.            *)
Appended(refs, q) == FoldLeft(Append1, refs, q)

(* FoldLeft is the value of such a function.                               *)
LEMMA FoldUnfold ==
  ASSUME NEW base, NEW q, NEW m \in Nat, DOMAIN q = 1..m
  PROVE  \E f : Folds(f, base, q, m) /\ Appended(base, q) = f[1..m]
<1>. DEFINE g == CHOOSE f : Folds(f, base, q, m)
<1>1. Folds(g, base, q, m)
  BY FoldsExist
<1>2. Appended(base, q) = g[1..m]
  BY DEF Appended, FoldLeft, MapThenFoldSet, Folds
<1>. QED
  BY <1>1, <1>2

(* A fold, one step after the other.                                       *)
Chain(f, base, q, m) ==
  /\ f[1..0] = base
  /\ \A j \in 1..m : f[1..j] = Append1(f[1..(j - 1)], q[j])
  /\ Appended(base, q) = f[1..m]

(* There is such a chain for every sequence.                               *)
LEMMA FoldChain ==
  ASSUME NEW base, NEW q, NEW m \in Nat, DOMAIN q = 1..m
  PROVE  \E f : Chain(f, base, q, m)
<1>1. PICK f : Folds(f, base, q, m) /\ Appended(base, q) = f[1..m]
  BY FoldUnfold
<1>2. /\ f[1..0] = base
      /\ \A j \in 1..m : f[1..j] = Append1(f[1..(j - 1)], q[j])
  BY <1>1, FoldSteps
<1>. QED
  BY <1>1, <1>2 DEF Chain

(* The k chunks of d after the first m.                                    *)
Cuts(d, m, k) ==
  [i \in 1..k |-> SubSeq(d, (m + i - 1) * FixedChunkSize + 1, (m + i) * FixedChunkSize)]

(* Chunks appended one after the other extend the layout.                  *)
LEMMA LayoutFold ==
  ASSUME NEW d \in Seq(Nat), NEW m \in Nat, NEW k \in Nat, (m + k) * FixedChunkSize <= Len(d)
  PROVE  Appended(Layout(d, m), Cuts(d, m, k)) = Layout(d, m + k)
<1>. DEFINE q == Cuts(d, m, k)
<1>0. DOMAIN q = 1..k
  BY DEF Cuts
<1>. HIDE DEF q
<1>1. PICK f : Chain(f, Layout(d, m), q, k)
  BY <1>0, FoldChain, Zenon
<1>2. /\ f[1..0] = Layout(d, m)
      /\ \A j \in 1..k : f[1..j] = Append1(f[1..(j - 1)], q[j])
      /\ Appended(Layout(d, m), q) = f[1..k]
  BY <1>1, Zenon DEF Chain
<1>. DEFINE T == {j \in Nat : j <= k => f[1..j] = Layout(d, m + j)}
<1>3. 0 \in T
  <2>1. m + 0 = m
    OBVIOUS
  <2>. QED
    BY <1>2, <2>1
<1>4. ASSUME NEW j \in Nat, j \in T PROVE j + 1 \in T
  <2>. SUFFICES ASSUME j + 1 <= k PROVE f[1..(j + 1)] = Layout(d, m + (j + 1))
    OBVIOUS
  <2>1. j + 1 \in 1..k /\ (j + 1) - 1 = j /\ m + (j + 1) - 1 = m + j /\ m + (j + 1) = (m + j) + 1
        /\ m + j \in Nat /\ j <= k
    OBVIOUS
  <2>. DEFINE n == m + j
              c == SubSeq(d, n * FixedChunkSize + 1, (n + 1) * FixedChunkSize)
  <2>2. q[j + 1] = c
    BY <2>1 DEF q, Cuts
  <2>3. f[1..(j + 1)] = Append1(f[1..j], q[j + 1])
    BY <1>2, <2>1
  <2>4. f[1..j] = Layout(d, n)
    BY <1>4, <2>1
  <2>5. (n + 1) * FixedChunkSize <= Len(d)
    <3>1. n + 1 <= m + k /\ n + 1 \in Nat /\ m + k \in Nat
      OBVIOUS
    <3>2. (n + 1) * FixedChunkSize <= (m + k) * FixedChunkSize
      BY <3>1, MultipartAssumption
    <3>3. (n + 1) * FixedChunkSize \in Int /\ (m + k) * FixedChunkSize \in Int /\ Len(d) \in Int
      BY <3>1, MultipartAssumption
    <3>. DEFINE a == (n + 1) * FixedChunkSize
                b == (m + k) * FixedChunkSize
    <3>4. a \in Int /\ b \in Int /\ a <= b /\ b <= Len(d) /\ Len(d) \in Int
      BY <3>2, <3>3
    <3>. HIDE DEF a, b
    <3>5. a <= Len(d)
      BY <3>4
    <3>. QED
      BY <3>5 DEF a
  <2>6. n \in Nat
    OBVIOUS
  <2>. HIDE DEF n
  <2>7. Append1(Layout(d, n), c) = Layout(d, n + 1)
    BY <2>5, <2>6, LayoutNext, Zenon
  <2>. QED
    BY <2>1, <2>2, <2>3, <2>4, <2>7 DEF n
<1>. HIDE DEF T
<1>5. k \in T
  BY <1>3, <1>4, SetInduction
<1>. QED
  BY <1>2, <1>5 DEF T, q

(* CollectFixedChunkRefs appends the full chunks and keeps the rest.       *)
LEMMA CollectForm ==
  ASSUME NEW refs, NEW pending, NEW data
  PROVE  LET all == pending \o data
             full == Len(all) \div FixedChunkSize
         IN CollectFixedChunkRefs(refs, pending, data) =
              [refs |-> Appended(refs, [i \in 1..full |->
                          SubSeq(all, (i - 1) * FixedChunkSize + 1, i * FixedChunkSize)]),
               pending |-> SubSeq(all, full * FixedChunkSize + 1, Len(all))]
  BY DEF CollectFixedChunkRefs, Appended

(* More data: the layout so far stays.                                     *)
LEMMA LayoutKept ==
  ASSUME NEW d \in Seq(Nat), NEW e \in Seq(Nat), NEW m \in Nat, m * FixedChunkSize <= Len(d)
  PROVE  Layout(d \o e, m) = Layout(d, m)
<1>1. ASSUME NEW i \in 1..m
      PROVE  SubSeq(d \o e, (i - 1) * FixedChunkSize + 1, i * FixedChunkSize)
               = SubSeq(d, (i - 1) * FixedChunkSize + 1, i * FixedChunkSize)
  <2>. DEFINE x == (i - 1) * FixedChunkSize
              y == i * FixedChunkSize
  <2>1. i - 1 \in Nat /\ i \in Nat /\ i <= m /\ i - 1 <= i
    OBVIOUS
  <2>2. x \in Nat /\ y \in Nat /\ x <= y /\ y <= m * FixedChunkSize /\ m * FixedChunkSize \in Nat
    BY <2>1, Multiples
  <2>. HIDE DEF x, y
  <2>3. y <= Len(d)
    BY <2>2
  <2>4. SubSeq(d \o e, x + 1, y) = SubSeq(d, x + 1, y)
    BY <2>2, <2>3, SliceOfConcat, Zenon
  <2>. QED
    BY <2>4 DEF x, y
<1>. QED
  BY <1>1 DEF Layout

(* The chunks and the rest of d, and more data: the chunks and the rest of *)
(* the whole.                                                              *)
LEMMA CollectLayout ==
  ASSUME NEW d \in Seq(Nat), NEW e \in Seq(Nat)
  PROVE  CollectFixedChunkRefs(Layout(d, Full(d)), Rest(d), e)
           = [refs |-> Layout(d \o e, Full(d \o e)), pending |-> Rest(d \o e)]
<1>. DEFINE de == d \o e
            m == Full(d)
            z == m * FixedChunkSize
            all == Rest(d) \o e
            k == Len(all) \div FixedChunkSize
            q == [i \in 1..k |-> SubSeq(all, (i - 1) * FixedChunkSize + 1, i * FixedChunkSize)]
<1>1. de \in Seq(Nat) /\ Len(de) = Len(d) + Len(e) /\ Len(d) \in Nat /\ Len(e) \in Nat
  OBVIOUS
<1>2. m \in Nat /\ z \in Nat /\ z <= Len(d) /\ Len(d) < z + FixedChunkSize
  BY <1>1, Quotient, Multiples DEF Full
<1>. HIDE DEF z
<1>3. all = SubSeq(de, z + 1, Len(de))
  BY <1>2, ConcatSlice, Zenon DEF Rest, z
<1>. HIDE DEF m, de, all
<1>4. z <= Len(de) /\ Len(de) \in Nat /\ Len(de) <= Len(de)
  BY <1>1, <1>2
<1>5. Len(all) = Len(de) - z /\ Len(all) \in Nat
  <2>1. Len(SubSeq(de, z + 1, Len(de))) = Len(de) - z
    BY <1>1, <1>2, <1>4, Slice, Zenon
  <2>. QED
    BY <1>2, <1>3, <1>4, <2>1
<1>6. k \in Nat /\ k * FixedChunkSize <= Len(all) /\ Len(all) < k * FixedChunkSize + FixedChunkSize
  BY <1>5, Quotient
<1>. HIDE DEF k
<1>7. (m + k) * FixedChunkSize = z + k * FixedChunkSize /\ k * FixedChunkSize \in Nat
  BY <1>2, <1>6, Multiples DEF z
<1>8. m + k \in Nat /\ (m + k) * FixedChunkSize <= Len(de)
  BY <1>2, <1>4, <1>5, <1>6, <1>7
<1>9. Full(de) = m + k
  <2>1. Len(de) < (m + k) * FixedChunkSize + FixedChunkSize
    BY <1>2, <1>4, <1>5, <1>6, <1>7, MultipartAssumption
  <2>. QED
    BY <1>4, <1>8, <2>1, Quotient DEF Full
<1>10. q = Cuts(de, m, k)
  <2>1. ASSUME NEW i \in 1..k
        PROVE  SubSeq(all, (i - 1) * FixedChunkSize + 1, i * FixedChunkSize)
                 = SubSeq(de, (m + i - 1) * FixedChunkSize + 1, (m + i) * FixedChunkSize)
    <3>. DEFINE x == (i - 1) * FixedChunkSize
                y == i * FixedChunkSize
    <3>1. i - 1 \in Nat /\ i \in Nat /\ i <= k /\ i - 1 <= i /\ m + i - 1 = m + (i - 1)
      BY <1>2, <1>6
    <3>2. /\ x \in Nat /\ y \in Nat /\ x <= y /\ y <= k * FixedChunkSize
          /\ (m + (i - 1)) * FixedChunkSize = z + x /\ (m + i) * FixedChunkSize = z + y
      BY <1>2, <1>6, <3>1, Multiples DEF z
    <3>. HIDE DEF x, y
    <3>3. z + y <= Len(de)
      BY <1>2, <1>4, <1>5, <1>6, <1>7, <3>2
    <3>4. SubSeq(all, x + 1, y) = SubSeq(de, z + x + 1, z + y)
      <4>1. SubSeq(SubSeq(de, z + 1, Len(de)), x + 1, y) = SubSeq(de, z + x + 1, z + y)
        <5>1. /\ de \in Seq(Nat) /\ z \in Nat /\ z <= Len(de)
              /\ x \in Nat /\ y \in Nat /\ x <= y /\ z + y <= Len(de)
          BY <1>1, <1>2, <1>4, <3>2, <3>3
        <5>. HIDE DEF z
        <5>. QED
          BY <5>1, SliceOfSlice
      <4>. QED
        BY <1>3, <4>1, Zenon
    <3>. QED
      BY <3>1, <3>2, <3>4 DEF x, y
  <2>. QED
    BY <2>1 DEF Cuts
<1>11. SubSeq(all, k * FixedChunkSize + 1, Len(all)) = Rest(de)
  <2>. DEFINE x == k * FixedChunkSize
              y == Len(all)
  <2>1. x \in Nat /\ y \in Nat /\ x <= y /\ z + y = Len(de) /\ z + y <= Len(de)
    BY <1>2, <1>4, <1>5, <1>6, <1>7
  <2>2. z + x = Full(de) * FixedChunkSize
    BY <1>7, <1>9
  <2>. HIDE DEF x, y
  <2>3. SubSeq(all, x + 1, y) = SubSeq(de, z + x + 1, z + y)
    <3>1. SubSeq(SubSeq(de, z + 1, Len(de)), x + 1, y) = SubSeq(de, z + x + 1, z + y)
      <4>1. /\ de \in Seq(Nat) /\ z \in Nat /\ z <= Len(de)
            /\ x \in Nat /\ y \in Nat /\ x <= y /\ z + y <= Len(de)
        BY <1>1, <1>2, <1>4, <2>1
      <4>. HIDE DEF z
      <4>. QED
        BY <4>1, SliceOfSlice
    <3>. QED
      BY <1>3, <3>1, Zenon
  <2>. QED
    BY <2>1, <2>2, <2>3 DEF x, y, Rest
<1>12. Layout(d, m) = Layout(de, m)
  BY <1>2, LayoutKept DEF de, z
<1>13. Appended(Layout(de, m), Cuts(de, m, k)) = Layout(de, m + k)
  BY <1>1, <1>2, <1>6, <1>8, LayoutFold, Zenon
<1>14. CollectFixedChunkRefs(Layout(d, m), Rest(d), e)
         = [refs |-> Appended(Layout(d, m), q),
            pending |-> SubSeq(all, k * FixedChunkSize + 1, Len(all))]
  BY CollectForm DEF all, k
<1>. QED
  BY <1>9, <1>10, <1>11, <1>12, <1>13, <1>14 DEF m, de

(* The chunks and the rest, flushed: the layout of put_object.             *)
LEMMA FlushLayout ==
  ASSUME NEW d \in Seq(Nat)
  PROVE  FlushFixedChunkRef(Layout(d, Full(d)), Rest(d)) = ChunkCiphertext(d)
<1>. DEFINE l == Len(d)
            m == Full(d)
            z == m * FixedChunkSize
            n == (l + FixedChunkSize - 1) \div FixedChunkSize
            end(i) == IF i = n THEN l ELSE i * FixedChunkSize
<1>1. l \in Nat /\ m \in Nat /\ z \in Nat /\ z <= l /\ l < z + FixedChunkSize
  <2>1. l \in Nat
    OBVIOUS
  <2>2. m \in Nat /\ z <= l /\ l < z + FixedChunkSize
    BY <2>1, Quotient DEF Full
  <2>. QED
    BY <2>1, <2>2, Multiples
<1>2. ChunkCiphertext(d) = [i \in 1..n |-> ChunkRef(i - 1, (i - 1) * FixedChunkSize,
                              SubSeq(d, (i - 1) * FixedChunkSize + 1, end(i)))]
  BY DEF ChunkCiphertext
<1>4. Len(Rest(d)) = l - z
  <2>. HIDE DEF z, l
  <2>1. l <= l /\ l <= Len(d)
    BY <1>1 DEF l
  <2>2. Len(SubSeq(d, z + 1, l)) = l - z
    BY <1>1, <2>1, Slice, Zenon
  <2>. QED
    BY <2>2 DEF Rest, l, z
<1>a. l + FixedChunkSize - 1 \in Nat
  BY <1>1, MultipartAssumption
<1>. HIDE DEF l, m, z
<1>3. (m + 1) * FixedChunkSize = z + FixedChunkSize /\ m + 1 \in Nat
  BY <1>1, MultipartAssumption DEF z
<1>5. CASE l = z
  <2>1. n = m
    <3>1. /\ m * FixedChunkSize <= l + FixedChunkSize - 1
          /\ l + FixedChunkSize - 1 < m * FixedChunkSize + FixedChunkSize
      BY <1>1, <1>5, MultipartAssumption DEF z
    <3>. QED
      BY <1>1, <1>a, <3>1, Quotient
  <2>. HIDE DEF n
  <2>2. \A i \in 1..m : end(i) = i * FixedChunkSize
    BY <1>5, <2>1 DEF z
  <2>3. ChunkCiphertext(d) = Layout(d, m)
    BY <1>2, <2>1, <2>2 DEF Layout
  <2>4. Rest(d) = <<>>
    <3>1. Rest(d) \in Seq(Nat)
      BY <1>1, Slice DEF Rest, l, m, z
    <3>. QED
      BY <1>1, <1>4, <1>5, <3>1
  <2>. QED
    BY <2>3, <2>4 DEF FlushFixedChunkRef, m
<1>6. CASE l # z
  <2>1. n = m + 1
    <3>1. /\ (m + 1) * FixedChunkSize <= l + FixedChunkSize - 1
          /\ l + FixedChunkSize - 1 < (m + 1) * FixedChunkSize + FixedChunkSize
      BY <1>1, <1>3, <1>6, MultipartAssumption
    <3>. QED
      BY <1>3, <1>a, <3>1, Quotient
  <2>. HIDE DEF n
  <2>2. \A i \in 1..m : end(i) = i * FixedChunkSize
    BY <1>1, <2>1
  <2>3. end(m + 1) = l /\ (m + 1) - 1 = m /\ m + 1 \in 1..(m + 1)
    BY <1>1, <2>1
  <2>. DEFINE s == Layout(d, m)
              t == ChunkCiphertext(d)
              r == ChunkRef(m, z, Rest(d))
  <2>4. s \in Seq(Ref) /\ Len(s) = m /\ Total(s) = z
    BY <1>1, LayoutSeq DEF l, z
  <2>5. Rest(d) \in Seq(Nat) /\ Rest(d) # <<>>
    <3>1. Rest(d) \in Seq(Nat)
      BY <1>1, Slice DEF Rest, l, m, z
    <3>. QED
      BY <1>1, <1>4, <1>6, <3>1
  <2>6. r \in Ref
    BY <1>1, <2>5 DEF ChunkRef, Ref
  <2>7. FlushFixedChunkRef(s, Rest(d)) = Append(s, r)
    BY <2>4, <2>5 DEF FlushFixedChunkRef, Append1
  <2>8. t[m + 1] = r
    BY <1>2, <2>1, <2>3 DEF Rest, l, m, z
  <2>9. \A i \in 1..m : t[i] = s[i]
    <3>1. \A i \in 1..m : i \in 1..n
      BY <1>1, <2>1
    <3>. QED
      BY <1>2, <2>2, <3>1 DEF Layout
  <2>10. t = [i \in 1..(m + 1) |-> t[i]]
    BY <1>2, <2>1
  <2>. HIDE DEF s, t, r
  <2>11. t \in Seq(Ref) /\ Len(t) = m + 1
    <3>1. \A i \in 1..(m + 1) : t[i] \in Ref
      BY <1>1, <2>4, <2>6, <2>8, <2>9
    <3>. DEFINE k == m + 1
    <3>2. k \in Nat
      BY <1>3
    <3>3. t = [i \in 1..k |-> t[i]] /\ \A i \in 1..k : t[i] \in Ref
      BY <2>10, <3>1
    <3>. HIDE DEF k
    <3>4. t \in [1..k -> Ref]
      BY <3>3
    <3>5. t \in Seq(Ref) /\ Len(t) = k
      BY <3>2, <3>4
    <3>. QED
      BY <3>5 DEF k
  <2>12. Append(s, r) = t
    <3>. DEFINE a == Append(s, r)
    <3>1. a \in Seq(Ref) /\ Len(a) = m + 1 /\ (\A i \in 1..m : a[i] = s[i]) /\ a[m + 1] = r
      BY <2>4, <2>6
    <3>. HIDE DEF a
    <3>2. ASSUME NEW i \in 1..Len(a) PROVE a[i] = t[i]
      <4>1. i \in 1..m \/ i = m + 1
        BY <1>1, <3>1
      <4>. QED
        BY <2>8, <2>9, <3>1, <4>1
    <3>3. Len(a) = Len(t)
      BY <2>11, <3>1
    <3>4. a = t
      BY <2>11, <3>1, <3>2, <3>3, SameSeq, Zenon
    <3>. QED
      BY <3>4 DEF a
  <2>. QED
    BY <2>7, <2>12 DEF s, t, m
<1>. QED
  BY <1>5, <1>6

-----------------------------------------------------------------------------
(* The recursive function inside FlattenSeq.                               *)
Flattens(f, q, n) == f = [i \in 1..n |-> IF i = 1 THEN q[i] ELSE f[i - 1] \o q[i]]

(* That function exists, so FlattenSeq has a value.                        *)
LEMMA FlattensExist ==
  ASSUME NEW q, NEW m \in Nat
  PROVE  \E f : Flattens(f, q, m)
<1>. DEFINE T == {n \in Nat : \E f : Flattens(f, q, n)}
<1>1. 0 \in T
  <2>1. Flattens([i \in 1..0 |-> q[i]], q, 0)
    BY DEF Flattens
  <2>. QED
    BY <2>1
<1>2. ASSUME NEW n \in Nat, n \in T PROVE n + 1 \in T
  <2>1. PICK f : Flattens(f, q, n)
    BY <1>2
  <2>. DEFINE g == [i \in 1..(n + 1) |-> IF i = 1 THEN q[i] ELSE f[i - 1] \o q[i]]
  <2>2. ASSUME NEW i \in 1..(n + 1), i # 1 PROVE g[i - 1] = f[i - 1]
    <3>1. i - 1 \in 1..n /\ i - 1 \in 1..(n + 1)
      BY <2>2
    <3>. QED
      BY <2>1, <3>1 DEF Flattens
  <2>3. Flattens(g, q, n + 1)
    BY <2>2 DEF Flattens
  <2>. QED
    BY <2>3
<1>. HIDE DEF T
<1>3. m \in T
  BY <1>1, <1>2, SetInduction
<1>. QED
  BY <1>3 DEF T

(* The first k sequences of q, one after the other.                        *)
Joined(q, k) == FlattenSeq([i \in 1..k |-> q[i]])

(* Joined is the last value of such a function.                            *)
LEMMA JoinedUnfold ==
  ASSUME NEW q, NEW m \in Nat, m # 0
  PROVE  \E f : Flattens(f, q, m) /\ Joined(q, m) = f[m]
<1>. DEFINE s == [i \in 1..m |-> q[i]]
            g == CHOOSE f : Flattens(f, s, m)
<1>1. Flattens(g, s, m)
  BY FlattensExist
<1>2. Len(s) = m
  OBVIOUS
<1>3. Joined(q, m) = g[m]
  BY <1>2 DEF Joined, FlattenSeq, Flattens
<1>. HIDE DEF g
<1>4. Flattens(g, q, m)
  BY <1>1 DEF Flattens
<1>. QED
  BY <1>3, <1>4

(* The functions for m and for m + 1 sequences agree where both are        *)
(* defined.                                                                *)
LEMMA FlattensAgree ==
  ASSUME NEW q, NEW m \in Nat, NEW f, NEW g, Flattens(f, q, m), Flattens(g, q, m + 1)
  PROVE  \A i \in 1..m : f[i] = g[i]
<1>. DEFINE T == {n \in Nat : n \in 1..m => f[n] = g[n]}
<1>1. 0 \in T
  OBVIOUS
<1>2. ASSUME NEW n \in Nat, n \in T PROVE n + 1 \in T
  <2>. SUFFICES ASSUME n + 1 \in 1..m PROVE f[n + 1] = g[n + 1]
    OBVIOUS
  <2>1. n + 1 \in 1..(m + 1) /\ (n + 1) - 1 = n /\ (n + 1 # 1 => n \in 1..m)
    OBVIOUS
  <2>2. f[n + 1] = IF n + 1 = 1 THEN q[n + 1] ELSE f[n] \o q[n + 1]
    BY <2>1 DEF Flattens
  <2>3. g[n + 1] = IF n + 1 = 1 THEN q[n + 1] ELSE g[n] \o q[n + 1]
    BY <2>1 DEF Flattens
  <2>. QED
    BY <1>2, <2>1, <2>2, <2>3
<1>. HIDE DEF T
<1>3. Nat \subseteq T
  BY <1>1, <1>2, SetInduction
<1>. QED
  BY <1>3 DEF T

(* One more sequence comes after the others.                               *)
LEMMA JoinedNext ==
  ASSUME NEW q, NEW m \in Nat, \A i \in 1..(m + 1) : q[i] \in Seq(Nat)
  PROVE  Joined(q, 0) = <<>> /\ Joined(q, m + 1) = Joined(q, m) \o q[m + 1]
<1>0. Joined(q, 0) = <<>>
  BY DEF Joined, FlattenSeq
<1>1. PICK g : Flattens(g, q, m + 1) /\ Joined(q, m + 1) = g[m + 1]
  <2>1. m + 1 \in Nat /\ m + 1 # 0
    OBVIOUS
  <2>. QED
    BY <2>1, JoinedUnfold
<1>2. m + 1 \in 1..(m + 1) /\ (m + 1) - 1 = m
  OBVIOUS
<1>3. g[m + 1] = IF m + 1 = 1 THEN q[m + 1] ELSE g[m] \o q[m + 1]
  BY <1>1, <1>2 DEF Flattens
<1>4. CASE m = 0
  <2>1. q[1] \in Seq(Nat)
    BY <1>4
  <2>2. <<>> \o q[1] = q[1]
    BY <2>1
  <2>. QED
    BY <1>0, <1>1, <1>3, <1>4, <2>2
<1>5. CASE m # 0
  <2>1. PICK f : Flattens(f, q, m) /\ Joined(q, m) = f[m]
    BY <1>5, JoinedUnfold
  <2>2. f[m] = g[m]
    BY <1>1, <1>5, <2>1, FlattensAgree
  <2>3. m + 1 # 1
    BY <1>5
  <2>4. g[m + 1] = g[m] \o q[m + 1]
    BY <1>3, <2>3
  <2>. QED
    BY <1>0, <1>1, <2>1, <2>2, <2>4, Zenon
<1>. QED
  BY <1>4, <1>5

(* Joined sequences of bytes are a sequence of bytes.                      *)
LEMMA JoinedSeq ==
  ASSUME NEW q, NEW m \in Nat, \A i \in 1..m : q[i] \in Seq(Nat)
  PROVE  \A k \in 0..m : Joined(q, k) \in Seq(Nat)
<1>. DEFINE T == {n \in Nat : n <= m => Joined(q, n) \in Seq(Nat)}
<1>1. 0 \in T
  <2>1. Joined(q, 0) = <<>>
    BY DEF Joined, FlattenSeq
  <2>2. <<>> \in Seq(Nat) /\ 0 \in Nat
    OBVIOUS
  <2>. QED
    BY <2>1, <2>2, Zenon
<1>2. ASSUME NEW n \in Nat, n \in T PROVE n + 1 \in T
  <2>0. n + 1 \in Nat
    OBVIOUS
  <2>. SUFFICES ASSUME n + 1 <= m PROVE Joined(q, n + 1) \in Seq(Nat)
    BY <2>0, Zenon
  <2>1. n <= m /\ \A i \in 1..(n + 1) : i \in 1..m
    OBVIOUS
  <2>2. \A i \in 1..(n + 1) : q[i] \in Seq(Nat)
    BY <2>1
  <2>3. Joined(q, n + 1) = Joined(q, n) \o q[n + 1]
    BY <2>2, JoinedNext
  <2>4. Joined(q, n) \in Seq(Nat) /\ q[n + 1] \in Seq(Nat)
    BY <1>2, <2>1, <2>2
  <2>5. \A a, b \in Seq(Nat) : a \o b \in Seq(Nat)
    OBVIOUS
  <2>. QED
    BY <2>3, <2>4, <2>5, Zenon
<1>. HIDE DEF T
<1>3. Nat \subseteq T
  BY <1>1, <1>2, SetInduction
<1>. QED
  BY <1>3 DEF T

-----------------------------------------------------------------------------
(* The manifest of a completed upload.                                     *)
First == {"meta1", "bytes1"}
Etags(ps) == [i \in DOMAIN ps |-> ps[i].etag]

(* The parts that the first pass is done with, as one sequence.            *)
Done(w) == Joined(Etags(job[w].parts), loc[w].i - 1)

(* The manifest so far, and the manifest.                                  *)
ManifestInv(w) ==
  /\ pc[w] \in First =>
       loc[w].refs = Layout(Done(w), Full(Done(w))) /\ loc[w].pending = Rest(Done(w))
  /\ pc[w] \in Second => loc[w].refs = ChunkCiphertext(FlattenSeq(Etags(job[w].parts)))

(* The hashes of the parts, joined one by one, are the flattened sequence  *)
(* of CompletedIsParts.                                                    *)
LEMMA EtagsJoin ==
  ASSUME NEW ps \in Seq(Part)
  PROVE  /\ Len(ps) \in Nat /\ Joined(Etags(ps), 0) = <<>>
         /\ FlattenSeq(Etags(ps)) = Joined(Etags(ps), Len(ps))
         /\ \A k \in 1..Len(ps) :
              /\ Joined(Etags(ps), k - 1) \in Seq(Nat) /\ ps[k].etag \in Seq(Nat)
              /\ Joined(Etags(ps), k) = Joined(Etags(ps), k - 1) \o ps[k].etag
<1>. DEFINE q == Etags(ps)
            m == Len(ps)
<1>1. m \in Nat /\ DOMAIN ps = 1..m
  OBVIOUS
<1>2. q = [i \in 1..m |-> q[i]] /\ \A i \in 1..m : q[i] = ps[i].etag
  BY <1>1 DEF Etags
<1>3. ASSUME NEW i \in 1..m PROVE ps[i].etag \in Seq(Nat)
  <2>1. ps[i] \in Part
    OBVIOUS
  <2>. QED
    BY <2>1, MultipartAssumption DEF Part
<1>4. \A i \in 1..m : q[i] \in Seq(Nat)
  BY <1>2, <1>3
<1>. HIDE DEF q, m
<1>5. \A k \in 0..m : Joined(q, k) \in Seq(Nat)
  BY <1>1, <1>4, JoinedSeq
<1>6. Joined(q, 0) = <<>>
  BY DEF Joined, FlattenSeq
<1>7. FlattenSeq(q) = Joined(q, m)
  BY <1>2 DEF Joined
<1>8. ASSUME NEW k \in 1..m
      PROVE  /\ Joined(q, k - 1) \in Seq(Nat) /\ ps[k].etag \in Seq(Nat)
             /\ Joined(q, k) = Joined(q, k - 1) \o ps[k].etag
  <2>. DEFINE n == k - 1
  <2>1. n \in Nat /\ n + 1 = k /\ n \in 0..m /\ \A i \in 1..(n + 1) : i \in 1..m
    BY <1>1
  <2>. HIDE DEF n
  <2>2. \A i \in 1..(n + 1) : q[i] \in Seq(Nat)
    BY <1>4, <2>1
  <2>3. Joined(q, n + 1) = Joined(q, n) \o q[n + 1]
    BY <2>1, <2>2, JoinedNext
  <2>4. Joined(q, n) \in Seq(Nat)
    BY <1>5, <2>1
  <2>5. q[k] = ps[k].etag /\ ps[k].etag \in Seq(Nat)
    BY <1>2, <1>3
  <2>. QED
    BY <2>1, <2>3, <2>4, <2>5, Zenon DEF n
<1>. QED
  BY <1>1, <1>6, <1>7, <1>8 DEF q, m

(* Nothing has no chunks and no rest.                                      *)
LEMMA LayoutEmpty == Full(<<>>) = 0 /\ Layout(<<>>, 0) = <<>> /\ Rest(<<>>) = <<>>
<1>1. Full(<<>>) = 0
  BY MultipartAssumption DEF Full
<1>2. Layout(<<>>, 0) = <<>>
  BY DEF Layout
<1>3. Rest(<<>>) = <<>>
  BY <1>1, MultipartAssumption DEF Rest
<1>. QED
  BY <1>1, <1>2, <1>3

(* How a handler comes to the first pass.                                  *)
FirstPass(w) == ~Refuse(w) /\ (CompleteMeta(w) \/ CompleteBytes(w))

(* A handler is in the first pass after one of these steps, or was there.  *)
LEMMA ToFirst ==
  ASSUME TypeInv, NEW w \in Workers, Step(w), pc'[w] \in First
  PROVE  \/ CompleteMultipartUpload(w) \/ FirstPass(w) \/ UNCHANGED <<pc, job, loc>>
<1>1. ~(End(w) \/ Refuse(w) \/ Fails(w))
  BY EndWork DEF First
<1>2. ASSUME NEW r, NEW step, Begin(w, r, step), step \notin First PROVE FALSE
  BY <1>2, Domains DEF Begin
<1>3. ~(CreateBucket(w) \/ DeleteBucket(w) \/ CreateMultipartUpload(w) \/ UploadPart(w)
        \/ AbortMultipartUpload(w))
  <2>1. ~CreateBucket(w)
    BY <1>2 DEF CreateBucket, First
  <2>2. ~DeleteBucket(w)
    BY <1>2 DEF DeleteBucket, First
  <2>3. ~CreateMultipartUpload(w)
    <3>. SUFFICES ASSUME CreateMultipartUpload(w) PROVE FALSE
      OBVIOUS
    <3>1. PICK u \in Uploads : Begin(w, [NoJob EXCEPT !.op = "create", !.u = u], "s_write")
      BY DEF CreateMultipartUpload
    <3>. DEFINE r == [NoJob EXCEPT !.op = "create", !.u = u]
    <3>2. Begin(w, r, "s_write")
      BY <3>1
    <3>. HIDE DEF r
    <3>. QED
      BY <1>2, <3>2 DEF First
  <2>4. ~UploadPart(w)
    <3>. SUFFICES ASSUME UploadPart(w) PROVE FALSE
      OBVIOUS
    <3>1. PICK u \in Uploads, n \in Parts, c \in Contents :
            Begin(w, [NoJob EXCEPT !.op = "part", !.u = u, !.n = n, !.data = c], "p_bytes")
      BY DEF UploadPart
    <3>. DEFINE r == [NoJob EXCEPT !.op = "part", !.u = u, !.n = n, !.data = c]
    <3>2. Begin(w, r, "p_bytes")
      BY <3>1
    <3>. HIDE DEF r
    <3>. QED
      BY <1>2, <3>2 DEF First
  <2>5. ~AbortMultipartUpload(w)
    <3>. SUFFICES ASSUME AbortMultipartUpload(w) PROVE FALSE
      OBVIOUS
    <3>1. PICK u \in Uploads : Begin(w, [NoJob EXCEPT !.op = "abort", !.u = u], "a_list")
      BY DEF AbortMultipartUpload
    <3>. DEFINE r == [NoJob EXCEPT !.op = "abort", !.u = u]
    <3>2. Begin(w, r, "a_list")
      BY <3>1
    <3>. HIDE DEF r
    <3>. QED
      BY <1>2, <3>2 DEF First
  <2>. QED
    BY <2>1, <2>2, <2>3, <2>4, <2>5
<1>4. ~(\/ PutBucketAcl(w) \/ PutObjectAcl(w) \/ PutLifecycleConfig(w)
        \/ PutWebsiteConfig(w) \/ PutReplicationConfig(w))
  BY <1>2 DEF PutBucketAcl, PutObjectAcl, PutLifecycleConfig, PutWebsiteConfig,
     PutReplicationConfig, PutConfig, First
<1>5. CASE DeleteLifecycleConfig(w) \/ DeleteWebsiteConfig(w) \/ DeleteReplicationConfig(w)
  BY <1>5 DEF DeleteLifecycleConfig, DeleteWebsiteConfig, DeleteReplicationConfig, DeleteConfig
<1>6. ASSUME NEW step, Goto(w, step), step \notin First PROVE FALSE
  BY <1>6, Domains DEF Goto
<1>7. ~(\/ DeleteBucketList(w) \/ DeleteBucketSessions(w) \/ UploadPartBytes(w)
        \/ AbortList(w) \/ CompleteBucket(w) \/ CompleteResolve(w))
  BY <1>1, <1>6 DEF DeleteBucketList, DeleteBucketSessions, UploadPartBytes, AbortList,
     CompleteBucket, CompleteResolve, First
<1>8. ~(\/ CompleteCommit(w) \/ CompleteMark(w) \/ CleanupBytes(w) \/ CleanupMeta(w)
        \/ CompleteMetaAgain(w) \/ CompleteUpload(w))
  <2>1. ~(CompleteCommit(w) \/ CompleteMark(w) \/ CleanupBytes(w) \/ CleanupMeta(w))
    BY <1>1, <1>6 DEF CompleteCommit, CompleteMark, CleanupBytes, CleanupMeta, First
  <2>2. ~CompleteMetaAgain(w)
    <3>. SUFFICES ASSUME CompleteMetaAgain(w) PROVE FALSE
      OBVIOUS
    <3>1. pc[w] = "meta2" /\ ReadMeta(w)
      BY DEF CompleteMetaAgain
    <3>2. Goto(w, "bytes2")
      BY <1>1, <3>1 DEF ReadMeta
    <3>. QED
      BY <1>6, <3>2 DEF First
  <2>3. ~CompleteUpload(w)
    <3>. SUFFICES ASSUME CompleteUpload(w) PROVE FALSE
      OBVIOUS
    <3>1. PICK step \in {"commit", "meta2"} : Goto(w, step)
      BY <1>1 DEF CompleteUpload
    <3>. QED
      BY <1>6, <3>1 DEF First
  <2>. QED
    BY <2>1, <2>2, <2>3
<1>9. ~(\/ CreateBucketMeta(w) \/ DeleteBucketMeta(w) \/ PutConfigWrite(w)
        \/ CreateMultipartUploadWrite(w) \/ UploadPartMeta(w) \/ CleanupSession(w))
  BY <1>1 DEF CreateBucketMeta, DeleteBucketMeta, PutConfigWrite,
     CreateMultipartUploadWrite, UploadPartMeta, CleanupSession
<1>10. ~(CreateBucketWrite(w) \/ DeleteBucketRegistry(w))
  BY <1>6 DEF CreateBucketWrite, DeleteBucketRegistry, First
<1>. QED
  BY <1>1, <1>3, <1>4, <1>5, <1>7, <1>8, <1>9, <1>10 DEF Step, Configure, Complete, FirstPass

(* The step of the first pass over one part: what it did goes on to cover  *)
(* that part.                                                              *)
LEMMA BytesManifest ==
  ASSUME TypeInv, NEW w \in Workers, ManifestInv(w), CompleteBytes(w), ~Refuse(w)
  PROVE  ManifestInv(w)'
<1>. DEFINE ps == job[w].parts
            i == loc[w].i
            u == job[w].u
            d == Done(w)
            e == ps[i].etag
            c == CollectFixedChunkRefs(loc[w].refs, loc[w].pending, bytes[u][Named(w).n])
            refs == FlushFixedChunkRef(c.refs, c.pending)
            de == d \o e
<1>1. pc[w] = "bytes1" /\ Intact(w)
  BY DEF CompleteBytes
<1>2. ps \in Seq(Part) /\ i \in 1..Len(ps)
  BY <1>1, Completes DEF Completing
<1>3. /\ d \in Seq(Nat) /\ e \in Seq(Nat)
      /\ Joined(Etags(ps), i) = de
      /\ FlattenSeq(Etags(ps)) = Joined(Etags(ps), Len(ps))
  BY <1>2, EtagsJoin, Zenon DEF Done
<1>4. bytes[u][Named(w).n] = e
  BY <1>1 DEF Intact, Named
<1>5. loc[w].refs = Layout(d, Full(d)) /\ loc[w].pending = Rest(d)
  BY <1>1 DEF ManifestInv, First
<1>6. c = CollectFixedChunkRefs(Layout(d, Full(d)), Rest(d), e)
  BY <1>4, <1>5, Zenon
<1>a. de \in Seq(Nat)
  <2>. HIDE DEF d, e
  <2>. QED
    BY <1>3
<1>. HIDE DEF d, e
<1>7. c.refs = Layout(de, Full(de)) /\ c.pending = Rest(de)
  <2>1. CollectFixedChunkRefs(Layout(d, Full(d)), Rest(d), e)
          = [refs |-> Layout(de, Full(de)), pending |-> Rest(de)]
    BY <1>3, CollectLayout, Zenon
  <2>. HIDE DEF c, de
  <2>2. c = [refs |-> Layout(de, Full(de)), pending |-> Rest(de)]
    BY <1>6, <2>1, Zenon
  <2>. QED
    BY <2>2
<1>8. refs = ChunkCiphertext(de)
  <2>. HIDE DEF c, de
  <2>. QED
    BY <1>7, <1>a, FlushLayout, Zenon
<1>9. CASE ~LastPart(w)
  <2>. DEFINE j == i + 1
              c1 == c.refs
              c2 == c.pending
  <2>1. /\ Goto(w, "meta1")
        /\ loc' = [loc EXCEPT ![w].i = j, ![w].etag = None, ![w].refs = c1, ![w].pending = c2]
    BY <1>9 DEF CompleteBytes
  <2>2. j - 1 = i
    BY <1>2
  <2>. HIDE DEF c1, c2, j
  <2>3. loc'[w].i = j /\ loc'[w].refs = c1 /\ loc'[w].pending = c2
    <3>1. loc' = [loc EXCEPT ![w].i = j, ![w].etag = None, ![w].refs = c1, ![w].pending = c2]
      BY <2>1
    <3>2. DOMAIN loc = Workers /\ DOMAIN loc[w] = Fields
      BY DEF TypeInv, WorkInv
    <3>. QED
      BY <3>1, <3>2 DEF Fields
  <2>4. pc'[w] = "meta1" /\ job'[w] = job[w]
    BY <2>1, Domains DEF Goto
  <2>5. Done(w)' = de
    BY <1>3, <2>2, <2>3, <2>4, Zenon DEF Done
  <2>6. loc'[w].refs = Layout(de, Full(de)) /\ loc'[w].pending = Rest(de)
    BY <1>7, <2>3, Zenon DEF c1, c2
  <2>8. pc'[w] \notin Second
    BY <2>4 DEF Second
  <2>. QED
    BY <2>5, <2>6, <2>8, Zenon DEF ManifestInv
<1>10. CASE LastPart(w)
  <2>. DEFINE l == [Fresh EXCEPT !.refs = refs]
  <2>1. loc' = [loc EXCEPT ![w] = l] /\ Goto(w, "bucket")
    BY <1>10 DEF CompleteBytes
  <2>2. l.refs = refs
    BY DEF Fresh
  <2>3. ChunkCiphertext(FlattenSeq(Etags(ps))) = ChunkCiphertext(de)
    <3>1. i = Len(ps)
      BY <1>10 DEF LastPart
    <3>. QED
      BY <1>3, <3>1, Zenon
  <2>. HIDE DEF l, refs, de
  <2>4. pc'[w] = "bucket" /\ job'[w] = job[w] /\ loc'[w] = l
    BY <2>1, Goes
  <2>5. loc'[w].refs = ChunkCiphertext(FlattenSeq(Etags(ps)))
    BY <1>8, <2>2, <2>3, <2>4, Zenon
  <2>6. pc'[w] \notin First
    BY <2>4 DEF First
  <2>. QED
    BY <2>4, <2>5, <2>6, Zenon DEF ManifestInv
<1>. QED
  BY <1>9, <1>10

(* Each step of a handler keeps its ManifestInv.                           *)
LEMMA ManifestStep ==
  ASSUME TypeInv, NEW w \in Workers, ManifestInv(w), Step(w)
  PROVE  ManifestInv(w)'
<1>0. First \cap Second = {}
  BY DEF First, Second
<1>1. CASE UNCHANGED <<pc, job, loc>>
  <2>1. pc'[w] = pc[w] /\ job'[w] = job[w] /\ loc'[w] = loc[w] /\ Done(w)' = Done(w)
    BY <1>1 DEF Done
  <2>. QED
    BY <2>1, Zenon DEF ManifestInv
<1>2. CASE pc'[w] \notin First /\ pc'[w] \notin Second
  BY <1>2, Zenon DEF ManifestInv
<1>3. CASE CompleteBytes(w) /\ ~Refuse(w)
  BY <1>3, BytesManifest
<1>4. CASE CompleteMultipartUpload(w)
  <2>1. PICK u \in Uploads, ps \in SeqOf(Part, NParts) :
          Begin(w, [NoJob EXCEPT !.op = "complete", !.u = u, !.parts = ps], "meta1")
    BY <1>4 DEF CompleteMultipartUpload
  <2>. DEFINE r == [NoJob EXCEPT !.op = "complete", !.u = u, !.parts = ps]
  <2>2. Begin(w, r, "meta1")
    BY <2>1
  <2>. HIDE DEF r
  <2>3. pc'[w] = "meta1" /\ loc'[w] = Fresh
    BY <2>2, Begins
  <2>4. loc'[w].i - 1 = 0 /\ loc'[w].refs = <<>> /\ loc'[w].pending = <<>>
    BY <2>3, FreshWork
  <2>5. Done(w)' = <<>>
    <3>1. Joined(Etags(job'[w].parts), 0) = <<>>
      BY DEF Joined, FlattenSeq
    <3>. QED
      BY <2>4, <3>1, Zenon DEF Done
  <2>6. /\ loc'[w].refs = Layout(<<>>, Full(<<>>))
        /\ loc'[w].pending = Rest(<<>>)
    BY <2>4, LayoutEmpty, Zenon
  <2>7. pc'[w] \notin Second
    BY <2>3 DEF Second
  <2>. QED
    BY <2>5, <2>6, <2>7, Zenon DEF ManifestInv
<1>5. CASE (CompleteMeta(w) \/ CompleteMetaAgain(w)) /\ ~Refuse(w)
  <2>1. ReadMeta(w)
    BY <1>5 DEF CompleteMeta, CompleteMetaAgain
  <2>2. PICK e : loc' = [loc EXCEPT ![w].etag = e]
    BY <1>5, <2>1 DEF ReadMeta
  <2>3. /\ Goto(w, IF pc[w] = "meta1" THEN "bytes1" ELSE "bytes2")
        /\ pc[w] \in {"meta1", "meta2"}
    BY <1>5, <2>1 DEF ReadMeta, CompleteMeta, CompleteMetaAgain
  <2>4. /\ loc'[w].i = loc[w].i /\ loc'[w].refs = loc[w].refs
        /\ loc'[w].pending = loc[w].pending
    BY <2>2, Looks DEF Fields
  <2>5. /\ job'[w] = job[w]
        /\ pc'[w] \in First => pc[w] \in First
        /\ pc'[w] \in Second => pc[w] \in Second
    BY <2>3, Domains DEF Goto, First, Second
  <2>6. Done(w)' = Done(w)
    BY <2>4, <2>5 DEF Done
  <2>. QED
    BY <2>4, <2>5, <2>6, Zenon DEF ManifestInv
<1>6. CASE (CompleteBucket(w) \/ CompleteResolve(w) \/ CompleteUpload(w)) /\ ~Refuse(w)
  <2>1. pc[w] \in Second
    BY <1>6 DEF CompleteBucket, CompleteResolve, CompleteUpload, Second
  <2>2. job' = job /\ pc'[w] \notin First
    <3>1. PICK step \in {"resolve", "meta2", "commit"} : Goto(w, step)
      BY <1>6 DEF CompleteBucket, CompleteResolve, CompleteUpload
    <3>. QED
      BY <3>1, Domains DEF Goto, First
  <2>3. loc'[w].refs = loc[w].refs
    <3>1. CASE CompleteBucket(w)
      BY <1>6, <3>1 DEF CompleteBucket
    <3>2. CASE CompleteResolve(w)
      <4>1. PICK e : loc' = [loc EXCEPT ![w].seen = e]
        BY <3>2 DEF CompleteResolve
      <4>. QED
        BY <4>1, Sees DEF Fields
    <3>3. CASE CompleteUpload(w)
      <4>. DEFINE c == CollectFixedChunkRefs(loc[w].sent, loc[w].pending,
                                             bytes[job[w].u][Named(w).n])
                  sent == IF LastPart(w) THEN FlushFixedChunkRef(c.refs, c.pending) ELSE c.refs
                  j == IF LastPart(w) THEN loc[w].i ELSE loc[w].i + 1
                  c2 == IF LastPart(w) THEN <<>> ELSE c.pending
      <4>1. loc' = [loc EXCEPT ![w].i = j, ![w].etag = None,
                               ![w].sent = sent, ![w].pending = c2]
        BY <1>6, <3>3 DEF CompleteUpload
      <4>. HIDE DEF c2, sent, j
      <4>. QED
        BY <4>1, Uploads2
    <3>. QED
      BY <1>6, <3>1, <3>2, <3>3
  <2>. QED
    BY <2>1, <2>2, <2>3, Zenon DEF ManifestInv
<1>. QED
  BY <1>1, <1>2, <1>3, <1>4, <1>5, <1>6, ToFirst, ToSecond DEF FirstPass, Seconds

(* The chunk store only grows.                                             *)
LEMMA ChunksGrow ==
  ASSUME TypeInv, [Next]_vars
  PROVE  chunks \subseteq chunks'
<1>1. ASSUME NEW w \in Workers, Step(w) PROVE chunks \subseteq chunks'
  <2>1. CASE UNCHANGED store
    BY <2>1 DEF store, content
  <2>2. CASE Writes(w)
    <3>1. CASE CompleteUpload(w)
      BY <3>1 DEF CompleteUpload, Refuse, store, content
    <3>2. CASE ~CompleteUpload(w)
      BY <2>2, <3>2 DEF Writes, CreateBucketWrite, CreateBucketMeta, DeleteBucketRegistry, DeleteBucketMeta,
       PutConfigWrite,
         DeleteLifecycleConfig, DeleteWebsiteConfig, DeleteReplicationConfig, DeleteConfig,
         CreateMultipartUploadWrite, UploadPartBytes, UploadPartMeta, CompleteCommit,
         CompleteMark, CleanupBytes, CleanupMeta, CleanupSession, Refuse, store, content
    <3>. QED
      BY <3>1, <3>2
  <2>. QED
    BY <1>1, <2>1, <2>2, OthersRead
<1>2. CASE OtherPut \/ OtherDelete
  BY <1>2 DEF OtherPut, OtherDelete
<1>3. CASE UNCHANGED vars
  BY <1>3 DEF vars, store, content
<1>. QED
  BY <1>1, <1>2, <1>3 DEF Next

PartsInv == CompletedIsParts /\ \A w \in Workers : ManifestInv(w)

(* There is no object and no manifest yet.                                 *)
LEMMA PartsInit == Init => PartsInv
  BY DEF Init, PartsInv, CompletedIsParts, ManifestInv, First, Second

(* Each step keeps PartsInv.                                               *)
LEMMA PartsNext == TypeInv /\ PartsInv /\ [Next]_vars => PartsInv'
<1>. SUFFICES ASSUME TypeInv, PartsInv, [Next]_vars PROVE PartsInv'
  OBVIOUS
<1>1. CompletedIsParts'
  <2>1. CASE object' = object
    <3>1. chunks \subseteq chunks'
      BY ChunksGrow
    <3>. QED
      BY <2>1, <3>1 DEF PartsInv, CompletedIsParts
  <2>2. CASE OtherPut \/ OtherDelete
    <3>1. object' = None \/ object'.u = None
      BY <2>2 DEF OtherPut, OtherDelete
    <3>. QED
      BY <3>1 DEF CompletedIsParts
  <2>3. ASSUME NEW w \in Workers, CompleteCommit(w), ~Refuse(w) PROVE CompletedIsParts'
    <3>1. /\ pc[w] = "commit" /\ Uploaded(w) /\ chunks' = chunks
          /\ object'.refs = loc[w].refs /\ object'.of = job[w].parts
      BY <2>3 DEF CompleteCommit
    <3>2. loc[w].refs = ChunkCiphertext(FlattenSeq(Etags(job[w].parts)))
      BY <3>1 DEF PartsInv, ManifestInv, Second
    <3>3. \A r \in ToSet(loc[w].refs) : r.cid \in chunks
      BY <3>1 DEF Uploaded
    <3>. QED
      BY <3>1, <3>2, <3>3, Zenon DEF CompletedIsParts, Etags
  <2>. QED
    BY <2>1, <2>2, <2>3, ObjectStep
<1>2. ASSUME NEW v \in Workers PROVE ManifestInv(v)'
  <2>1. ASSUME pc'[v] = pc[v], job'[v] = job[v], loc'[v] = loc[v] PROVE ManifestInv(v)'
    <3>1. Done(v)' = Done(v)
      BY <2>1 DEF Done
    <3>2. ManifestInv(v)
      BY DEF PartsInv
    <3>. QED
      BY <2>1, <3>1, <3>2, Zenon DEF ManifestInv
  <2>2. ASSUME NEW w \in Workers, Step(w) PROVE ManifestInv(v)'
    <3>1. CASE v = w
      BY <2>2, <3>1, ManifestStep DEF PartsInv
    <3>2. CASE v # w
      BY <2>1, <2>2, <3>2, WorkStep DEF Frame
    <3>. QED
      BY <3>1, <3>2
  <2>3. CASE OtherPut \/ OtherDelete \/ UNCHANGED vars
    BY <2>1, <2>3 DEF OtherPut, OtherDelete, vars
  <2>. QED
    BY <2>2, <2>3 DEF Next
<1>. QED
  BY <1>1, <1>2 DEF PartsInv

(* A completed upload is the parts the client named, in that order, laid   *)
(* out as put_object would lay out the whole, and its chunks are stored,   *)
(* for any parts, sizes of parts and size of a chunk, whatever else is     *)
(* sent, removed or completed meanwhile.                                   *)
THEOREM CompletedIsPartsHolds == Spec => []CompletedIsParts
<1>1. Spec => []TypeInv
  BY TypeInit, TypeNext, PTL DEF Spec
<1>2. Spec => []PartsInv
  BY <1>1, PartsInit, PartsNext, PTL DEF Spec
<1>3. PartsInv => CompletedIsParts
  BY DEF PartsInv
<1>. QED
  BY <1>2, <1>3, PTL
=============================================================================
