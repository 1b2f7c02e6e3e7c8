------------------------- MODULE UploadCommitProofs -------------------------
(***************************************************************************)
(* Proofs about UploadCommit for any objects, chunks, paths, handlers and  *)
(* number of faults.  The argument: the chunk store only grows             *)
(* (StoredStable), so what put_commit found stored before it wrote the     *)
(* manifest is stored in every later state, also for the handlers and      *)
(* records that rely on that manifest.                                     *)
(***************************************************************************)
EXTENDS UploadCommit, TLAPS

AllStored(o) == \A c \in ChunksOf[o] : Stored(c)

(* What a handler's job holds at each of its steps.                        *)
JobInv ==
  \A w \in Workers :
    /\ pc[w] # "idle" => job[w] \in Job
    /\ pc[w] \in ChunkSteps =>
         job[w].chunk \in Chunks /\ job[w].snap \in Session /\ ~job[w].snap.committed
    /\ pc[w] \in CommitSteps => job[w].snap \in Session
    /\ pc[w] \in {"commit_bind", "commit_bind_write", "commit_rollback"} =>
         job[w].snap.bind \in Binds
    /\ pc[w] \in BindSteps => job[w].path \in Paths

(* Everything that stands for a committed object has all chunks stored.    *)
StoredInv ==
  /\ \A w \in Workers :
       pc[w] \in (CommitSteps \ {"commit_check"}) \cup {"bind_write"} =>
         AllStored(job[w].obj)
  /\ \A o \in Objects : manifests[o] # "none" => AllStored(o)
  /\ \A o \in acked : AllStored(o)
  /\ \A p \in Paths : current[p] # None => AllStored(current[p])
  /\ \A o \in Objects : (sessions[o] # None /\ sessions[o].committed) => AllStored(o)

(* An S3 store never shows a part of a chunk or manifest.                  *)
WholeInv ==
  atomic =>
    /\ \A c \in Chunks : chunks[c] # "partial"
    /\ \A o \in Objects : manifests[o] # "partial"
    /\ \A w \in Workers : pc[w] \notin {"chunk_fill", "commit_fill"}

Inv == TypeOK /\ JobInv /\ StoredInv /\ WholeInv

(* The initial states satisfy the inductive invariant.                     *)
LEMMA InitInv == Init => Inv
  BY UploadAssumption
  DEF Init, Inv, TypeOK, JobInv, StoredInv, WholeInv, Contents, NoJob, ChunkSteps,
      CommitSteps, BindSteps, Steps

(* The steps of Next, one by one.                                          *)
LEMMA NextCases ==
  ASSUME [Next]_vars
  PROVE  \/ \E o \in Objects, b \in Binds \cup {None} : PutInit(o, b)
         \/ \E w \in Workers : Request(w)
         \/ \E w \in Workers : ChunkCheck(w) \/ ChunkWrite(w) \/ ChunkFill(w) \/ ChunkSession(w)
         \/ \E w \in Workers : CommitRetry(w) \/ CommitMissingChunk(w) \/ CommitCheck(w)
         \/ \E w \in Workers : CommitWrite(w) \/ CommitFill(w)
         \/ \E w \in Workers : CommitBind(w) \/ CommitBindWrite(w) \/ CommitRollback(w)
         \/ \E w \in Workers : CommitSession(w) \/ CommitIdem(w)
         \/ \E w \in Workers : BindCheck(w) \/ BindWrite(w)
         \/ \E w \in Workers : Fault(w)
         \/ \E p \in Paths : Unbind(p)
         \/ UNCHANGED vars
  BY DEF Next, Step

(* The state stays well-typed and each job fits the step it is at.         *)
LEMMA NextTyped == Inv /\ [Next]_vars => TypeOK' /\ JobInv'
<1>. SUFFICES ASSUME Inv, [Next]_vars PROVE TypeOK' /\ JobInv'
  OBVIOUS
<1>. USE UploadAssumption, NoneIsNoRecord DEF Inv, TypeOK, JobInv, Steps, ChunkSteps, CommitSteps,
         BindSteps, NoJob, Contents, Start, Goto, Return, BindFails, store
<1>1. ASSUME NEW o \in Objects, NEW b \in Binds \cup {None}, PutInit(o, b)
      PROVE  TypeOK' /\ JobInv'
  <2>1. [bind |-> b, committed |-> FALSE] \in Session
    BY DEF Session
  <2>. QED
    BY <1>1, <2>1 DEF PutInit
<1>2. ASSUME NEW w \in Workers, Request(w) PROVE TypeOK' /\ JobInv'
  <2>1. ASSUME NEW o \in Objects, NEW c \in Chunks, PutChunk(w, o, c)
        PROVE  TypeOK' /\ JobInv'
    <3>. DEFINE j == [obj |-> o, chunk |-> c, snap |-> sessions[o], path |-> None]
    <3>1. /\ j \in Job /\ j.chunk \in Chunks /\ j.snap \in Session /\ ~j.snap.committed
          /\ pc' = [pc EXCEPT ![w] = "chunk_check"] /\ job' = [job EXCEPT ![w] = j]
          /\ UNCHANGED <<store, bindFailed, faults>>
      BY <2>1 DEF PutChunk, Job
    <3>. HIDE DEF j
    <3>. QED
      BY <3>1
  <2>2. ASSUME NEW o \in Objects, PutCommit(w, o) PROVE TypeOK' /\ JobInv'
    <3>. DEFINE j == [obj |-> o, chunk |-> None, snap |-> sessions[o], path |-> None]
    <3>1. /\ j \in Job /\ j.snap \in Session
          /\ pc' = [pc EXCEPT ![w] = "commit_check"] /\ job' = [job EXCEPT ![w] = j]
          /\ UNCHANGED <<store, bindFailed, faults>>
      BY <2>2 DEF PutCommit, Job
    <3>. HIDE DEF j
    <3>. QED
      BY <3>1
  <2>3. ASSUME NEW o \in Objects, NEW p \in Paths, Bind(w, o, p) PROVE TypeOK' /\ JobInv'
    <3>. DEFINE j == [obj |-> o, chunk |-> None, snap |-> None, path |-> p]
    <3>1. /\ j \in Job /\ j.path \in Paths
          /\ pc' = [pc EXCEPT ![w] = "bind_check"] /\ job' = [job EXCEPT ![w] = j]
          /\ UNCHANGED <<store, bindFailed, faults>>
      BY <2>3 DEF Bind, Job
    <3>. HIDE DEF j
    <3>. QED
      BY <3>1
  <2>. QED
    BY <1>2, <2>1, <2>2, <2>3 DEF Request
<1>3. ASSUME NEW w \in Workers, ChunkCheck(w) \/ ChunkWrite(w) \/ ChunkFill(w) \/ ChunkSession(w)
      PROVE  TypeOK' /\ JobInv'
  <2>1. CASE ChunkCheck(w)
    BY <2>1 DEF ChunkCheck
  <2>2. CASE ChunkWrite(w)
    BY <2>2 DEF ChunkWrite
  <2>3. CASE ChunkFill(w)
    BY <2>3 DEF ChunkFill
  <2>4. CASE ChunkSession(w)
    BY <2>4 DEF ChunkSession, Job
  <2>. QED
    BY <1>3, <2>1, <2>2, <2>3, <2>4
<1>4. ASSUME NEW w \in Workers, CommitRetry(w) \/ CommitMissingChunk(w) \/ CommitCheck(w)
      PROVE  TypeOK' /\ JobInv'
  BY <1>4 DEF CommitRetry, CommitMissingChunk, CommitCheck
<1>5. ASSUME NEW w \in Workers, CommitWrite(w) \/ CommitFill(w) PROVE TypeOK' /\ JobInv'
  <2>1. job[w].snap.bind # None => job[w].snap.bind \in Binds
    BY <1>5 DEF CommitWrite, CommitFill, Session
  <2>2. job[w].obj \in Objects
    BY <1>5 DEF CommitWrite, CommitFill, Job
  <2>. QED
    BY <1>5, <2>1, <2>2 DEF CommitWrite, CommitFill, AfterManifest
<1>6. ASSUME NEW w \in Workers, CommitBind(w) \/ CommitBindWrite(w) \/ CommitRollback(w)
      PROVE  TypeOK' /\ JobInv'
  <2>1. job[w].obj \in Objects /\ job[w].snap.bind.path \in Paths
    BY <1>6 DEF CommitBind, CommitBindWrite, CommitRollback, Job, Binds
  <2>2. CASE CommitBind(w)
    BY <2>2, <2>1 DEF CommitBind
  <2>3. CASE CommitBindWrite(w)
    BY <2>3, <2>1 DEF CommitBindWrite
  <2>4. CASE CommitRollback(w)
    BY <2>4, <2>1 DEF CommitRollback
  <2>. QED
    BY <1>6, <2>2, <2>3, <2>4
<1>7. ASSUME NEW w \in Workers, CommitSession(w) \/ CommitIdem(w) PROVE TypeOK' /\ JobInv'
  <2>1. job[w].obj \in Objects /\ [bind |-> job[w].snap.bind, committed |-> TRUE] \in Session
    BY <1>7 DEF CommitSession, CommitIdem, Job, Session
  <2>. QED
    BY <1>7, <2>1 DEF CommitSession, CommitIdem
<1>8. ASSUME NEW w \in Workers, BindCheck(w) \/ BindWrite(w) PROVE TypeOK' /\ JobInv'
  <2>1. job[w].obj \in Objects
    BY <1>8 DEF BindCheck, BindWrite, Job
  <2>. QED
    BY <1>8, <2>1 DEF BindCheck, BindWrite
<1>9. ASSUME NEW w \in Workers, Fault(w) PROVE TypeOK' /\ JobInv'
  <2>1. job[w].obj \in Objects
    BY <1>9 DEF Fault, Job
  <2>. QED
    BY <1>9, <2>1 DEF Fault
<1>10. ASSUME NEW p \in Paths, Unbind(p) PROVE TypeOK' /\ JobInv'
  BY <1>10 DEF Unbind
<1>11. CASE UNCHANGED vars
  BY <1>11 DEF vars
<1>. QED
  BY <1>1, <1>2, <1>3, <1>4, <1>5, <1>6, <1>7, <1>8, <1>9, <1>10, <1>11, NextCases

(* The chunk store only grows: no operation removes a chunk.               *)
LEMMA StoredStable ==
  ASSUME Inv, [Next]_vars, NEW c \in Chunks, Stored(c)
  PROVE  Stored(c)'
<1>. USE DEF Inv, TypeOK, Stored
<1>1. CASE \E w \in Workers : ChunkWrite(w) \/ ChunkFill(w)
  BY <1>1 DEF ChunkWrite, ChunkFill
<1>2. CASE UNCHANGED chunks
  BY <1>2
<1>3. (\E w \in Workers : ChunkWrite(w) \/ ChunkFill(w)) \/ UNCHANGED chunks
  BY NextCases
  DEF PutInit, Request, PutChunk, PutCommit, Bind, ChunkCheck, ChunkSession, CommitRetry,
      CommitMissingChunk, CommitCheck, CommitWrite, CommitFill, CommitBind, CommitBindWrite,
      CommitRollback, CommitSession, CommitIdem, BindCheck, BindWrite, Fault, Unbind, store, vars
<1>. QED
  BY <1>1, <1>2, <1>3

(* An object all of whose chunks are stored keeps them.                    *)
LEMMA AllStoredStable ==
  ASSUME Inv, [Next]_vars, NEW o \in Objects, AllStored(o)
  PROVE  AllStored(o)'
<1>1. ChunksOf[o] \subseteq Chunks
  BY UploadAssumption
<1>. QED
  BY <1>1, StoredStable DEF AllStored

(* Nothing stands for an object that lacks a chunk.                        *)
LEMMA NextStored == Inv /\ [Next]_vars => StoredInv'
<1>. SUFFICES ASSUME Inv, [Next]_vars PROVE StoredInv'
  OBVIOUS
<1>a. \A o \in Objects : AllStored(o) => AllStored(o)'
  BY AllStoredStable
<1>b. \A w \in Workers : pc[w] # "idle" => job[w].obj \in Objects
  BY DEF Inv, JobInv, Job
<1>. USE <1>a, <1>b, UploadAssumption, NoneIsNoRecord
     DEF Inv, TypeOK, StoredInv, ChunkSteps, CommitSteps, BindSteps, Steps, Start, Goto, Return, BindFails, store
<1>1. ASSUME NEW o \in Objects, NEW b \in Binds \cup {None}, PutInit(o, b) PROVE StoredInv'
  BY <1>1 DEF PutInit
<1>2. ASSUME NEW w \in Workers, Request(w) PROVE StoredInv'
  <2>1. /\ UNCHANGED store
        /\ \A v \in Workers : v # w => pc'[v] = pc[v] /\ job'[v] = job[v]
        /\ pc'[w] \in {"chunk_check", "commit_check", "bind_check"}
    BY <1>2 DEF Request, PutChunk, PutCommit, Bind
  <2>. QED
    BY <2>1
<1>3. ASSUME NEW w \in Workers, ChunkCheck(w) \/ ChunkWrite(w) \/ ChunkFill(w) PROVE StoredInv'
  <2>1. /\ UNCHANGED <<manifests, sessions, current, acked, job>>
        /\ \A v \in Workers : v # w => pc'[v] = pc[v]
        /\ pc'[w] \in ChunkSteps
    BY <1>3 DEF ChunkCheck, ChunkWrite, ChunkFill
  <2>. QED
    BY <2>1
<1>4. ASSUME NEW w \in Workers, ChunkSession(w) PROVE StoredInv'
  BY <1>4 DEF ChunkSession, JobInv
<1>5. ASSUME NEW w \in Workers, CommitRetry(w) \/ CommitMissingChunk(w) PROVE StoredInv'
  BY <1>5 DEF CommitRetry, CommitMissingChunk
<1>6. ASSUME NEW w \in Workers, CommitCheck(w) PROVE StoredInv'
  BY <1>6 DEF CommitCheck, AllStored
<1>7. ASSUME NEW w \in Workers, CommitWrite(w) \/ CommitFill(w) PROVE StoredInv'
  BY <1>7 DEF CommitWrite, CommitFill, AfterManifest
<1>8. ASSUME NEW w \in Workers, CommitBind(w) PROVE StoredInv'
  BY <1>8 DEF CommitBind
<1>9. ASSUME NEW w \in Workers, CommitBindWrite(w) PROVE StoredInv'
  <2>1. job[w].snap.bind.path \in Paths
    BY <1>9 DEF CommitBindWrite, JobInv, Binds
  <2>. QED
    BY <1>9, <2>1 DEF CommitBindWrite
<1>10. ASSUME NEW w \in Workers, CommitRollback(w) PROVE StoredInv'
  BY <1>10 DEF CommitRollback
<1>11. ASSUME NEW w \in Workers, CommitSession(w) PROVE StoredInv'
  BY <1>11 DEF CommitSession
<1>12. ASSUME NEW w \in Workers, CommitIdem(w) PROVE StoredInv'
  BY <1>12 DEF CommitIdem
<1>13. ASSUME NEW w \in Workers, BindCheck(w) PROVE StoredInv'
  BY <1>13 DEF BindCheck, Readable
<1>14. ASSUME NEW w \in Workers, BindWrite(w) PROVE StoredInv'
  BY <1>14 DEF BindWrite, JobInv
<1>15. ASSUME NEW w \in Workers, Fault(w) PROVE StoredInv'
  BY <1>15 DEF Fault
<1>16. ASSUME NEW p \in Paths, Unbind(p) PROVE StoredInv'
  BY <1>16 DEF Unbind
<1>17. CASE UNCHANGED vars
  BY <1>17 DEF vars
<1>. QED
  BY <1>1, <1>2, <1>3, <1>4, <1>5, <1>6, <1>7, <1>8, <1>9, <1>10, <1>11, <1>12, <1>13, <1>14,
     <1>15, <1>16, <1>17, NextCases

(* The store a service runs on does not change.                            *)
LEMMA AtomicStable == [Next]_vars => atomic' = atomic
  BY NextCases
  DEF PutInit, Request, PutChunk, PutCommit, Bind, ChunkCheck, ChunkWrite, ChunkFill, ChunkSession,
      CommitRetry, CommitMissingChunk, CommitCheck, CommitWrite, CommitFill, CommitBind,
      CommitBindWrite, CommitRollback, CommitSession, CommitIdem, BindCheck, BindWrite, Fault,
      Unbind, store, vars

(* With an S3 store nothing is ever partly written.                        *)
LEMMA NextWhole == Inv /\ [Next]_vars => WholeInv'
<1>. SUFFICES ASSUME Inv, [Next]_vars, atomic PROVE WholeInv'
  BY AtomicStable DEF WholeInv
<1>. USE DEF Inv, TypeOK, WholeInv, Start, Goto, Return, BindFails, store
<1>1. CASE \E o \in Objects, b \in Binds \cup {None} : PutInit(o, b)
  BY <1>1 DEF PutInit
<1>2. CASE \E w \in Workers : Request(w)
  BY <1>2 DEF Request, PutChunk, PutCommit, Bind
<1>3. CASE \E w \in Workers : ChunkCheck(w) \/ ChunkWrite(w) \/ ChunkFill(w) \/ ChunkSession(w)
  BY <1>3 DEF ChunkCheck, ChunkWrite, ChunkFill, ChunkSession
<1>4. CASE \E w \in Workers : CommitRetry(w) \/ CommitMissingChunk(w) \/ CommitCheck(w)
  BY <1>4 DEF CommitRetry, CommitMissingChunk, CommitCheck
<1>5. CASE \E w \in Workers : CommitWrite(w) \/ CommitFill(w)
  BY <1>5 DEF CommitWrite, CommitFill, AfterManifest
<1>6. CASE \E w \in Workers : CommitBind(w) \/ CommitBindWrite(w) \/ CommitRollback(w)
  BY <1>6 DEF CommitBind, CommitBindWrite, CommitRollback
<1>7. CASE \E w \in Workers : CommitSession(w) \/ CommitIdem(w)
  BY <1>7 DEF CommitSession, CommitIdem
<1>8. CASE \E w \in Workers : BindCheck(w) \/ BindWrite(w)
  BY <1>8 DEF BindCheck, BindWrite
<1>9. CASE \E w \in Workers : Fault(w)
  BY <1>9 DEF Fault
<1>10. CASE \E p \in Paths : Unbind(p)
  BY <1>10 DEF Unbind
<1>11. CASE UNCHANGED vars
  BY <1>11 DEF vars
<1>. QED
  BY <1>1, <1>2, <1>3, <1>4, <1>5, <1>6, <1>7, <1>8, <1>9, <1>10, <1>11, NextCases

(* The inductive invariant holds in every reachable state.                 *)
THEOREM Invariant == Spec => []Inv
  BY InitInv, NextTyped, NextStored, NextWhole, PTL DEF Spec, Inv

(* The store and the handlers keep their types.                            *)
THEOREM TypeCorrect == Spec => []TypeOK
  BY Invariant, PTL DEF Inv

(* On either backend, an upload is never stuck between a session that      *)
(* refuses chunks and a commit that misses one.                            *)
THEOREM CommittedNotStuckHolds == Spec => []CommittedNotStuck
<1>1. Inv => CommittedNotStuck
  BY DEF Inv, StoredInv, AllStored, CommittedNotStuck
<1>. QED
  BY Invariant, <1>1, PTL

(* On the S3 backend, an object that can be read is complete, whatever     *)
(* else is uploaded, committed or rolled back at the same time.            *)
THEOREM VisibleCompleteHolds == Spec => []VisibleComplete
<1>1. Inv => VisibleComplete
  BY UploadAssumption
  DEF Inv, TypeOK, StoredInv, WholeInv, AllStored, Stored, Readable, VisibleComplete, Contents
<1>. QED
  BY Invariant, <1>1, PTL

(* On the S3 backend, the data of every bound object is stored.            *)
THEOREM BoundDataStoredHolds == Spec => []BoundDataStored
<1>1. Inv => BoundDataStored
  BY UploadAssumption
  DEF Inv, TypeOK, StoredInv, WholeInv, AllStored, Stored, BoundDataStored, Contents
<1>. QED
  BY Invariant, <1>1, PTL


-----------------------------------------------------------------------------
(***************************************************************************)
(* Only the rollback of a failed atomic bind removes a manifest: what any  *)
(* handler or record takes for granted is readable, or was hidden so.      *)
(***************************************************************************)
Kept(o) == Readable(o) \/ o \in bindFailed

RelyingSteps == {"commit_bind", "commit_bind_write", "commit_session", "commit_idem", "bind_write"}

KeptInv ==
  atomic =>
    /\ \A w \in Workers : pc[w] = "commit_rollback" => job[w].obj \in bindFailed
    /\ \A w \in Workers : pc[w] \in RelyingSteps => Kept(job[w].obj)
    /\ \A o \in acked : Kept(o)
    /\ \A p \in Paths : current[p] # None => Kept(current[p])

(* An object is hidden by a failed bind only.                              *)
LEMMA KeptStable ==
  ASSUME Inv, KeptInv, [Next]_vars, atomic, NEW o \in Objects, Kept(o)
  PROVE  Kept(o)'
<1>. USE DEF Inv, TypeOK, Kept, Readable
<1>1. CASE \E w \in Workers : CommitWrite(w) \/ CommitFill(w)
  BY <1>1 DEF CommitWrite, CommitFill, WholeInv
<1>2. ASSUME NEW w \in Workers, CommitRollback(w) PROVE Kept(o)'
  BY <1>2 DEF CommitRollback, KeptInv
<1>3. CASE \E w \in Workers : CommitBind(w) \/ CommitBindWrite(w) \/ Fault(w)
  BY <1>3 DEF CommitBind, CommitBindWrite, Fault, BindFails, store
<1>4. CASE UNCHANGED <<manifests, bindFailed>>
  BY <1>4
<1>5. \/ \E w \in Workers : CommitWrite(w) \/ CommitFill(w)
      \/ \E w \in Workers : CommitRollback(w)
      \/ \E w \in Workers : CommitBind(w) \/ CommitBindWrite(w) \/ Fault(w)
      \/ UNCHANGED <<manifests, bindFailed>>
  BY NextCases
  DEF PutInit, Request, PutChunk, PutCommit, Bind, ChunkCheck, ChunkWrite, ChunkFill, ChunkSession,
      CommitRetry, CommitMissingChunk, CommitCheck, CommitSession, CommitIdem, BindCheck, BindWrite,
      Unbind, store, vars
<1>. QED
  BY <1>1, <1>2, <1>3, <1>4, <1>5

(* KeptInv is inductive.                                                   *)
LEMMA NextKept == Inv /\ KeptInv /\ [Next]_vars => KeptInv'
<1>. SUFFICES ASSUME Inv, KeptInv, [Next]_vars, atomic PROVE KeptInv'
  BY AtomicStable DEF KeptInv
<1>a. \A o \in Objects : Kept(o) => Kept(o)'
  BY KeptStable
<1>b. \A w \in Workers : pc[w] # "idle" => job[w].obj \in Objects
  BY DEF Inv, JobInv, Job
<1>. USE <1>a, <1>b, UploadAssumption
     DEF Inv, TypeOK, KeptInv, RelyingSteps, Start, Goto, Return, BindFails, store
<1>1. CASE \E o \in Objects, b \in Binds \cup {None} : PutInit(o, b)
  BY <1>1 DEF PutInit
<1>2. ASSUME NEW w \in Workers, Request(w) PROVE KeptInv'
  <2>1. /\ UNCHANGED <<acked, current, bindFailed>>
        /\ \A v \in Workers : v # w => pc'[v] = pc[v] /\ job'[v] = job[v]
        /\ pc'[w] \in {"chunk_check", "commit_check", "bind_check"}
    BY <1>2 DEF Request, PutChunk, PutCommit, Bind
  <2>. QED
    BY <2>1
<1>3. CASE \E w \in Workers : ChunkCheck(w) \/ ChunkWrite(w) \/ ChunkFill(w) \/ ChunkSession(w)
  BY <1>3 DEF ChunkCheck, ChunkWrite, ChunkFill, ChunkSession
<1>4. CASE \E w \in Workers : CommitRetry(w) \/ CommitMissingChunk(w) \/ CommitCheck(w)
  BY <1>4 DEF CommitRetry, CommitMissingChunk, CommitCheck
<1>5. ASSUME NEW w \in Workers, CommitWrite(w) \/ CommitFill(w) PROVE KeptInv'
  <2>1. Kept(job[w].obj)'
    BY <1>5 DEF CommitWrite, CommitFill, Kept, Readable
  <2>. QED
    BY <1>5, <2>1 DEF CommitWrite, CommitFill, AfterManifest
<1>6. ASSUME NEW w \in Workers, CommitBind(w) PROVE KeptInv'
  BY <1>6 DEF CommitBind
<1>7. ASSUME NEW w \in Workers, CommitBindWrite(w) PROVE KeptInv'
  <2>1. job[w].snap.bind.path \in Paths
    BY <1>7 DEF CommitBindWrite, JobInv, Binds
  <2>. QED
    BY <1>7, <2>1 DEF CommitBindWrite
<1>8. ASSUME NEW w \in Workers, CommitRollback(w) PROVE KeptInv'
  BY <1>8 DEF CommitRollback
<1>9. CASE \E w \in Workers : CommitSession(w) \/ CommitIdem(w)
  BY <1>9 DEF CommitSession, CommitIdem
<1>10. ASSUME NEW w \in Workers, BindCheck(w) \/ BindWrite(w) PROVE KeptInv'
  <2>1. CASE BindCheck(w)
    BY <2>1 DEF BindCheck, Kept
  <2>2. CASE BindWrite(w)
    BY <2>2 DEF BindWrite, JobInv, BindSteps
  <2>. QED
    BY <1>10, <2>1, <2>2
<1>11. ASSUME NEW w \in Workers, Fault(w) PROVE KeptInv'
  BY <1>11 DEF Fault
<1>12. CASE \E p \in Paths : Unbind(p)
  BY <1>12 DEF Unbind
<1>13. CASE UNCHANGED vars
  BY <1>13 DEF vars
<1>. QED
  BY <1>1, <1>2, <1>3, <1>4, <1>5, <1>6, <1>7, <1>8, <1>9, <1>10, <1>11, <1>12, <1>13, NextCases

(* On the S3 backend, what was acknowledged or bound can be read unless a  *)
(* commit of it failed in its atomic bind.                                 *)
THEOREM HiddenByFailedBindHolds == Spec => []HiddenByFailedBind
<1>1. Init => KeptInv
  BY DEF Init, KeptInv, RelyingSteps
<1>2. Inv /\ KeptInv => HiddenByFailedBind
  BY UploadAssumption DEF Inv, TypeOK, KeptInv, Kept, HiddenByFailedBind
<1>. QED
  BY <1>1, <1>2, NextKept, Invariant, PTL DEF Spec
=============================================================================
