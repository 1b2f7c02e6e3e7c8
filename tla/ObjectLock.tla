------------------------------ MODULE ObjectLock ------------------------------
(***************************************************************************)
(* Objects of two buckets of hsp-distribution, their lock records          *)
(* (retention and legal hold), and the requests that replace or remove     *)
(* objects: put_object, delete_object, copy_object and the replication of  *)
(* one bucket into the other.                                              *)
(*                                                                         *)
(* A request that changes an object resolves it, then reads its lock       *)
(* record, and binds or unbinds it much later under the revision it        *)
(* resolved; nothing is held in between.  A request that changes a lock    *)
(* reads the whole record and writes the whole record back.  One step is   *)
(* one access to the store; a bind or unbind of the namespace is taken as  *)
(* one step here (module Namespace looks inside it).                       *)
(*                                                                         *)
(* A lock record is stored under a key made of bucket and key by plain     *)
(* concatenation, so two objects may share one (LockKey).  All operations  *)
(* put the bucket's name into canonical form first, except that a delete   *)
(* looks the lock up under the name as the request has it (raw).           *)
(*                                                                         *)
(* Abstracted: contents are numbered in the order in which they were put;  *)
(* a tombstone and an absent binding, which no operation here tells apart, *)
(* are both None; buckets exist.                                           *)
(***************************************************************************)
EXTENDS Naturals, FiniteSets

CONSTANTS Workers,     \* concurrent request handlers
          NKeys,       \* keys 1..NKeys exist in both buckets
          PageLimit,   \* the limit replication passes to its one listing (10_000)
          Touched,     \* the keys that requests other than replication name
          LockKeys,    \* the store keys of lock records
          LockKey,     \* LockKey[o]: object_lock_store_key of o, in canonical form
          None,        \* absent
          MaxTime,     \* bound on the clock
          MaxRev,      \* bound on revisions and contents
          MaxJobs,     \* bound on requests
          MaxFaults    \* bound on crashes and failed reads

Keys == 1..NKeys
Operations == {"put", "delete", "copy", "retain", "hold", "replicate"}
Places == {"src", "dst"} \X Keys
Modes == {"governance", "compliance"}

\* A binding: its revision and the content it points to.
Version == [rev : 1..MaxRev, cid : 1..MaxRev]
Lock == [hold : BOOLEAN, until : 0..MaxTime, mode : Modes \cup {None}]
NoLock == [hold |-> FALSE, until |-> 0, mode |-> None]
\* raw: the request does not name the bucket in canonical form.
Request == [op : Operations, admin : BOOLEAN, at : Places, raw : BOOLEAN, hold : BOOLEAN,
            until : 0..MaxTime, mode : Modes \cup {None}]

ASSUME LockAssumption ==
  /\ NKeys \in Nat \ {0} /\ PageLimit \in Nat /\ MaxTime \in Nat /\ MaxFaults \in Nat
  /\ MaxJobs \in Nat /\ MaxRev \in Nat /\ NKeys < MaxRev
  /\ Touched \subseteq Keys
  /\ LockKey \in [Places -> LockKeys]
  /\ None \notin Modes \cup Version \cup Request \cup Nat

VARIABLES
  bound,    \* bound[o]: the namespace's current binding of o
  nextRev,  \* the next revision and the next content number
  lock,     \* lock[x]: the lock record at store key x (NoLock: none was written)
  clock,    \* now_ms
  pc,       \* pc[w]: the next step of w's request
  job,      \* job[w]: the request
  seen,     \* seen[w]: the revision w resolved, None when absent
  cid,      \* cid[w]: the content w is going to bind
  rec,      \* rec[w]: the lock record w is going to write
  run,      \* run[w]: the progress of w's replication run
  status,   \* the replication status record
  guarded,  \* history: requests whose object was locked against them all along
  stale,    \* history: lock requests whose record another one wrote since they read it
  jobs, faults

store == <<bound, nextRev, lock, status>>
locals == <<pc, job, seen, cid, rec, run>>
vars == <<store, clock, locals, guarded, stale, jobs, faults>>

(* object_lock_store_key                                                   *)
LockAt(o) == lock[LockKey[o]]

Src(k) == <<"src", k>>
Dst(k) == <<"dst", k>>
NoRun == [todo |-> {}, heads |-> {}, copied |-> {}, failed |-> {}, start |-> {}]

(* Every key of the source was put; an earlier run, if there was one, has  *)
(* copied them all.                                                        *)
Init ==
  /\ \E copied \in {{}, Keys} :
       bound = [o \in Places |-> IF o[1] = "src" \/ o[2] \in copied
                  THEN [rev |-> o[2], cid |-> o[2]] ELSE None]
  /\ nextRev = NKeys + 1
  /\ lock = [x \in LockKeys |-> NoLock]
  /\ status = None
  /\ clock = 0
  /\ pc = [w \in Workers |-> "idle"]
  /\ job = [w \in Workers |-> None]
  /\ seen = [w \in Workers |-> None]
  /\ cid = [w \in Workers |-> None]
  /\ rec = [w \in Workers |-> NoLock]
  /\ run = [w \in Workers |-> NoRun]
  /\ guarded = {} /\ stale = {}
  /\ jobs = 0 /\ faults = 0

-----------------------------------------------------------------------------
Named == {o \in Places : o[2] \in Touched}
Plain(op, adm, o) ==
  [op |-> op, admin |-> adm, at |-> o, raw |-> FALSE, hold |-> FALSE, until |-> 0, mode |-> None]

(* A request passed its scope and bucket checks and goes to work.          *)
Begin(w, r, step) ==
  /\ pc[w] = "idle"
  /\ jobs < MaxJobs
  /\ jobs' = jobs + 1
  /\ job' = [job EXCEPT ![w] = r]
  /\ pc' = [pc EXCEPT ![w] = step]
  /\ UNCHANGED <<store, clock, seen, cid, rec, run, faults>>

(* put_object: profile, bucket, scope; a plaintext payload is encrypted.   *)
BeginPut(w) ==
  \E o \in Named, adm \in BOOLEAN : Begin(w, Plain("put", adm, o), "target")

BeginDelete(w) ==
  \E o \in Named, adm \in BOOLEAN, raw \in BOOLEAN :
    Begin(w, [Plain("delete", adm, o) EXCEPT !.raw = raw], "target")

BeginCopy(w) ==
  \E k \in Touched, adm \in BOOLEAN : Begin(w, Plain("copy", adm, Dst(k)), "source")

(* With a disabled configuration the run only writes its status.           *)
BeginReplication(w) ==
  \E adm \in BOOLEAN, step \in {"list", "status"} :
    Begin(w, Plain("replicate", adm, Dst(1)), step)

BeginRetention(w) ==
  \E o \in Named, adm \in BOOLEAN, t \in 0..MaxTime, md \in Modes \cup {None} :
    Begin(w, [Plain("retain", adm, o) EXCEPT !.until = t, !.mode = md], "lockread")

BeginHold(w) ==
  \E o \in Named, adm \in BOOLEAN, on \in BOOLEAN :
    Begin(w, [Plain("hold", adm, o) EXCEPT !.hold = on], "lockread")

(* A request ends, and its local variables with it.                        *)
End(w) ==
  /\ pc' = [pc EXCEPT ![w] = "idle"]
  /\ job' = [job EXCEPT ![w] = None]
  /\ seen' = [seen EXCEPT ![w] = None]
  /\ cid' = [cid EXCEPT ![w] = None]
  /\ rec' = [rec EXCEPT ![w] = NoLock]
  /\ run' = [run EXCEPT ![w] = NoRun]

(* How a request, or the copy of one key within a run, ends.               *)
Finish(w, ok) ==
  \/ job[w].op # "replicate" /\ End(w)
  \/ /\ job[w].op = "replicate"
     /\ pc' = [pc EXCEPT ![w] = "next"]
     /\ run' = [run EXCEPT
          ![w].copied = IF ok THEN @ \cup {job[w].at[2]} ELSE @,
          ![w].failed = IF ok THEN @ ELSE @ \cup {job[w].at[2]}]
     /\ seen' = [seen EXCEPT ![w] = None]
     /\ cid' = [cid EXCEPT ![w] = None]
     /\ UNCHANGED <<job, rec>>

(* copy_object resolves its source first.                                  *)
CopySource(w) ==
  /\ pc[w] = "source"
  /\ LET from == bound[Src(job[w].at[2])]
     IN \/ from = None /\ Finish(w, FALSE)
        \/ /\ from # None
           /\ cid' = [cid EXCEPT ![w] = from.cid]
           /\ pc' = [pc EXCEPT ![w] = "target"]
           /\ UNCHANGED <<job, seen, rec, run>>
  /\ UNCHANGED <<store, clock, jobs, faults>>

(* The target is resolved.                                                 *)
Resolved(w, r, step) ==
  /\ pc[w] = "target"
  /\ seen' = [seen EXCEPT ![w] = r]
  /\ pc' = [pc EXCEPT ![w] = step]
  /\ UNCHANGED <<store, clock, job, cid, rec, run, jobs>>

Revision(v) == IF v = None THEN None ELSE v.rev

(* put_object takes an error of this access for an absent object (.ok()),  *)
(* and looks at the lock of an existing object only.                       *)
PutResolve(w) ==
  /\ pc[w] = "target" /\ job[w].op = "put"
  /\ LET r == Revision(bound[job[w].at])
     IN Resolved(w, r, IF r = None THEN "bind" ELSE "lock")
  /\ UNCHANGED faults

CopyResolve(w) ==
  /\ pc[w] = "target" /\ job[w].op \in {"copy", "replicate"}
  /\ Resolved(w, Revision(bound[job[w].at]), "lock")
  /\ UNCHANGED faults

ResolveFails(w) ==
  /\ pc[w] = "target" /\ job[w].op # "delete"
  /\ faults < MaxFaults
  /\ faults' = faults + 1
  /\ Resolved(w, None, IF job[w].op = "put" THEN "bind" ELSE "lock")

DeleteResolve(w) ==
  /\ pc[w] = "target" /\ job[w].op = "delete"
  /\ LET here == bound[job[w].at]
     IN \/ here # None /\ Resolved(w, here.rev, "lock")
        \/ here = None /\ Finish(w, FALSE) /\ UNCHANGED <<store, clock, jobs>>
  /\ UNCHANGED faults

(* ensure_object_mutation_unlocked: a legal hold stops everyone, an active *)
(* retention everyone without admin.repair.                                *)
Active(l, now) == now < l.until

Blocks(l, now, admin) == l.hold \/ (Active(l, now) /\ ~admin)

(* delete_object looks the record up under the bucket's name as it came;   *)
(* records are written under canonical names only, so there is none at     *)
(* another spelling.                                                       *)
ByRawName(w) == job[w].op = "delete" /\ job[w].raw
LockSeen(w) == IF ByRawName(w) THEN NoLock ELSE LockAt(job[w].at)

LockCheck(w) ==
  /\ pc[w] = "lock"
  /\ \/ Blocks(LockSeen(w), clock, job[w].admin) /\ Finish(w, FALSE)
     \/ /\ ~Blocks(LockSeen(w), clock, job[w].admin)
        /\ pc' = [pc EXCEPT ![w] = "bind"]
        /\ UNCHANGED <<job, seen, cid, rec, run>>
  /\ UNCHANGED <<store, clock, jobs, faults>>

(* Mutant: without a resolved revision the bind is unconditional.          *)
UnmovedOrUnseen(w) ==
  LET here == bound[job[w].at]
  IN seen[w] = None \/ (here # None /\ here.rev = seen[w])

(* The mutation goes through if the object still has the revision that was *)
(* resolved (if_revision), or is still absent (if_absent).                 *)
Unmoved(w) ==
  LET here == bound[job[w].at]
  IN IF seen[w] = None THEN here = None ELSE here # None /\ here.rev = seen[w]

Mutate(w, v) ==
  /\ pc[w] = "bind"
  /\ \/ /\ Unmoved(w)
        /\ nextRev < MaxRev
        /\ bound' = [bound EXCEPT ![job[w].at] = v]
        /\ nextRev' = nextRev + 1
        /\ Finish(w, TRUE)
     \/ ~Unmoved(w) /\ Finish(w, FALSE) /\ UNCHANGED <<bound, nextRev>>
  /\ UNCHANGED <<lock, status, clock, jobs, faults>>

(* put_object: manifest, put_init, put_chunk, and put_commit with its      *)
(* atomic bind.                                                            *)
PutBind(w) ==
  /\ pc[w] = "bind" /\ job[w].op = "put"
  /\ Mutate(w, [rev |-> nextRev, cid |-> nextRev])

DeleteUnbind(w) == pc[w] = "bind" /\ job[w].op = "delete" /\ Mutate(w, None)

(* Mutant: the revision that was resolved is kept.                         *)
CopyBindSeen(w) ==
  /\ pc[w] = "bind" /\ job[w].op \in {"copy", "replicate"}
  /\ Mutate(w, [rev |-> seen[w], cid |-> cid[w]])

CopyBind(w) ==
  /\ pc[w] = "bind" /\ job[w].op \in {"copy", "replicate"}
  /\ Mutate(w, [rev |-> nextRev, cid |-> cid[w]])

-----------------------------------------------------------------------------
(* ensure_retention_update_allowed                                         *)
RetentionAllowed(l, r, now) ==
  \/ ~Active(l, now)
  \/ r.until >= l.until /\ r.mode = l.mode
  \/ l.mode # "compliance" /\ r.admin

(* put_object_legal_hold: clearing needs admin.repair.                     *)
HoldAllowed(l, r) == (l.hold /\ ~r.hold) => r.admin

(* Both read the record, check the request against it and change their own *)
(* fields of the copy.                                                     *)
LockRead(w, allowed, new) ==
  /\ pc[w] = "lockread"
  /\ \/ /\ allowed
        /\ rec' = [rec EXCEPT ![w] = new]
        /\ pc' = [pc EXCEPT ![w] = "lockwrite"]
        /\ UNCHANGED <<job, seen, cid, run>>
     \/ ~allowed /\ End(w)
  /\ UNCHANGED <<store, clock, jobs, faults>>

(* Mutant: the update starts from an empty record.                         *)
PutObjectRetentionFresh(w) ==
  /\ pc[w] = "lockread" /\ job[w].op = "retain"
  /\ LET l == LockAt(job[w].at)
     IN LockRead(w, RetentionAllowed(l, job[w], clock),
                 [NoLock EXCEPT !.until = job[w].until, !.mode = job[w].mode])

PutObjectRetention(w) ==
  /\ pc[w] = "lockread" /\ job[w].op = "retain"
  /\ LET l == LockAt(job[w].at)
     IN LockRead(w, RetentionAllowed(l, job[w], clock),
                 [l EXCEPT !.until = job[w].until, !.mode = job[w].mode])

PutObjectLegalHold(w) ==
  /\ pc[w] = "lockread" /\ job[w].op = "hold"
  /\ LET l == LockAt(job[w].at)
     IN LockRead(w, HoldAllowed(l, job[w]), [l EXCEPT !.hold = job[w].hold])

LockWrite(w) ==
  /\ pc[w] = "lockwrite"
  /\ lock' = [lock EXCEPT ![LockKey[job[w].at]] = rec[w]]
  /\ End(w)
  /\ UNCHANGED <<bound, nextRev, status, clock, jobs, faults>>

-----------------------------------------------------------------------------
Live == {k \in Keys : bound[Src(k)] # None}

First(n, S) == {k \in S : Cardinality({j \in S : j <= k}) <= n}

(* Mutant: the page ends one key early.                                    *)
PageShort == First(PageLimit - 1, Live)

(* run_replication_once: one page of the source's keys, in order ...       *)
Page == First(PageLimit, Live)

ReplicationList(w) ==
  /\ pc[w] = "list"
  /\ run' = [run EXCEPT ![w] = [NoRun EXCEPT !.todo = Page, !.heads = Page, !.start = Live]]
  /\ pc' = [pc EXCEPT ![w] = "heads"]
  /\ UNCHANGED <<store, clock, job, seen, cid, rec, jobs, faults>>

Least(S) == CHOOSE k \in S : \A j \in S : k <= j

(* ... whose metadata list_objects fetches one by one; a key that is gone  *)
(* by then fails the listing and with it the run ...                       *)
ReplicationHead(w) ==
  /\ pc[w] = "heads"
  /\ \/ /\ run[w].heads = {}
        /\ pc' = [pc EXCEPT ![w] = "next"]
        /\ UNCHANGED <<job, seen, cid, rec, run>>
     \/ /\ run[w].heads # {}
        /\ bound[Src(Least(run[w].heads))] # None
        /\ run' = [run EXCEPT ![w].heads = @ \ {Least(@)}]
        /\ UNCHANGED <<pc, job, seen, cid, rec>>
     \/ /\ run[w].heads # {}
        /\ bound[Src(Least(run[w].heads))] = None
        /\ End(w)
  /\ UNCHANGED <<store, clock, jobs, faults>>

(* ... then copy_object for each of them ...                               *)
ReplicationNext(w) ==
  /\ pc[w] = "next"
  /\ \/ /\ run[w].todo = {}
        /\ pc' = [pc EXCEPT ![w] = "status"]
        /\ UNCHANGED <<job, run>>
     \/ /\ run[w].todo # {}
        /\ job' = [job EXCEPT ![w].at = Dst(Least(run[w].todo))]
        /\ run' = [run EXCEPT ![w].todo = @ \ {Least(@)}]
        /\ pc' = [pc EXCEPT ![w] = "source"]
  /\ UNCHANGED <<store, clock, seen, cid, rec, jobs, faults>>

(* ... and the counts are recorded.                                        *)
ReplicationStatus(w) ==
  /\ pc[w] = "status"
  /\ status' = [copied |-> Cardinality(run[w].copied), failed |-> Cardinality(run[w].failed)]
  /\ End(w)
  /\ UNCHANGED <<bound, nextRev, lock, clock, jobs, faults>>

-----------------------------------------------------------------------------
(* A handler dies, or an access of its request fails with an error that    *)
(* ends the request; within a run it ends the copy of one key.             *)
Fails(w) ==
  /\ pc[w] # "idle"
  /\ faults < MaxFaults
  /\ faults' = faults + 1
  /\ \/ End(w)
     \/ pc[w] \in {"source", "lock", "bind"} /\ job[w].op = "replicate" /\ Finish(w, FALSE)
  /\ UNCHANGED <<store, clock, jobs>>

Tick ==
  /\ clock < MaxTime
  /\ clock' = clock + 1
  /\ UNCHANGED <<store, locals, jobs, faults>>

Step(w) ==
  \/ BeginPut(w) \/ BeginDelete(w) \/ BeginCopy(w)
  \/ BeginReplication(w) \/ BeginRetention(w) \/ BeginHold(w)
  \/ CopySource(w) \/ PutResolve(w) \/ CopyResolve(w) \/ DeleteResolve(w) \/ ResolveFails(w)
  \/ LockCheck(w) \/ PutBind(w) \/ DeleteUnbind(w) \/ CopyBind(w)
  \/ PutObjectRetention(w) \/ PutObjectLegalHold(w) \/ LockWrite(w)
  \/ ReplicationList(w) \/ ReplicationHead(w) \/ ReplicationNext(w) \/ ReplicationStatus(w)
  \/ Fails(w)

(* History: a request on an object that is locked against it when it sets  *)
(* out stays guarded as long as the lock does.                             *)
Working(w) == pc[w] \in {"source", "target", "lock", "bind"}
Guard ==
  guarded' = {w \in Workers :
    /\ Working(w)'
    /\ Working(w) => w \in guarded
    /\ Blocks(lock'[LockKey[job'[w].at]], clock', job'[w].admin)}

(* History: a lock request has read its record and another request wrote   *)
(* the same record since.                                                  *)
Overtake ==
  stale' = {w \in Workers :
    /\ pc[w] = "lockwrite" /\ pc'[w] = "lockwrite"
    /\ w \in stale \/ lock'[LockKey[job[w].at]] # LockAt(job[w].at)}

Next == ((\E w \in Workers : Step(w)) \/ Tick) /\ Guard /\ Overtake

Spec == Init /\ [][Next]_vars

-----------------------------------------------------------------------------
Positions == {"idle", "source", "target", "lock", "bind", "lockread", "lockwrite",
              "list", "heads", "next", "status"}

(* The records and the handlers hold values of these sets.                 *)
TypeOK ==
  /\ bound \in [Places -> Version \cup {None}]
  /\ nextRev \in 1..MaxRev
  /\ lock \in [LockKeys -> Lock]
  /\ clock \in 0..MaxTime
  /\ pc \in [Workers -> Positions]
  /\ job \in [Workers -> Request \cup {None}]
  /\ \A w \in Workers : pc[w] # "idle" => job[w] # None
  /\ seen \in [Workers -> 1..MaxRev \cup {None}]
  /\ cid \in [Workers -> 1..MaxRev \cup {None}]
  /\ rec \in [Workers -> Lock]
  /\ \A w \in Workers : run[w].todo \cup run[w].copied \cup run[w].failed \subseteq Keys
  /\ guarded \in SUBSET Workers /\ stale \in SUBSET Workers

Mutates(w, o) == pc[w] = "bind" /\ pc'[w] # "bind" /\ job[w].at = o /\ bound'[o] # bound[o]

(* A live object that was locked against a request when the request set    *)
(* out, and has been ever since, is not replaced or removed by it: not by  *)
(* put_object that took a failed read for an absent object, not by a copy, *)
(* not by a replication run, not by a delete that names the bucket in      *)
(* canonical form; whatever other object shares the lock record.           *)
LockHonoured ==
  [][\A w \in Workers : \A o \in Places :
       Mutates(w, o) /\ bound[o] # None /\ ~ByRawName(w) => w \notin guarded]_vars

(* The same of every request (CHANGELOG.md:19, "Hardened object lock").    *)
LockAlwaysHonoured ==
  [][\A w \in Workers : \A o \in Places :
       Mutates(w, o) /\ bound[o] # None => w \notin guarded]_vars

Loosened(l, m) == m.until < l.until \/ m.mode # l.mode

(* CHANGELOG.md:20-22: a lock request that wrote the record it had read    *)
(* cleared a legal hold only as an administrator's hold request, and       *)
(* shortened or changed an active retention only as an administrator's     *)
(* retention request, an active compliance retention never; though both    *)
(* kinds share a record that each writes back whole, time passes between   *)
(* read and write, and requests on other objects may share the record.     *)
LockKept ==
  [][\A w \in Workers :
       LET l == LockAt(job[w].at)
           m == lock'[LockKey[job[w].at]]
       IN pc[w] = "lockwrite" /\ pc'[w] # "lockwrite" /\ w \notin stale =>
            /\ l.hold /\ ~m.hold => job[w].op = "hold" /\ job[w].admin
            /\ Active(l, clock) /\ Loosened(l, m)
                 => l.mode # "compliance" /\ job[w].op = "retain" /\ job[w].admin]_vars

(* A run that is about to report no failure has copied every one of the    *)
(* first PageLimit keys that were there when it listed the source,         *)
(* whatever happened to source and destination meanwhile.                  *)
AllCopied ==
  \A w \in Workers : pc[w] = "status" /\ run[w].failed = {} =>
    First(PageLimit, run[w].start) \subseteq run[w].copied
=============================================================================
