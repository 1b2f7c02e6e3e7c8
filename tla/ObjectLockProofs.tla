-------------------------- MODULE ObjectLockProofs --------------------------
(***************************************************************************)
(* Proofs about ObjectLock for any handlers, keys, clock and number of     *)
(* faults.                                                                 *)
(*                                                                         *)
(* That a lock is honoured needs no assumption about the deployment: a     *)
(* request that was locked out all along never passes its lock check, so   *)
(* it can only reach the bind without having seen an object, and then the  *)
(* bind is conditional on there being none (GuardInv); only a delete by a  *)
(* raw bucket name gets past.  A lock request whose record nobody else has *)
(* written since it read it writes the stored record with its own fields   *)
(* changed, and the check it made still holds (LockInv).  A run accounts   *)
(* for every key of its one page (CopyInv).                                *)
(***************************************************************************)
EXTENDS ObjectLock, FiniteSetTheorems, WellFoundedInduction, TLAPS

Run == [todo : SUBSET Keys, heads : SUBSET Keys, copied : SUBSET Keys, failed : SUBSET Keys,
        start : SUBSET Keys]

StoreInv ==
  /\ bound \in [Places -> Version \cup {None}]
  /\ nextRev \in 1..MaxRev
  /\ lock \in [LockKeys -> Lock]
  /\ clock \in 0..MaxTime

(* What a request holds at each of its steps.                              *)
LocalInv ==
  /\ pc \in [Workers -> Positions]
  /\ job \in [Workers -> Request \cup {None}]
  /\ seen \in [Workers -> 1..MaxRev \cup {None}]
  /\ cid \in [Workers -> 1..MaxRev \cup {None}]
  /\ rec \in [Workers -> Lock]
  /\ run \in [Workers -> Run]
  /\ \A w \in Workers :
       /\ pc[w] # "idle" => job[w] \in Request
       /\ pc[w] = "idle" => run[w] = NoRun
       /\ pc[w] = "source" => job[w].op \in {"copy", "replicate"}
       /\ Working(w) => job[w].op \in {"put", "delete", "copy", "replicate"}
       /\ pc[w] \in {"target", "lock", "bind"} /\ job[w].op \in {"copy", "replicate"}
            => cid[w] \in 1..MaxRev
       /\ pc[w] \in {"lockread", "lockwrite"} => job[w].op \in {"retain", "hold"}
       /\ pc[w] \in {"list", "heads", "next", "status"} => job[w].op = "replicate"

TypeInv == StoreInv /\ LocalInv /\ guarded \in SUBSET Workers /\ stale \in SUBSET Workers

(* The type invariant of the module is part of it.                         *)
LEMMA TypeInvTyped == TypeInv => TypeOK
  BY LockAssumption DEF TypeInv, StoreInv, LocalInv, TypeOK, Run

(* A run that has copied nothing yet.                                      *)
LEMMA NoRunTyped == NoRun \in Run /\ NoLock \in Lock
  BY LockAssumption DEF NoRun, Run, NoLock, Lock

(* The initial states are well-typed.                                      *)
LEMMA InitTyped == Init => TypeInv
<1>. SUFFICES ASSUME Init PROVE TypeInv
  OBVIOUS
<1>1. bound \in [Places -> Version \cup {None}]
  <2>1. PICK c \in {{}, Keys} :
          bound = [o \in Places |-> IF o[1] = "src" \/ o[2] \in c
                     THEN [rev |-> o[2], cid |-> o[2]] ELSE None]
    BY DEF Init
  <2>2. \A o \in Places : o[2] \in 1..MaxRev
    BY LockAssumption DEF Places, Keys
  <2>. QED
    BY <2>1, <2>2 DEF Version
<1>2. StoreInv
  BY <1>1, LockAssumption, NoRunTyped DEF Init, StoreInv
<1>3. LocalInv
  BY LockAssumption, NoRunTyped DEF Init, LocalInv, Positions, Working
<1>. QED
  BY <1>2, <1>3 DEF TypeInv, Init

(* The least key of a set is one of its members.                           *)
LEMMA LeastMember ==
  ASSUME NEW S \in SUBSET Nat, S # {}
  PROVE  Least(S) \in S
<1>1. IsWellFoundedOn(OpToRel(<, Nat), Nat)
  BY NatLessThanWellFounded, Zenon
<1>2. PICK x \in S : \A y \in S : ~(<<y, x>> \in OpToRel(<, Nat))
  BY <1>1, WFMin, Zenon
<1>3. \A y \in S : ~(y < x)
  BY <1>2 DEF OpToRel
<1>4. \A y \in S : x <= y
  BY <1>3
<1>. QED
  BY <1>4 DEF Least

(* A request that ends leaves its worker idle.                             *)
LEMMA EndLocal ==
  ASSUME LocalInv, NEW w \in Workers, End(w)
  PROVE  LocalInv'
  BY NoRunTyped, LockAssumption DEF LocalInv, End, Positions, Working

(* So does the end of a copy, unless it is one of a run.                   *)
LEMMA FinishLocal ==
  ASSUME LocalInv, NEW w \in Workers, pc[w] # "idle", NEW ok \in BOOLEAN, Finish(w, ok)
  PROVE  LocalInv'
<1>1. CASE End(w)
  BY <1>1, EndLocal
<1>2. CASE ~End(w)
  <2>1. /\ job[w].op = "replicate"
        /\ pc' = [pc EXCEPT ![w] = "next"]
        /\ run' = [run EXCEPT
             ![w].copied = IF ok THEN @ \cup {job[w].at[2]} ELSE @,
             ![w].failed = IF ok THEN @ ELSE @ \cup {job[w].at[2]}]
        /\ seen' = [seen EXCEPT ![w] = None]
        /\ cid' = [cid EXCEPT ![w] = None]
        /\ UNCHANGED <<job, rec>>
    BY <1>2 DEF Finish
  <2>2. job[w].at[2] \in Keys
    BY DEF LocalInv, Request, Places
  <2>. DEFINE r == [run[w] EXCEPT
                      !.copied = IF ok THEN @ \cup {job[w].at[2]} ELSE @,
                      !.failed = IF ok THEN @ ELSE @ \cup {job[w].at[2]}]
  <2>3. run' = [run EXCEPT ![w] = r] /\ r \in Run /\ run' \in [Workers -> Run]
    <3>1. run[w] \in Run
      BY DEF LocalInv
    <3>2. r \in Run
      BY <2>2, <3>1 DEF Run
    <3>3. run' = [run EXCEPT ![w] = r]
      BY <2>1
    <3>. QED
      BY <3>2, <3>3 DEF LocalInv
  <2>4. \A v \in Workers : v # w => run'[v] = run[v]
    BY <2>1 DEF LocalInv
  <2>. QED
    BY <2>1, <2>3, <2>4 DEF LocalInv, Positions, Working
<1>. QED
  BY <1>1, <1>2

(* The operations, each with the steps it can start with.                  *)
Starts == {<<"put", "target">>, <<"delete", "target">>, <<"copy", "source">>,
           <<"replicate", "list">>, <<"replicate", "status">>,
           <<"retain", "lockread">>, <<"hold", "lockread">>}

(* A request without fields of its own.                                    *)
LEMMA PlainTyped ==
  ASSUME NEW op \in Operations, NEW adm \in BOOLEAN, NEW o \in Places
  PROVE  Plain(op, adm, o) \in Request /\ Plain(op, adm, o).op = op
  BY LockAssumption DEF Plain, Request

(* Retention requests set two fields ...                                   *)
LEMMA RetainTyped ==
  ASSUME NEW r \in Request, NEW t \in 0..MaxTime, NEW md \in Modes \cup {None}
  PROVE  /\ [r EXCEPT !.until = t, !.mode = md] \in Request
         /\ [r EXCEPT !.until = t, !.mode = md].op = r.op
<1>. DEFINE q == [r EXCEPT !.until = t]
<1>1. [r EXCEPT !.until = t, !.mode = md] = [q EXCEPT !.mode = md]
  OBVIOUS
<1>2. q \in Request /\ q.op = r.op
  BY DEF Request
<1>. HIDE DEF q
<1>3. [q EXCEPT !.mode = md] \in Request /\ [q EXCEPT !.mode = md].op = q.op
  BY <1>2 DEF Request
<1>. QED
  BY <1>1, <1>2, <1>3

(* ... and hold requests another.                                          *)
LEMMA HoldTyped ==
  ASSUME NEW r \in Request, NEW on \in BOOLEAN
  PROVE  [r EXCEPT !.hold = on] \in Request /\ [r EXCEPT !.hold = on].op = r.op
  BY DEF Request

(* Deletes may name their bucket in another form.                          *)
LEMMA RawTyped ==
  ASSUME NEW r \in Request, NEW raw \in BOOLEAN
  PROVE  [r EXCEPT !.raw = raw] \in Request /\ [r EXCEPT !.raw = raw].op = r.op
  BY DEF Request

(* An admitted request is at its first step.                               *)
LEMMA BeginLocal ==
  ASSUME LocalInv, NEW w \in Workers, NEW r \in Request, NEW step, <<r.op, step>> \in Starts,
         Begin(w, r, step)
  PROVE  LocalInv'
<1>2. /\ pc[w] = "idle" /\ job' = [job EXCEPT ![w] = r] /\ pc' = [pc EXCEPT ![w] = step]
      /\ UNCHANGED <<seen, cid, rec, run>>
  BY DEF Begin
<1>3. /\ step \in {"target", "source", "list", "status", "lockread"}
      /\ step = "target" => r.op \in {"put", "delete"}
      /\ step = "source" => r.op = "copy"
      /\ step \in {"list", "status"} => r.op = "replicate"
      /\ step = "lockread" => r.op \in {"retain", "hold"}
  BY DEF Starts
<1>. QED
  BY <1>2, <1>3 DEF LocalInv, Positions, Working

(* Every admission leaves its worker well-typed.                           *)
LEMMA BeginsLocal ==
  ASSUME LocalInv, NEW w \in Workers,
         \/ BeginPut(w) \/ BeginDelete(w) \/ BeginCopy(w)
         \/ BeginReplication(w) \/ BeginRetention(w) \/ BeginHold(w)
  PROVE  LocalInv'
<1>. USE DEF Operations, Starts
<1>1. /\ Named \subseteq Places /\ (\A k \in Touched : Dst(k) \in Places) /\ Dst(1) \in Places
  BY LockAssumption DEF Named, Places, Dst, Keys
<1>2. CASE BeginPut(w)
  <2>1. PICK o \in Named, adm \in BOOLEAN : Begin(w, Plain("put", adm, o), "target")
    BY <1>2 DEF BeginPut
  <2>2. Plain("put", adm, o) \in Request /\ Plain("put", adm, o).op = "put"
    BY <1>1, PlainTyped
  <2>. QED
    BY <2>1, <2>2, BeginLocal
<1>3. CASE BeginDelete(w)
  <2>1. PICK o \in Named, adm \in BOOLEAN, raw \in BOOLEAN :
          Begin(w, [Plain("delete", adm, o) EXCEPT !.raw = raw], "target")
    BY <1>3 DEF BeginDelete
  <2>. DEFINE r == [Plain("delete", adm, o) EXCEPT !.raw = raw]
  <2>2. r \in Request /\ r.op = "delete"
    BY <1>1, PlainTyped, RawTyped
  <2>. HIDE DEF r
  <2>3. Begin(w, r, "target")
    BY <2>1 DEF r
  <2>. QED
    BY <2>2, <2>3, BeginLocal
<1>4. CASE BeginCopy(w)
  <2>1. PICK k \in Touched, adm \in BOOLEAN : Begin(w, Plain("copy", adm, Dst(k)), "source")
    BY <1>4 DEF BeginCopy
  <2>2. Plain("copy", adm, Dst(k)) \in Request /\ Plain("copy", adm, Dst(k)).op = "copy"
    BY <1>1, PlainTyped
  <2>. QED
    BY <2>1, <2>2, BeginLocal
<1>5. CASE BeginReplication(w)
  <2>1. PICK adm \in BOOLEAN, step \in {"list", "status"} :
          Begin(w, Plain("replicate", adm, Dst(1)), step)
    BY <1>5 DEF BeginReplication
  <2>2. /\ Plain("replicate", adm, Dst(1)) \in Request
        /\ Plain("replicate", adm, Dst(1)).op = "replicate"
    BY <1>1, PlainTyped
  <2>. QED
    BY <2>1, <2>2, BeginLocal
<1>6. CASE BeginRetention(w)
  <2>1. PICK o \in Named, adm \in BOOLEAN, t \in 0..MaxTime, md \in Modes \cup {None} :
          Begin(w, [Plain("retain", adm, o) EXCEPT !.until = t, !.mode = md], "lockread")
    BY <1>6 DEF BeginRetention
  <2>. DEFINE p == Plain("retain", adm, o)
              r == [p EXCEPT !.until = t, !.mode = md]
  <2>2. p \in Request /\ p.op = "retain"
    BY <1>1, PlainTyped
  <2>. HIDE DEF p
  <2>3. r \in Request /\ r.op = "retain"
    BY <2>2, RetainTyped, Zenon
  <2>. HIDE DEF r
  <2>4. Begin(w, r, "lockread")
    BY <2>1 DEF p, r
  <2>. QED
    BY <2>3, <2>4, BeginLocal
<1>7. CASE BeginHold(w)
  <2>1. PICK o \in Named, adm \in BOOLEAN, on \in BOOLEAN :
          Begin(w, [Plain("hold", adm, o) EXCEPT !.hold = on], "lockread")
    BY <1>7 DEF BeginHold
  <2>. DEFINE r == [Plain("hold", adm, o) EXCEPT !.hold = on]
  <2>2. r \in Request /\ r.op = "hold"
    BY <1>1, PlainTyped, HoldTyped
  <2>. HIDE DEF r
  <2>3. Begin(w, r, "lockread")
    BY <2>1 DEF r
  <2>. QED
    BY <2>2, <2>3, BeginLocal
<1>. QED
  BY <1>2, <1>3, <1>4, <1>5, <1>6, <1>7

(* The steps of a put, a delete or a copy.                                 *)
LEMMA WorkLocal ==
  ASSUME StoreInv, LocalInv, NEW w \in Workers,
         \/ CopySource(w) \/ PutResolve(w) \/ CopyResolve(w) \/ DeleteResolve(w)
         \/ ResolveFails(w) \/ LockCheck(w)
         \/ PutBind(w) \/ DeleteUnbind(w) \/ CopyBind(w)
  PROVE  LocalInv'
<1>1. job[w] \in Request /\ pc[w] # "idle" /\ job[w].at \in Places
  <2>1. pc[w] # "idle"
    BY DEF CopySource, PutResolve, CopyResolve, DeleteResolve, ResolveFails, LockCheck,
           PutBind, DeleteUnbind, CopyBind
  <2>. QED
    BY <2>1 DEF LocalInv, Request
<1>2. ASSUME NEW r \in 1..MaxRev \cup {None}, NEW step \in {"lock", "bind"},
             Resolved(w, r, step)
      PROVE  LocalInv'
  BY <1>2 DEF LocalInv, Resolved, Positions, Working
<1>3. ASSUME NEW o \in Places
      PROVE  /\ Revision(bound[o]) \in 1..MaxRev \cup {None}
             /\ bound[o] # None => bound[o].rev \in 1..MaxRev
  BY DEF StoreInv, Revision, Version
<1>4. CASE CopySource(w)
  <2>1. Src(job[w].at[2]) \in Places
    BY <1>1 DEF Src, Places
  <2>2. CASE Finish(w, FALSE)
    BY <1>1, <2>2, FinishLocal
  <2>3. CASE ~Finish(w, FALSE)
    <3>1. bound[Src(job[w].at[2])].cid \in 1..MaxRev
      BY <1>4, <2>1, <2>3 DEF CopySource, StoreInv, Version
    <3>. QED
      BY <1>4, <2>3, <3>1, ZenonT(60) DEF CopySource, LocalInv, Positions, Working
  <2>. QED
    BY <2>2, <2>3
<1>5. CASE PutResolve(w)
  <2>1. Revision(bound[job[w].at]) \in 1..MaxRev \cup {None}
    BY <1>1, <1>3
  <2>2. Resolved(w, Revision(bound[job[w].at]), "lock")
          \/ Resolved(w, Revision(bound[job[w].at]), "bind")
    BY <1>5 DEF PutResolve
  <2>. QED
    BY <1>2, <2>1, <2>2
<1>6. CASE CopyResolve(w)
  <2>1. Revision(bound[job[w].at]) \in 1..MaxRev \cup {None}
    BY <1>1, <1>3
  <2>2. Resolved(w, Revision(bound[job[w].at]), "lock")
    BY <1>6 DEF CopyResolve
  <2>. QED
    BY <1>2, <2>1, <2>2
<1>7. CASE ResolveFails(w)
  BY <1>1, <1>2, <1>3, <1>7 DEF ResolveFails
<1>8. CASE DeleteResolve(w)
  <2>1. CASE Finish(w, FALSE)
    BY <1>1, <2>1, FinishLocal
  <2>2. CASE ~Finish(w, FALSE)
    <3>1. bound[job[w].at].rev \in 1..MaxRev /\ Resolved(w, bound[job[w].at].rev, "lock")
      BY <1>1, <1>3, <1>8, <2>2 DEF DeleteResolve
    <3>. QED
      BY <1>2, <3>1
  <2>. QED
    BY <2>1, <2>2
<1>9. CASE LockCheck(w)
  <2>1. CASE Finish(w, FALSE)
    BY <1>1, <2>1, FinishLocal
  <2>2. CASE ~Finish(w, FALSE)
    BY <1>9, <2>2 DEF LockCheck, LocalInv, Positions, Working
  <2>. QED
    BY <2>1, <2>2
<1>10. CASE PutBind(w) \/ DeleteUnbind(w) \/ CopyBind(w)
  BY <1>1, <1>10, FinishLocal DEF PutBind, DeleteUnbind, CopyBind, Mutate
<1>. QED
  BY <1>4, <1>5, <1>6, <1>7, <1>8, <1>9, <1>10

(* The record a lock request is about to write is a lock record.           *)
LEMMA LockLocal ==
  ASSUME StoreInv, LocalInv, NEW w \in Workers,
         PutObjectRetention(w) \/ PutObjectLegalHold(w) \/ LockWrite(w)
  PROVE  LocalInv'
<1>1. CASE End(w)
  BY <1>1, EndLocal
<1>2. CASE ~End(w)
  <2>1. job[w] \in Request /\ LockAt(job[w].at) \in Lock /\ pc[w] = "lockread"
    BY <1>2, LockAssumption
    DEF StoreInv, LocalInv, Request, LockAt, PutObjectRetention, PutObjectLegalHold, LockWrite
  <2>. DEFINE l == LockAt(job[w].at)
  <2>2. /\ [l EXCEPT !.until = job[w].until, !.mode = job[w].mode] \in Lock
        /\ [l EXCEPT !.hold = job[w].hold] \in Lock
    BY <2>1 DEF Lock, Request
  <2>3. \E new \in Lock : rec' = [rec EXCEPT ![w] = new]
    BY <1>2, <2>2 DEF PutObjectRetention, PutObjectLegalHold, LockWrite, LockRead
  <2>4. pc' = [pc EXCEPT ![w] = "lockwrite"] /\ UNCHANGED <<job, seen, cid, run>>
    BY <1>2 DEF PutObjectRetention, PutObjectLegalHold, LockWrite, LockRead
  <2>. QED
    BY <2>1, <2>3, <2>4 DEF LocalInv, Positions, Working
<1>. QED
  BY <1>1, <1>2

(* What a listing returns are keys.                                        *)
LEMMA PageKeys == Page \subseteq Keys /\ Live \subseteq Keys
  BY DEF Page, First, Live

(* A run that has listed its source.                                       *)
Listed == [todo |-> Page, heads |-> Page, copied |-> {}, failed |-> {},
           start |-> Live]

(* The listing starts a run.                                               *)
LEMMA ListRun ==
  ASSUME NEW w \in Workers, ReplicationList(w)
  PROVE  run' = [run EXCEPT ![w] = Listed]
<1>. DEFINE a == [NoRun EXCEPT !.todo = Page]
            b == [a EXCEPT !.heads = Page]
            c == [b EXCEPT !.start = Live]
<1>1. a = [todo |-> Page, heads |-> {}, copied |-> {}, failed |-> {}, start |-> {}]
  BY DEF NoRun
<1>2. [NoRun EXCEPT !.todo = Page, !.heads = Page, !.start = Live] = c
  OBVIOUS
<1>. HIDE DEF a
<1>3. b = [todo |-> Page, heads |-> Page, copied |-> {}, failed |-> {}, start |-> {}]
  BY <1>1
<1>. HIDE DEF b
<1>4. c = Listed
  BY <1>3 DEF Listed
<1>. QED
  BY <1>2, <1>4 DEF a, b, ReplicationList

(* A run keeps to the keys of its listing.                                 *)
LEMMA RunLocal ==
  ASSUME StoreInv, LocalInv, NEW w \in Workers,
         \/ ReplicationList(w) \/ ReplicationHead(w) \/ ReplicationNext(w)
         \/ ReplicationStatus(w)
  PROVE  LocalInv'
<1>. USE DEF Positions, Working
<1>1. run[w] \in Run /\ Keys \subseteq Nat
  BY DEF LocalInv, Keys
<1>2. CASE End(w)
  BY <1>2, EndLocal
<1>3. CASE ReplicationList(w)
  <2>1. run' = [run EXCEPT ![w] = Listed]
    BY <1>3, ListRun
  <2>2. Listed \in Run
    BY PageKeys DEF Run, Listed
  <2>. QED
    BY <1>3, <2>1, <2>2 DEF ReplicationList, LocalInv
<1>4. CASE ReplicationHead(w) /\ ~End(w)
  <2>. DEFINE r == [run[w] EXCEPT !.heads = @ \ {Least(@)}]
  <2>1. r \in Run
    BY <1>1 DEF Run
  <2>2. CASE run' = run
    BY <1>4, <2>2 DEF ReplicationHead, LocalInv
  <2>3. CASE run' # run
    <3>1. run' = [run EXCEPT ![w] = r] /\ UNCHANGED <<pc, job, seen, cid, rec>> /\ pc[w] = "heads"
      BY <1>4, <2>3 DEF ReplicationHead
    <3>. HIDE DEF r
    <3>. QED
      BY <2>1, <3>1 DEF LocalInv
  <2>. QED
    BY <2>2, <2>3
<1>5. CASE ReplicationNext(w)
  <2>1. CASE run[w].todo = {}
    BY <1>5, <2>1 DEF ReplicationNext, LocalInv
  <2>2. CASE run[w].todo # {}
    <3>. DEFINE r == [run[w] EXCEPT !.todo = @ \ {Least(@)}]
                j == [job[w] EXCEPT !.at = Dst(Least(run[w].todo))]
    <3>1. r \in Run
      BY <1>1 DEF Run
    <3>2. Least(run[w].todo) \in Keys
      BY <1>1, <2>2, LeastMember DEF Run
    <3>3. Dst(Least(run[w].todo)) \in Places
      BY <3>2 DEF Dst, Places
    <3>4. job[w] \in Request /\ job[w].op = "replicate"
      BY <1>5 DEF ReplicationNext, LocalInv
    <3>5. j \in Request /\ j.op = "replicate"
      BY <3>3, <3>4 DEF Request
    <3>6. /\ run' = [run EXCEPT ![w] = r] /\ job' = [job EXCEPT ![w] = j]
          /\ pc' = [pc EXCEPT ![w] = "source"] /\ UNCHANGED <<seen, cid, rec>>
      BY <1>5, <2>2 DEF ReplicationNext
    <3>. HIDE DEF r, j
    <3>. QED
      BY <3>1, <3>5, <3>6 DEF LocalInv
  <2>. QED
    BY <2>1, <2>2
<1>. QED
  BY <1>2, <1>3, <1>4, <1>5 DEF ReplicationStatus

(* A failure ends the request or the copy of one key.                      *)
LEMMA FailsLocal ==
  ASSUME LocalInv, NEW w \in Workers, Fails(w)
  PROVE  LocalInv'
  BY EndLocal, FinishLocal DEF Fails

(* Every step keeps the stored records in their types.                     *)
LEMMA StepStore ==
  ASSUME StoreInv, LocalInv, NEW w \in Workers, Step(w)
  PROVE  StoreInv'
<1>. USE DEF StoreInv
<1>1. ASSUME NEW v \in Version \cup {None}, Mutate(w, v) PROVE StoreInv'
  <2>1. CASE UNCHANGED <<bound, nextRev>>
    BY <1>1, <2>1 DEF Mutate
  <2>2. CASE ~UNCHANGED <<bound, nextRev>>
    <3>1. /\ bound' = [bound EXCEPT ![job[w].at] = v]
          /\ nextRev < MaxRev /\ nextRev' = nextRev + 1 /\ lock' = lock /\ clock' = clock
      BY <1>1, <2>2 DEF Mutate
    <3>2. nextRev + 1 \in 1..MaxRev
      BY <3>1, LockAssumption
    <3>. QED
      BY <3>1, <3>2
  <2>. QED
    BY <2>1, <2>2
<1>2. CASE PutBind(w)
  <2>1. [rev |-> nextRev, cid |-> nextRev] \in Version
    BY DEF Version
  <2>. QED
    BY <1>1, <1>2, <2>1 DEF PutBind
<1>3. CASE DeleteUnbind(w)
  BY <1>1, <1>3 DEF DeleteUnbind
<1>4. CASE CopyBind(w)
  <2>1. cid[w] \in 1..MaxRev
    BY <1>4 DEF CopyBind, LocalInv
  <2>2. [rev |-> nextRev, cid |-> cid[w]] \in Version
    BY <2>1 DEF Version
  <2>. QED
    BY <1>1, <1>4, <2>2 DEF CopyBind
<1>5. CASE LockWrite(w)
  <2>1. rec[w] \in Lock
    BY DEF LocalInv
  <2>. QED
    BY <1>5, <2>1 DEF LockWrite
<1>6. CASE UNCHANGED <<bound, nextRev, lock, clock>>
  BY <1>6
<1>. QED
  BY <1>2, <1>3, <1>4, <1>5, <1>6
  DEF Step, BeginPut, BeginDelete, BeginCopy, BeginReplication, BeginRetention, BeginHold, Begin,
      CopySource, PutResolve, CopyResolve, DeleteResolve, ResolveFails, Resolved, LockCheck,
      PutObjectRetention, PutObjectLegalHold, LockRead, ReplicationList, ReplicationHead,
      ReplicationNext, ReplicationStatus, Fails, store

(* Every step of the system keeps the types.                               *)
LEMMA NextTyped == TypeInv /\ [Next]_vars => TypeInv'
<1>. SUFFICES ASSUME TypeInv, [Next]_vars PROVE TypeInv'
  OBVIOUS
<1>. USE DEF TypeInv
<1>1. ASSUME NEW w \in Workers, Step(w), Guard, Overtake PROVE TypeInv'
  <2>1. LocalInv'
    BY <1>1, BeginsLocal, WorkLocal, LockLocal, RunLocal, FailsLocal DEF Step
  <2>. QED
    BY <1>1, <2>1, StepStore DEF Guard, Overtake
<1>2. ASSUME Tick, Guard, Overtake PROVE TypeInv'
  <2>1. clock' \in 0..MaxTime
    BY <1>2, LockAssumption DEF Tick, StoreInv
  <2>. QED
    BY <1>2, <2>1 DEF Tick, Guard, Overtake, StoreInv, LocalInv, store, locals, Working
<1>3. ASSUME UNCHANGED vars PROVE TypeInv'
  BY <1>3 DEF vars, store, locals, StoreInv, LocalInv, Working
<1>. QED
  BY <1>1, <1>2, <1>3 DEF Next

(* The records and the handlers hold values of their types, whatever the   *)
(* requests, the replication runs and the failures between their accesses. *)
THEOREM TypeCorrect == Spec => []TypeOK
  BY InitTyped, NextTyped, TypeInvTyped, PTL DEF Spec

-----------------------------------------------------------------------------
(* A request that is locked out has not resolved an object when it gets to *)
(* its bind, unless it is a delete that looked elsewhere for the lock.     *)
GuardInv ==
  \A w \in guarded :
    /\ Working(w) /\ Blocks(LockAt(job[w].at), clock, job[w].admin)
    /\ pc[w] = "bind" => seen[w] = None \/ ByRawName(w)

(* The record of a lock request is the stored one with its own fields      *)
(* changed, and the request is still allowed.                              *)
Checked(w) ==
  LET l == LockAt(job[w].at)
  IN \/ /\ job[w].op = "retain" /\ RetentionAllowed(l, job[w], clock)
        /\ rec[w].hold = l.hold /\ rec[w].until = job[w].until /\ rec[w].mode = job[w].mode
     \/ /\ job[w].op = "hold" /\ HoldAllowed(l, job[w])
        /\ rec[w].hold = job[w].hold /\ rec[w].until = l.until /\ rec[w].mode = l.mode

(* Unless another request wrote the record in between.                     *)
LockInv == \A w \in Workers : pc[w] = "lockwrite" /\ w \notin stale => Checked(w)

(* Each key a run found is still to do, in work, copied or failed.         *)
Accounted(w) ==
  run[w].todo \cup run[w].copied \cup run[w].failed
    \cup (IF Working(w) THEN {job[w].at[2]} ELSE {})

CopyOf(w) ==
  /\ pc[w] # "idle" /\ job[w].op = "replicate"
       => First(PageLimit, run[w].start) \subseteq Accounted(w)
  /\ pc[w] = "status" => run[w].todo = {}

CopyInv == \A w \in Workers : CopyOf(w)

-----------------------------------------------------------------------------
(* A step of one handler leaves the others where they are.                 *)
LEMMA OthersStay ==
  ASSUME LocalInv, NEW w \in Workers, Step(w), NEW v \in Workers, v # w
  PROVE  /\ pc'[v] = pc[v] /\ job'[v] = job[v] /\ seen'[v] = seen[v]
         /\ rec'[v] = rec[v] /\ run'[v] = run[v]
<1>. DEFINE Stays == /\ pc'[v] = pc[v] /\ job'[v] = job[v] /\ seen'[v] = seen[v]
                     /\ rec'[v] = rec[v] /\ run'[v] = run[v]
<1>. USE DEF LocalInv
<1>1. ASSUME NEW r, NEW step, Begin(w, r, step) PROVE Stays
  BY <1>1 DEF Begin
<1>2. ASSUME End(w) PROVE Stays
  BY <1>2 DEF End
<1>3. ASSUME NEW ok, Finish(w, ok) PROVE Stays
  BY <1>2, <1>3 DEF Finish
<1>4. ASSUME NEW r, NEW step, Resolved(w, r, step) PROVE Stays
  BY <1>4 DEF Resolved
<1>5. ASSUME NEW x, Mutate(w, x) PROVE Stays
  BY <1>3, <1>5 DEF Mutate
<1>6. ASSUME NEW a, NEW new, LockRead(w, a, new) PROVE Stays
  BY <1>2, <1>6 DEF LockRead
<1>. HIDE DEF Stays
<1>. SUFFICES Stays
  BY DEF Stays
<1>7. CASE \/ BeginPut(w) \/ BeginDelete(w) \/ BeginCopy(w)
           \/ BeginReplication(w) \/ BeginRetention(w) \/ BeginHold(w)
  BY <1>1, <1>7
  DEF BeginPut, BeginDelete, BeginCopy, BeginReplication, BeginRetention, BeginHold
<1>8. CASE PutResolve(w) \/ CopyResolve(w) \/ DeleteResolve(w) \/ ResolveFails(w)
  BY <1>3, <1>4, <1>8 DEF PutResolve, CopyResolve, DeleteResolve, ResolveFails
<1>9. CASE PutBind(w) \/ DeleteUnbind(w) \/ CopyBind(w)
  BY <1>5, <1>9 DEF PutBind, DeleteUnbind, CopyBind
<1>10. CASE PutObjectRetention(w) \/ PutObjectLegalHold(w)
  BY <1>6, <1>10 DEF PutObjectRetention, PutObjectLegalHold
<1>11. CASE LockWrite(w) \/ ReplicationStatus(w) \/ Fails(w)
  BY <1>2, <1>3, <1>11 DEF LockWrite, ReplicationStatus, Fails
<1>12. CASE CopySource(w)
  BY <1>3, <1>12 DEF CopySource, Stays
<1>13. CASE LockCheck(w)
  BY <1>3, <1>13 DEF LockCheck, Stays
<1>14. CASE ReplicationList(w)
  BY <1>14 DEF ReplicationList, Stays
<1>15. CASE ReplicationHead(w)
  BY <1>2, <1>15 DEF ReplicationHead, Stays
<1>16. CASE ReplicationNext(w)
  BY <1>16 DEF ReplicationNext, Stays
<1>. QED
  BY <1>7, <1>8, <1>9, <1>10, <1>11, <1>12, <1>13, <1>14, <1>15, <1>16 DEF Step

(* The ways to the bind: without an object, past the lock, or past the     *)
(* place where a raw name looks for it.                                    *)
LEMMA IntoBind ==
  ASSUME LocalInv, NEW w \in Workers, Step(w), pc'[w] = "bind"
  PROVE  \/ seen'[w] = None
         \/ pc[w] = "lock" /\ ~Blocks(LockAt(job[w].at), clock, job[w].admin)
         \/ ByRawName(w)'
<1>. DEFINE Way == \/ seen'[w] = None
                   \/ pc[w] = "lock" /\ ~Blocks(LockAt(job[w].at), clock, job[w].admin)
                   \/ ByRawName(w)'
<1>. USE DEF LocalInv
<1>1. ASSUME NEW r, NEW step, Begin(w, r, step), step # "bind" PROVE FALSE
  BY <1>1 DEF Begin
<1>2. ASSUME End(w) PROVE FALSE
  BY <1>2 DEF End
<1>3. ASSUME NEW ok, Finish(w, ok) PROVE FALSE
  BY <1>2, <1>3 DEF Finish
<1>4. ASSUME NEW r, NEW step, Resolved(w, r, step), step = "bind" => r = None PROVE Way
  BY <1>4 DEF Resolved
<1>5. ASSUME NEW x, Mutate(w, x) PROVE FALSE
  BY <1>3, <1>5 DEF Mutate
<1>6. ASSUME NEW a, NEW new, LockRead(w, a, new) PROVE FALSE
  BY <1>2, <1>6 DEF LockRead
<1>. HIDE DEF Way, LocalInv
<1>. SUFFICES Way
  BY DEF Way
<1>7. CASE \/ BeginPut(w) \/ BeginDelete(w) \/ BeginCopy(w)
           \/ BeginReplication(w) \/ BeginRetention(w) \/ BeginHold(w)
  BY <1>1, <1>7
  DEF BeginPut, BeginDelete, BeginCopy, BeginReplication, BeginRetention, BeginHold
<1>8. CASE PutResolve(w) \/ CopyResolve(w) \/ DeleteResolve(w) \/ ResolveFails(w)
  <2>1. CASE Finish(w, FALSE)
    BY <1>3, <2>1
  <2>2. CASE ~Finish(w, FALSE)
    BY <1>4, <1>8, <2>2 DEF PutResolve, CopyResolve, DeleteResolve, ResolveFails
  <2>. QED
    BY <2>1, <2>2
<1>9. CASE PutBind(w) \/ DeleteUnbind(w) \/ CopyBind(w)
  BY <1>5, <1>9 DEF PutBind, DeleteUnbind, CopyBind
<1>10. CASE PutObjectRetention(w) \/ PutObjectLegalHold(w)
  BY <1>6, <1>10 DEF PutObjectRetention, PutObjectLegalHold
<1>11. CASE LockWrite(w) \/ ReplicationStatus(w) \/ Fails(w)
  BY <1>2, <1>3, <1>11 DEF LockWrite, ReplicationStatus, Fails
<1>12. CASE CopySource(w)
  BY <1>3, <1>12 DEF CopySource, LocalInv
<1>13. CASE LockCheck(w)
  BY <1>3, <1>13 DEF LockCheck, LockSeen, ByRawName, Way
<1>14. CASE ReplicationList(w) \/ ReplicationHead(w) \/ ReplicationNext(w)
  <2>1. pc'[w] # "bind"
    <3>1. CASE ReplicationList(w)
      BY <3>1 DEF ReplicationList, LocalInv
    <3>2. CASE ReplicationHead(w)
      BY <1>2, <3>2 DEF ReplicationHead, LocalInv
    <3>3. CASE ReplicationNext(w)
      BY <3>3 DEF ReplicationNext, LocalInv
    <3>. QED
      BY <1>14, <3>1, <3>2, <3>3
  <2>. QED
    BY <2>1
<1>. QED
  BY <1>7, <1>8, <1>9, <1>10, <1>11, <1>12, <1>13, <1>14 DEF Step

(* A request that stays locked out stays without an object.                *)
LEMMA GuardNext == TypeInv /\ GuardInv /\ [Next]_vars => GuardInv'
<1>. SUFFICES ASSUME TypeInv, GuardInv, [Next]_vars PROVE GuardInv'
  OBVIOUS
<1>1. CASE UNCHANGED vars
  BY <1>1 DEF vars, store, locals, GuardInv, Working, LockAt, ByRawName
<1>2. CASE Next
  <2>. SUFFICES ASSUME NEW v \in guarded', pc'[v] = "bind"
                PROVE  seen'[v] = None \/ ByRawName(v)'
    BY <1>2 DEF Next, Guard, GuardInv, Working, LockAt
  <2>1. v \in Workers /\ (Working(v) => v \in guarded)
    BY <1>2 DEF Next, Guard
  <2>2. CASE Tick
    BY <2>1, <2>2 DEF Tick, locals, GuardInv, Working, ByRawName
  <2>3. ASSUME NEW w \in Workers, Step(w) PROVE seen'[v] = None \/ ByRawName(v)'
    <3>1. CASE v # w
      <4>1. pc[v] = "bind" /\ seen'[v] = seen[v] /\ job'[v] = job[v]
        BY <2>1, <2>3, <3>1, OthersStay DEF TypeInv
      <4>. QED
        BY <2>1, <4>1 DEF GuardInv, Working, ByRawName
    <3>2. CASE v = w
      <4>1. pc[v] = "lock" => Blocks(LockAt(job[v].at), clock, job[v].admin)
        BY <2>1 DEF GuardInv, Working
      <4>. QED
        BY <2>3, <3>2, <4>1, IntoBind DEF TypeInv
    <3>. QED
      BY <3>1, <3>2
  <2>. QED
    BY <1>2, <2>2, <2>3 DEF Next
<1>. QED
  BY <1>1, <1>2

(* The object of a locked-out request does not change at its bind.         *)
LEMMA GuardedBind ==
  ASSUME TypeInv, GuardInv, [Next]_vars, NEW w \in Workers, NEW o \in Places,
         Mutates(w, o), bound[o] # None, ~ByRawName(w)
  PROVE  w \notin guarded
<1>. SUFFICES ASSUME w \in guarded PROVE FALSE
  OBVIOUS
<1>1. /\ pc[w] = "bind" /\ pc'[w] # "bind" /\ job[w].at = o /\ bound'[o] # bound[o]
      /\ seen[w] = None
  BY DEF Mutates, GuardInv
<1>2. ~Unmoved(w)
  BY <1>1 DEF Unmoved
<1>3. Step(w)
  <2>1. PICK v \in Workers : Step(v)
    BY <1>1 DEF Next, Tick, store, vars, locals
  <2>. QED
    BY <1>1, <2>1, OthersStay DEF TypeInv
<1>4. bound' = bound
  <2>1. CASE PutBind(w) \/ DeleteUnbind(w) \/ CopyBind(w)
    BY <1>2, <2>1 DEF PutBind, DeleteUnbind, CopyBind, Mutate
  <2>2. CASE Fails(w)
    BY <2>2 DEF Fails, store
  <2>. QED
    BY <1>1, <1>3, <2>1, <2>2
    DEF Step, BeginPut, BeginDelete, BeginCopy, BeginReplication, BeginRetention, BeginHold,
        Begin, CopySource, PutResolve, CopyResolve, DeleteResolve, ResolveFails, LockCheck,
        PutObjectRetention, PutObjectLegalHold, LockWrite, ReplicationList, ReplicationHead,
        ReplicationNext, ReplicationStatus
<1>. QED
  BY <1>1, <1>4

(* A live object that is locked against a request from its first step to   *)
(* its bind is not replaced or removed by it, unless it is a delete by a   *)
(* bucket name that is not in canonical form: for any interleaving of      *)
(* puts, deletes, copies, replication runs, lock requests and failures,    *)
(* and however objects share lock records.                                 *)
THEOREM LockHonouredHolds == Spec => LockHonoured
<1>1. Init => GuardInv
  BY DEF Init, GuardInv
<1>2. TypeInv /\ GuardInv /\ [Next]_vars
        => \A w \in Workers : \A o \in Places :
             Mutates(w, o) /\ bound[o] # None /\ ~ByRawName(w) => w \notin guarded
  BY GuardedBind
<1>. QED
  BY InitTyped, NextTyped, GuardNext, <1>1, <1>2, PTL DEF Spec, LockHonoured

-----------------------------------------------------------------------------
(* Only the last step of a lock request changes a lock record.             *)
LEMMA LockChanges ==
  ASSUME NEW w \in Workers, Step(w)
  PROVE  lock' = lock \/ LockWrite(w)
  BY DEF Step, BeginPut, BeginDelete, BeginCopy, BeginReplication, BeginRetention, BeginHold,
         Begin, CopySource, PutResolve, CopyResolve, DeleteResolve, ResolveFails, Resolved,
         LockCheck, PutBind, DeleteUnbind, CopyBind, Mutate, PutObjectRetention,
         PutObjectLegalHold, LockRead, ReplicationList, ReplicationHead, ReplicationNext,
         ReplicationStatus, Fails, store

(* There is one step to the write of a lock record.                        *)
LEMMA IntoLock ==
  ASSUME StoreInv, LocalInv, NEW w \in Workers, Step(w), pc'[w] = "lockwrite"
  PROVE  pc[w] = "lockread" /\ job'[w] = job[w] /\ Checked(w)'
<1>. DEFINE Way == pc[w] = "lockread" /\ job'[w] = job[w] /\ Checked(w)'
<1>. USE DEF LocalInv
<1>1. ASSUME NEW r, NEW step, Begin(w, r, step), step # "lockwrite"
      PROVE  FALSE
  BY <1>1 DEF Begin
<1>2. ASSUME End(w) PROVE FALSE
  BY <1>2 DEF End
<1>3. ASSUME NEW ok, Finish(w, ok) PROVE FALSE
  BY <1>2, <1>3 DEF Finish
<1>4. ASSUME NEW r, NEW step, Resolved(w, r, step), step \in {"bind", "lock"} PROVE FALSE
  BY <1>4 DEF Resolved
<1>5. ASSUME NEW x, Mutate(w, x) PROVE FALSE
  BY <1>3, <1>5 DEF Mutate
<1>6. CASE PutObjectRetention(w)
  <2>. DEFINE l == LockAt(job[w].at)
              new == [l EXCEPT !.until = job[w].until, !.mode = job[w].mode]
  <2>1. LockRead(w, RetentionAllowed(l, job[w], clock), new) /\ job[w].op = "retain"
    BY <1>6 DEF PutObjectRetention
  <2>2. /\ RetentionAllowed(l, job[w], clock) /\ rec' = [rec EXCEPT ![w] = new]
        /\ pc[w] = "lockread" /\ job' = job /\ lock' = lock /\ clock' = clock
    BY <1>2, <2>1 DEF LockRead, store
  <2>3. job[w] \in Request /\ l \in Lock
    BY <2>2, LockAssumption DEF StoreInv, Request, LockAt
  <2>4. new.hold = l.hold /\ new.until = job[w].until /\ new.mode = job[w].mode
    <3>. DEFINE q == [l EXCEPT !.until = job[w].until]
    <3>1. q.hold = l.hold /\ q.until = job[w].until /\ q \in Lock
      BY <2>3 DEF Lock, Request
    <3>2. new = [q EXCEPT !.mode = job[w].mode]
      OBVIOUS
    <3>. HIDE DEF q
    <3>3. /\ [q EXCEPT !.mode = job[w].mode].hold = q.hold
          /\ [q EXCEPT !.mode = job[w].mode].until = q.until
          /\ [q EXCEPT !.mode = job[w].mode].mode = job[w].mode
      BY <3>1 DEF Lock
    <3>. QED
      BY <3>1, <3>2, <3>3
  <2>. HIDE DEF new
  <2>5. rec'[w] = new
    BY <2>2
  <2>6. RetentionAllowed(LockAt(job[w].at), job[w], clock)'
    BY <2>2 DEF RetentionAllowed, Active, LockAt
  <2>7. Checked(w)'
    BY <2>1, <2>2, <2>4, <2>5, <2>6 DEF Checked, LockAt
  <2>. QED
    BY <2>2, <2>7
<1>7. CASE PutObjectLegalHold(w)
  <2>. DEFINE l == LockAt(job[w].at)
              new == [l EXCEPT !.hold = job[w].hold]
  <2>1. LockRead(w, HoldAllowed(l, job[w]), new) /\ job[w].op = "hold"
    BY <1>7 DEF PutObjectLegalHold
  <2>2. /\ HoldAllowed(l, job[w]) /\ rec' = [rec EXCEPT ![w] = new]
        /\ pc[w] = "lockread" /\ job' = job /\ lock' = lock /\ clock' = clock
    BY <1>2, <2>1 DEF LockRead, store
  <2>3. job[w] \in Request /\ l \in Lock
    BY <2>2, LockAssumption DEF StoreInv, Request, LockAt
  <2>4. new.hold = job[w].hold /\ new.until = l.until /\ new.mode = l.mode
    BY <2>3 DEF Lock, Request
  <2>. HIDE DEF new
  <2>5. rec'[w] = new
    BY <2>2
  <2>6. HoldAllowed(LockAt(job[w].at), job[w])'
    BY <2>2 DEF HoldAllowed, LockAt
  <2>7. Checked(w)'
    BY <2>1, <2>2, <2>4, <2>5, <2>6 DEF Checked, LockAt
  <2>. QED
    BY <2>2, <2>7
<1>. HIDE DEF Way, LocalInv
<1>. SUFFICES Way
  BY DEF Way
<1>8. CASE \/ BeginPut(w) \/ BeginDelete(w) \/ BeginCopy(w)
           \/ BeginReplication(w) \/ BeginRetention(w) \/ BeginHold(w)
  BY <1>1, <1>8
  DEF BeginPut, BeginDelete, BeginCopy, BeginReplication, BeginRetention, BeginHold
<1>11. CASE PutResolve(w) \/ CopyResolve(w) \/ DeleteResolve(w) \/ ResolveFails(w)
  BY <1>3, <1>4, <1>11 DEF PutResolve, CopyResolve, DeleteResolve, ResolveFails
<1>12. CASE PutBind(w) \/ DeleteUnbind(w) \/ CopyBind(w)
  BY <1>5, <1>12 DEF PutBind, DeleteUnbind, CopyBind
<1>13. CASE LockWrite(w) \/ ReplicationStatus(w) \/ Fails(w)
  BY <1>2, <1>3, <1>13 DEF LockWrite, ReplicationStatus, Fails
<1>14. CASE CopySource(w)
  BY <1>3, <1>14 DEF CopySource, LocalInv
<1>15. CASE LockCheck(w)
  BY <1>3, <1>15 DEF LockCheck, LocalInv
<1>16. CASE ReplicationList(w)
  BY <1>16 DEF ReplicationList, LocalInv
<1>17. CASE ReplicationHead(w)
  BY <1>2, <1>17 DEF ReplicationHead, LocalInv
<1>18. CASE ReplicationNext(w)
  BY <1>18 DEF ReplicationNext, LocalInv
<1>. QED
  BY <1>6, <1>7, <1>8, <1>11, <1>12, <1>13, <1>14, <1>15, <1>16, <1>17, <1>18
  DEF Step, Way

(* A check that was passed is not undone by time.                          *)
LEMMA CheckedLater ==
  ASSUME StoreInv, LocalInv, NEW w \in Workers, Checked(w), pc[w] = "lockwrite",
         job'[w] = job[w], rec'[w] = rec[w], LockAt(job[w].at)' = LockAt(job[w].at),
         clock' = clock \/ clock' = clock + 1
  PROVE  Checked(w)'
<1>. DEFINE l == LockAt(job[w].at)
<1>1. clock \in Int /\ clock' \in Int /\ clock <= clock' /\ l.until \in Int
  BY LockAssumption DEF StoreInv, LocalInv, Request, Lock, LockAt
<1>2. RetentionAllowed(l, job[w], clock) => RetentionAllowed(l, job[w], clock')
  BY <1>1 DEF RetentionAllowed, Active
<1>. HIDE DEF l
<1>3. l = LockAt(job[w].at) /\ l = LockAt(job[w].at)'
  BY DEF l
<1>4. RetentionAllowed(l, job[w], clock') => RetentionAllowed(LockAt(job[w].at), job[w], clock)'
  BY <1>3 DEF RetentionAllowed, Active
<1>5. HoldAllowed(l, job[w]) => HoldAllowed(LockAt(job[w].at), job[w])'
  BY <1>3 DEF HoldAllowed
<1>. QED
  BY <1>2, <1>3, <1>4, <1>5 DEF Checked

(* A step of a handler does not move the clock.                            *)
LEMMA StepClock ==
  ASSUME NEW w \in Workers, Step(w)
  PROVE  clock' = clock
  BY DEF Step, BeginPut, BeginDelete, BeginCopy, BeginReplication, BeginRetention, BeginHold,
         Begin, CopySource, PutResolve, CopyResolve, DeleteResolve, ResolveFails, Resolved,
         LockCheck, PutBind, DeleteUnbind, CopyBind, Mutate, PutObjectRetention,
         PutObjectLegalHold, LockRead, LockWrite, ReplicationList, ReplicationHead,
         ReplicationNext, ReplicationStatus, Fails

(* The check of a request whose record nobody else writes stays passed.    *)
LEMMA LockNext == TypeInv /\ LockInv /\ [Next]_vars => LockInv'
<1>. SUFFICES ASSUME TypeInv, LockInv, [Next]_vars, NEW v \in Workers,
                     pc'[v] = "lockwrite", v \notin stale'
              PROVE  Checked(v)'
  BY DEF LockInv
<1>1. ASSUME pc[v] = "lockwrite", job'[v] = job[v], rec'[v] = rec[v],
             clock' = clock \/ clock' = clock + 1
      PROVE  Checked(v)'
  <2>1. v \notin stale /\ LockAt(job[v].at)' = LockAt(job[v].at)
    <3>1. CASE UNCHANGED vars
      BY <1>1, <3>1 DEF vars, store, LockAt
    <3>2. CASE Overtake
      BY <1>1, <3>2 DEF Overtake, LockAt
    <3>. QED
      BY <3>1, <3>2 DEF Next
  <2>2. Checked(v)
    BY <1>1, <2>1 DEF LockInv
  <2>. QED
    BY <1>1, <2>1, <2>2, CheckedLater DEF TypeInv
<1>2. CASE Tick \/ UNCHANGED vars
  BY <1>1, <1>2 DEF Tick, vars, locals
<1>3. ASSUME NEW w \in Workers, Step(w) PROVE Checked(v)'
  <2>1. CASE v = w
    BY <1>3, <2>1, IntoLock DEF TypeInv
  <2>2. CASE v # w
    BY <1>1, <1>3, <2>2, OthersStay, StepClock DEF TypeInv
  <2>. QED
    BY <2>1, <2>2
<1>. QED
  BY <1>2, <1>3 DEF Next

(* A write of the record that was read keeps what only an administrator    *)
(* may take away.                                                          *)
KeptBy(w, l, m) ==
  pc[w] = "lockwrite" /\ pc'[w] # "lockwrite" /\ w \notin stale =>
    /\ l.hold /\ ~m.hold => job[w].op = "hold" /\ job[w].admin
    /\ Active(l, clock) /\ Loosened(l, m)
         => l.mode # "compliance" /\ job[w].op = "retain" /\ job[w].admin

LEMMA KeptByWrite ==
  ASSUME TypeInv, LockInv, [Next]_vars, NEW w \in Workers
  PROVE  KeptBy(w, LockAt(job[w].at), lock'[LockKey[job[w].at]])
<1>. DEFINE l == LockAt(job[w].at)
            m == lock'[LockKey[job[w].at]]
<1>. SUFFICES ASSUME pc[w] = "lockwrite", pc'[w] # "lockwrite", w \notin stale
              PROVE  /\ l.hold /\ ~m.hold => job[w].op = "hold" /\ job[w].admin
                     /\ Active(l, clock) /\ Loosened(l, m)
                          => l.mode # "compliance" /\ job[w].op = "retain" /\ job[w].admin
  BY DEF KeptBy
<1>1. /\ job[w] \in Request /\ LockKey[job[w].at] \in LockKeys /\ l \in Lock /\ rec[w] \in Lock
  BY LockAssumption DEF TypeInv, LocalInv, StoreInv, Request, LockAt
<1>2. l.until \in Int /\ job[w].until \in Int /\ Checked(w)
  BY <1>1 DEF Lock, Request, LockInv
<1>3. Step(w)
  <2>1. PICK v \in Workers : Step(v)
    BY DEF Next, Tick, vars, locals
  <2>. QED
    BY <2>1, OthersStay DEF TypeInv
<1>4. CASE lock' = lock
  BY <1>1, <1>2, <1>4 DEF LockAt, Loosened
<1>5. CASE LockWrite(w)
  <2>1. m = rec[w]
    BY <1>1, <1>5 DEF LockWrite, TypeInv, StoreInv
  <2>. HIDE DEF m
  <2>2. CASE job[w].op = "retain"
    <3>1. /\ RetentionAllowed(l, job[w], clock) /\ rec[w].hold = l.hold
          /\ rec[w].until = job[w].until /\ rec[w].mode = job[w].mode
      BY <1>2, <2>2 DEF Checked
    <3>. HIDE DEF l
    <3>. QED
      BY <1>2, <2>1, <2>2, <3>1 DEF RetentionAllowed, Loosened
  <2>3. CASE job[w].op = "hold"
    <3>1. /\ HoldAllowed(l, job[w]) /\ rec[w].hold = job[w].hold
          /\ rec[w].until = l.until /\ rec[w].mode = l.mode
      BY <1>2, <2>3 DEF Checked
    <3>. HIDE DEF l
    <3>. QED
      BY <1>2, <2>1, <2>3, <3>1 DEF HoldAllowed, Loosened
  <2>. QED
    BY <1>2, <2>2, <2>3 DEF Checked
<1>. QED
  BY <1>3, <1>4, <1>5, LockChanges

(* A lock request whose record no other request wrote since it read it     *)
(* clears a legal hold only as an administrator's hold request, and        *)
(* loosens an active retention only as an administrator's retention        *)
(* request, an active compliance retention never: whatever requests, clock *)
(* ticks and failures come between the read and the write.                 *)
THEOREM LockKeptHolds == Spec => LockKept
<1>1. Init => LockInv
  BY DEF Init, LockInv
<1>2. TypeInv /\ LockInv /\ [Next]_vars
        => \A w \in Workers : KeptBy(w, LockAt(job[w].at), lock'[LockKey[job[w].at]])
  BY KeptByWrite
<1>3. TypeInv /\ LockInv /\ [Next]_vars
        => \A w \in Workers :
             LET l == LockAt(job[w].at)
                 m == lock'[LockKey[job[w].at]]
             IN pc[w] = "lockwrite" /\ pc'[w] # "lockwrite" /\ w \notin stale =>
                  /\ l.hold /\ ~m.hold => job[w].op = "hold" /\ job[w].admin
                  /\ Active(l, clock) /\ Loosened(l, m)
                       => l.mode # "compliance" /\ job[w].op = "retain" /\ job[w].admin
  BY <1>2 DEF KeptBy
<1>. QED
  BY InitTyped, NextTyped, LockNext, <1>1, <1>3, PTL DEF Spec, LockKept

-----------------------------------------------------------------------------
(* The end of a copy accounts for its key.                                 *)
LEMMA CopyFinish ==
  ASSUME LocalInv, NEW w \in Workers, NEW ok \in BOOLEAN, Working(w), CopyOf(w), Finish(w, ok)
  PROVE  CopyOf(w)'
<1>1. CASE End(w)
  BY <1>1 DEF End, CopyOf, LocalInv
<1>2. CASE ~End(w)
  <2>. DEFINE k == job[w].at[2]
              r == [run[w] EXCEPT !.copied = IF ok THEN @ \cup {k} ELSE @,
                                  !.failed = IF ok THEN @ ELSE @ \cup {k}]
              q == [run[w] EXCEPT !.copied = IF ok THEN @ \cup {k} ELSE @]
  <2>1. run' = [run EXCEPT ![w] = r] /\ pc' = [pc EXCEPT ![w] = "next"] /\ job' = job
    BY <1>2 DEF Finish
  <2>2. job[w].op = "replicate" /\ run[w] \in Run
    BY <1>2 DEF Finish, LocalInv
  <2>3. r = [q EXCEPT !.failed = IF ok THEN @ ELSE @ \cup {k}]
    OBVIOUS
  <2>4. /\ q.start = run[w].start /\ q.todo = run[w].todo /\ q.failed = run[w].failed
        /\ q.copied = IF ok THEN run[w].copied \cup {k} ELSE run[w].copied
        /\ q = [todo |-> q.todo, heads |-> q.heads, copied |-> q.copied, failed |-> q.failed,
                start |-> q.start]
    BY <2>2, SMTT(60) DEF Run
  <2>. HIDE DEF q, k
  <2>5. /\ r.start = q.start /\ r.todo = q.todo /\ r.copied = q.copied
        /\ r.failed = IF ok THEN q.failed ELSE q.failed \cup {k}
    BY <2>3, <2>4
  <2>. HIDE DEF r
  <2>6. run'[w] = r /\ pc'[w] = "next"
    BY <2>1 DEF LocalInv
  <2>7. First(PageLimit, run[w].start)
          \subseteq run[w].todo \cup run[w].copied \cup run[w].failed \cup {k}
    BY <2>2 DEF CopyOf, Accounted, Working, k
  <2>8. First(PageLimit, r.start) \subseteq r.todo \cup r.copied \cup r.failed
    BY <2>4, <2>5, <2>7
  <2>. QED
    BY <2>6, <2>8 DEF CopyOf, Accounted, Working
<1>. QED
  BY <1>1, <1>2

(* A run never loses a key of its listing.                                 *)
LEMMA CopyStep ==
  ASSUME StoreInv, LocalInv, CopyInv, NEW w \in Workers, Step(w)
  PROVE  CopyOf(w)'
<1>. USE DEF LocalInv
<1>1. ASSUME NEW r, NEW step, Begin(w, r, step) PROVE CopyOf(w)'
  <2>1. run[w] = NoRun /\ run' = run
    BY <1>1 DEF Begin
  <2>2. First(PageLimit, run'[w].start) = {} /\ run'[w].todo = {}
    BY <2>1 DEF NoRun, First
  <2>. QED
    BY <2>2 DEF CopyOf
<1>2. ASSUME End(w) PROVE CopyOf(w)'
  BY <1>2 DEF End, CopyOf
<1>3. CopyOf(w)
  BY DEF CopyInv
<1>4. ASSUME Working(w), Working(w)', job'[w] = job[w], run'[w] = run[w] PROVE CopyOf(w)'
  BY <1>3, <1>4 DEF CopyOf, Accounted, Working
<1>5. ASSUME NEW r, NEW step \in {"lock", "bind"}, Resolved(w, r, step) PROVE CopyOf(w)'
  BY <1>4, <1>5 DEF Resolved, Working
<1>6. ASSUME NEW x, Mutate(w, x) PROVE CopyOf(w)'
  BY <1>3, <1>6, CopyFinish DEF Mutate, Working
<1>7. ASSUME NEW a, NEW new, LockRead(w, a, new) PROVE CopyOf(w)'
  <2>1. CASE End(w)
    BY <1>2, <2>1
  <2>2. CASE ~End(w)
    BY <1>7, <2>2 DEF LockRead, CopyOf
  <2>. QED
    BY <2>1, <2>2
<1>8. CASE \/ BeginPut(w) \/ BeginDelete(w) \/ BeginCopy(w)
           \/ BeginReplication(w) \/ BeginRetention(w) \/ BeginHold(w)
  BY <1>1, <1>8
  DEF BeginPut, BeginDelete, BeginCopy, BeginReplication, BeginRetention, BeginHold
<1>9. CASE PutResolve(w) \/ CopyResolve(w) \/ DeleteResolve(w) \/ ResolveFails(w)
  <2>1. Working(w)
    BY <1>9 DEF PutResolve, CopyResolve, DeleteResolve, ResolveFails, Working
  <2>2. CASE Finish(w, FALSE)
    BY <1>3, <2>1, <2>2, CopyFinish
  <2>3. CASE ~Finish(w, FALSE)
    BY <1>5, <1>9, <2>3 DEF PutResolve, CopyResolve, DeleteResolve, ResolveFails
  <2>. QED
    BY <2>2, <2>3
<1>10. CASE PutBind(w) \/ DeleteUnbind(w) \/ CopyBind(w)
  BY <1>6, <1>10 DEF PutBind, DeleteUnbind, CopyBind
<1>11. CASE PutObjectRetention(w) \/ PutObjectLegalHold(w)
  BY <1>7, <1>11 DEF PutObjectRetention, PutObjectLegalHold
<1>12. CASE LockWrite(w) \/ ReplicationStatus(w)
  BY <1>2, <1>12 DEF LockWrite, ReplicationStatus
<1>13. CASE Fails(w)
  BY <1>2, <1>3, <1>13, CopyFinish DEF Fails, Working
<1>14. CASE CopySource(w) \/ LockCheck(w)
  <2>1. CASE Finish(w, FALSE)
    BY <1>3, <1>14, <2>1, CopyFinish DEF CopySource, LockCheck, Working
  <2>2. CASE ~Finish(w, FALSE)
    BY <1>4, <1>14, <2>2 DEF CopySource, LockCheck, Working
  <2>. QED
    BY <2>1, <2>2
<1>15. CASE ReplicationList(w)
  <2>1. run'[w] = Listed /\ pc'[w] = "heads"
    BY <1>15, ListRun DEF ReplicationList
  <2>2. First(PageLimit, Listed.start) = Listed.todo
    BY DEF Listed, Page
  <2>. QED
    BY <2>1, <2>2 DEF CopyOf, Accounted
<1>16. CASE ReplicationHead(w)
  <2>1. CASE End(w)
    BY <1>2, <2>1
  <2>2. CASE ~End(w)
    <3>1. /\ run'[w].start = run[w].start /\ run'[w].todo = run[w].todo
          /\ run'[w].copied = run[w].copied /\ run'[w].failed = run[w].failed
          /\ pc[w] = "heads" /\ pc'[w] \in {"heads", "next"} /\ job' = job
      <4>. DEFINE r == [run[w] EXCEPT !.heads = @ \ {Least(@)}]
      <4>1. /\ pc[w] = "heads" /\ pc'[w] \in {"heads", "next"} /\ job' = job
            /\ run'[w] \in {run[w], r}
        BY <1>16, <2>2 DEF ReplicationHead
      <4>2. /\ r.start = run[w].start /\ r.todo = run[w].todo
            /\ r.copied = run[w].copied /\ r.failed = run[w].failed
        BY DEF Run
      <4>. HIDE DEF r
      <4>. QED
        BY <4>1, <4>2
    <3>. QED
      BY <1>3, <3>1 DEF CopyOf, Accounted, Working
  <2>. QED
    BY <2>1, <2>2
<1>17. CASE ReplicationNext(w)
  <2>1. CASE run[w].todo = {}
    BY <1>3, <1>17, <2>1 DEF ReplicationNext, CopyOf, Accounted, Working
  <2>2. CASE run[w].todo # {}
    <3>. DEFINE k == Least(run[w].todo)
                r == [run[w] EXCEPT !.todo = @ \ {Least(@)}]
    <3>1. /\ r.start = run[w].start /\ r.todo = run[w].todo \ {k}
          /\ r.copied = run[w].copied /\ r.failed = run[w].failed
      BY DEF Run
    <3>2. job'[w].at = Dst(k) /\ run'[w] = r /\ pc'[w] = "source"
      <4>. DEFINE j == [job[w] EXCEPT !.at = Dst(k)]
      <4>1. job[w] \in Request
        BY <1>17 DEF ReplicationNext
      <4>2. j.at = Dst(k)
        BY <4>1 DEF Request
      <4>3. /\ job' = [job EXCEPT ![w] = j] /\ run' = [run EXCEPT ![w] = r]
            /\ pc' = [pc EXCEPT ![w] = "source"]
        BY <1>17, <2>2 DEF ReplicationNext
      <4>. HIDE DEF j, r, k
      <4>. QED
        BY <4>2, <4>3
    <3>3. job'[w].at[2] = k
      BY <3>2 DEF Dst
    <3>4. First(PageLimit, run[w].start) \subseteq run[w].todo \cup run[w].copied \cup run[w].failed
      BY <1>3, <1>17 DEF ReplicationNext, CopyOf, Accounted, Working
    <3>. HIDE DEF r, k
    <3>. QED
      BY <3>1, <3>2, <3>3, <3>4 DEF CopyOf, Accounted, Working
  <2>. QED
    BY <2>1, <2>2
<1>. QED
  BY <1>8, <1>9, <1>10, <1>11, <1>12, <1>13, <1>14, <1>15, <1>16, <1>17 DEF Step

(* Every step keeps the account of every run.                              *)
LEMMA CopyNext == TypeInv /\ CopyInv /\ [Next]_vars => CopyInv'
<1>. SUFFICES ASSUME TypeInv, CopyInv, [Next]_vars, NEW v \in Workers PROVE CopyOf(v)'
  BY DEF CopyInv
<1>1. ASSUME pc'[v] = pc[v], job'[v] = job[v], run'[v] = run[v] PROVE CopyOf(v)'
  BY <1>1 DEF CopyInv, CopyOf, Accounted, Working
<1>2. CASE Tick \/ UNCHANGED vars
  BY <1>1, <1>2 DEF Tick, vars, locals
<1>3. ASSUME NEW w \in Workers, Step(w) PROVE CopyOf(v)'
  <2>1. CASE v = w
    BY <1>3, <2>1, CopyStep DEF TypeInv
  <2>2. CASE v # w
    BY <1>1, <1>3, <2>2, OthersStay DEF TypeInv
  <2>. QED
    BY <2>1, <2>2
<1>. QED
  BY <1>2, <1>3 DEF Next

(* A replication run that is about to report no failure has copied every   *)
(* one of the first PageLimit keys that were there when it listed the      *)
(* source, for any interleaving of other requests with its copies.         *)
THEOREM AllCopiedHolds == Spec => []AllCopied
<1>1. Init => CopyInv
  <2>. SUFFICES ASSUME Init, NEW w \in Workers PROVE CopyOf(w)
    BY DEF CopyInv
  <2>. QED
    BY DEF Init, CopyOf
<1>2. TypeInv /\ CopyInv => AllCopied
  <2>. SUFFICES ASSUME TypeInv, CopyInv, NEW w \in Workers, pc[w] = "status",
                       run[w].failed = {}
                PROVE  First(PageLimit, run[w].start) \subseteq run[w].copied
    BY DEF AllCopied
  <2>1. job[w].op = "replicate" /\ run[w].todo = {}
    BY DEF TypeInv, LocalInv, CopyInv, CopyOf
  <2>2. First(PageLimit, run[w].start) \subseteq Accounted(w)
    BY <2>1 DEF CopyInv, CopyOf
  <2>. QED
    BY <2>1, <2>2 DEF Accounted, Working
<1>. QED
  BY InitTyped, NextTyped, CopyNext, <1>1, <1>2, PTL DEF Spec
=============================================================================
