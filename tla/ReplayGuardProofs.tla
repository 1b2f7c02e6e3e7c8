-------------------------- MODULE ReplayGuardProofs --------------------------
(***************************************************************************)
(* Proofs about ReplayGuard for any sets of requests, instances and keys.  *)
(*                                                                         *)
(* The durable record of a key is written once and never replaced, so its  *)
(* creator owns the key: OwnerInv says which requests may point at it at   *)
(* each step of authorize.                                                 *)
(***************************************************************************)
EXTENDS ReplayGuard, TLAPS

(* Before authorize returns there is no verdict, and the cache has spoken. *)
PhaseInv ==
  \A r \in Requests :
    /\ pc[r] \in {"new", "create", "fill", "conflict"} => verdict[r] = None
    /\ pc[r] \in {"create", "fill", "conflict"} => status[r] \in Admitted
    /\ pc[r] \in {"lookup", "run", "save", "done"} => verdict[r] \in Admitted
    /\ status[r] = "Retry" => IdemOf(r) # NoIdem

(* How far a request got says what the durable record of its key holds.    *)
OwnerInv ==
  \A r \in Requests :
    /\ pc[r] = "conflict" => durable[KeyOf(r)] # None
    /\ (pc[r] = "fill" \/ verdict[r] = "Fresh") =>
         durable[KeyOf(r)] # None /\ durable[KeyOf(r)].by = r
    /\ verdict[r] = "Retry" =>
         /\ durable[KeyOf(r)] # None
         /\ IdemOf(durable[KeyOf(r)].by) = IdemOf(r)
         /\ IdemOf(r) # NoIdem

Inv == TypeOK /\ PhaseInv /\ OwnerInv

(* The initial states satisfy the inductive invariant.                     *)
LEMMA InitInv == Init => Inv
  BY ReplayAssumption
  DEF Init, Inv, TypeOK, PhaseInv, OwnerInv, ClientRequests, Request,
      EmptyCache, IdemOrNone, InFlight, Admitted, KeyOf, IdemOf

(* Writing the contents of a replay record does not change whose it is.    *)
LEMMA FilledRecord ==
  ASSUME NEW d \in [by : Requests, written : BOOLEAN]
  PROVE  /\ Filled(d) \in [by : Requests, written : BOOLEAN]
         /\ Filled(d).by = d.by
  BY DEF Filled

(* What a request asks for does not change while it is handled.            *)
LEMMA ReqStable == [Next]_vars => req' = req
<1>1. ASSUME NEW r \in Requests, Handle(r) PROVE req' = req
  <2>1. CASE ObserveFresh(r) \/ ObserveRetry(r) \/ ObserveDenied(r)
    BY <2>1 DEF ObserveFresh, ObserveRetry, ObserveDenied
  <2>2. CASE CreateNew(r) \/ CreateFill(r) \/ CreateConflict(r) \/ CreateFails(r)
    BY <2>2 DEF CreateNew, CreateFill, CreateConflict, CreateFails
  <2>3. CASE ReadExisting(r) \/ Lookup(r) \/ Run(r) \/ Save(r) \/ OperationFails(r)
    BY <2>3 DEF ReadExisting, Lookup, Run, Save, OperationFails
  <2>. QED
    BY <1>1, <2>1, <2>2, <2>3 DEF Handle
<1>2. ASSUME NEW i \in Instances, Restart(i) PROVE req' = req
  BY <1>2 DEF Restart
<1>. QED
  BY <1>1, <1>2 DEF Next, vars

(* Every step of a handler, every failure and every restart keeps the      *)
(* state well-typed.                                                       *)
LEMMA NextTypeOK == TypeOK /\ PhaseInv /\ OwnerInv /\ [Next]_vars => TypeOK'
<1>. SUFFICES ASSUME TypeOK, PhaseInv, OwnerInv, [Next]_vars PROVE TypeOK'
  OBVIOUS
<1>. USE ReplayAssumption DEF TypeOK, Request, KeyOf, IdemOf, IdemOrNone, InFlight, Admitted
<1>1. ASSUME NEW r \in Requests, ObserveFresh(r) PROVE TypeOK'
  BY <1>1 DEF ObserveFresh, Arrives
<1>2. ASSUME NEW r \in Requests, ObserveRetry(r) PROVE TypeOK'
  BY <1>2 DEF ObserveRetry, Arrives
<1>3. ASSUME NEW r \in Requests, ObserveDenied(r) PROVE TypeOK'
  BY <1>3 DEF ObserveDenied, Arrives
<1>4. ASSUME NEW r \in Requests, CreateNew(r) PROVE TypeOK'
  BY <1>4, ZenonT(60) DEF CreateNew, ReplayRecord
<1>5. ASSUME NEW r \in Requests, CreateFill(r) PROVE TypeOK'
  <2>1. KeyOf(r) \in Keys /\ durable[KeyOf(r)] \in [by : Requests, written : BOOLEAN]
    BY <1>5 DEF CreateFill, OwnerInv
  <2>2. Filled(durable[KeyOf(r)]) \in [by : Requests, written : BOOLEAN]
    BY <2>1, FilledRecord
  <2>. QED
    BY <1>5, <2>1, <2>2 DEF CreateFill
<1>6. ASSUME NEW r \in Requests, CreateConflict(r) PROVE TypeOK'
  BY <1>6 DEF CreateConflict
<1>7. ASSUME NEW r \in Requests, CreateFails(r) PROVE TypeOK'
  <2>1. KeyOf(r) \in Keys
    OBVIOUS
  <2>2. CASE pc[r] = "fill"
    <3>1. durable[KeyOf(r)] \in [by : Requests, written : BOOLEAN]
      BY <2>1, <2>2 DEF OwnerInv
    <3>2. Filled(durable[KeyOf(r)]) \in [by : Requests, written : BOOLEAN]
      BY <3>1, FilledRecord
    <3>3. durable' \in {durable, [durable EXCEPT ![KeyOf(r)] = Filled(durable[KeyOf(r)])]}
      BY <1>7, <3>1 DEF CreateFails
    <3>4. durable' \in [Keys -> [by : Requests, written : BOOLEAN] \cup {None}]
      BY <2>1, <3>2, <3>3
    <3>. QED
      BY <1>7, <3>4 DEF CreateFails
  <2>3. CASE pc[r] # "fill"
    <3>1. ReplayRecord(r) \in [by : Requests, written : BOOLEAN]
      BY DEF ReplayRecord
    <3>2. durable' \in {durable, [durable EXCEPT ![KeyOf(r)] = ReplayRecord(r)]}
      BY <1>7, <2>3 DEF CreateFails
    <3>3. durable' \in [Keys -> [by : Requests, written : BOOLEAN] \cup {None}]
      BY <2>1, <3>1, <3>2
    <3>. QED
      BY <1>7, <3>3 DEF CreateFails
  <2>. QED
    BY <2>2, <2>3
<1>8. ASSUME NEW r \in Requests, ReadExisting(r) PROVE TypeOK'
  BY <1>8 DEF ReadExisting
<1>9. ASSUME NEW r \in Requests, Lookup(r) PROVE TypeOK'
  <2>1. verdict[r] = "Retry" => records[IdemOf(r)] \in Nat \cup {None}
    BY DEF OwnerInv
  <2>. QED
    BY <1>9, <2>1 DEF Lookup
<1>10. ASSUME NEW r \in Requests, Run(r) PROVE TypeOK'
  BY <1>10 DEF Run
<1>11. ASSUME NEW r \in Requests, Save(r) PROVE TypeOK'
  BY <1>11 DEF Save
<1>12. ASSUME NEW r \in Requests, OperationFails(r) PROVE TypeOK'
  BY <1>12 DEF OperationFails
<1>13. ASSUME NEW i \in Instances, Restart(i) PROVE TypeOK'
  BY <1>13 DEF Restart, EmptyCache
<1>14. CASE UNCHANGED vars
  BY <1>14 DEF vars
<1>. QED
  BY <1>1, <1>2, <1>3, <1>4, <1>5, <1>6, <1>7, <1>8, <1>9, <1>10, <1>11,
     <1>12, <1>13, <1>14 DEF Next, Handle

(* authorize decides a request in order: cache, record, verdict.           *)
LEMMA NextPhase == Inv /\ [Next]_vars => PhaseInv'
<1>. SUFFICES ASSUME Inv, [Next]_vars, NEW q \in Requests
              PROVE  /\ pc'[q] \in {"new", "create", "fill", "conflict"}
                          => verdict'[q] = None
                     /\ pc'[q] \in {"create", "fill", "conflict"}
                          => status'[q] \in Admitted
                     /\ pc'[q] \in {"lookup", "run", "save", "done"}
                          => verdict'[q] \in Admitted
                     /\ status'[q] = "Retry" => req'[q].idem # NoIdem
  BY DEF PhaseInv, IdemOf
<1>. USE ReplayAssumption DEF Inv, TypeOK, PhaseInv, KeyOf, IdemOf, InFlight, Admitted
<1>1. CASE \E r \in Requests : ObserveFresh(r) \/ ObserveRetry(r) \/ ObserveDenied(r)
  BY <1>1 DEF ObserveFresh, ObserveRetry, ObserveDenied, Arrives, SameIdem
<1>2. CASE \E r \in Requests : CreateNew(r) \/ CreateFill(r) \/ CreateConflict(r) \/ CreateFails(r)
  BY <1>2 DEF CreateNew, CreateFill, CreateConflict, CreateFails
<1>3. CASE \E r \in Requests : ReadExisting(r)
  BY <1>3 DEF ReadExisting
<1>4. CASE \E r \in Requests : Lookup(r) \/ Run(r) \/ Save(r) \/ OperationFails(r)
  BY <1>4 DEF Lookup, Run, Save, OperationFails
<1>5. CASE \E i \in Instances : Restart(i)
  BY <1>5 DEF Restart
<1>6. CASE UNCHANGED vars
  BY <1>6 DEF vars
<1>. QED
  BY <1>1, <1>2, <1>3, <1>4, <1>5, <1>6 DEF Next, Handle

(* The owner of a replay key never changes: a durable replay record is     *)
(* created by one request and neither replaced nor deleted.                *)
LEMMA OwnerStable ==
  ASSUME Inv, [Next]_vars, NEW k \in Keys, durable[k] # None
  PROVE  durable'[k] # None /\ durable'[k].by = durable[k].by
<1>. USE ReplayAssumption DEF Inv, TypeOK, Request, KeyOf
<1>1. ASSUME NEW r \in Requests, CreateNew(r)
      PROVE  durable'[k] = durable[k]
  BY <1>1 DEF CreateNew
<1>2. ASSUME NEW r \in Requests, CreateFill(r) \/ CreateFails(r)
      PROVE  durable'[k] \in {durable[k], Filled(durable[k])}
  BY <1>2 DEF CreateFill, CreateFails
<1>3. ASSUME NEW r \in Requests, Handle(r), ~CreateNew(r), ~CreateFill(r), ~CreateFails(r)
      PROVE  durable' = durable
  BY <1>3 DEF Handle, ObserveFresh, ObserveRetry, ObserveDenied, CreateConflict,
     ReadExisting, Lookup, Run, Save, OperationFails
<1>4. ASSUME NEW i \in Instances, Restart(i) PROVE durable' = durable
  BY <1>4 DEF Restart
<1>5. durable'[k] \in {durable[k], Filled(durable[k])}
  BY <1>1, <1>2, <1>3, <1>4 DEF Next, vars
<1>6. durable[k] \in [by : Requests, written : BOOLEAN]
  OBVIOUS
<1>. QED
  BY <1>5, <1>6, FilledRecord

(* A verdict refers to the owner of the key.                               *)
LEMMA NextOwner == Inv /\ [Next]_vars => OwnerInv'
<1>. SUFFICES ASSUME Inv, [Next]_vars, NEW q \in Requests
              PROVE  /\ pc'[q] = "conflict" => durable'[KeyOf(q)] # None
                     /\ (pc'[q] = "fill" \/ verdict'[q] = "Fresh") =>
                          durable'[KeyOf(q)] # None /\ durable'[KeyOf(q)].by = q
                     /\ verdict'[q] = "Retry" =>
                          /\ durable'[KeyOf(q)] # None
                          /\ IdemOf(durable'[KeyOf(q)].by) = IdemOf(q)
                          /\ IdemOf(q) # NoIdem
  BY ReqStable DEF OwnerInv, KeyOf, IdemOf
<1>0. KeyOf(q) \in Keys
  BY DEF Inv, TypeOK, Request, KeyOf
<1>s. durable[KeyOf(q)] # None =>
        durable'[KeyOf(q)] # None /\ durable'[KeyOf(q)].by = durable[KeyOf(q)].by
  BY <1>0, OwnerStable
<1>. USE ReplayAssumption DEF Inv, TypeOK, PhaseInv, OwnerInv, InFlight, Admitted
<1>1. CASE \E r \in Requests : ObserveFresh(r) \/ ObserveRetry(r) \/ ObserveDenied(r)
  BY <1>1, <1>s DEF ObserveFresh, ObserveRetry, ObserveDenied, Arrives
<1>2. CASE \E r \in Requests : CreateNew(r)
  <2>. PICK r \in Requests : CreateNew(r)
    BY <1>2
  <2>1. CASE q = r
    BY <1>0, <2>1 DEF CreateNew, ReplayRecord
  <2>2. CASE q # r
    BY <1>s, <2>2 DEF CreateNew
  <2>. QED
    BY <2>1, <2>2
<1>3. CASE \E r \in Requests : CreateFill(r)
  BY <1>3, <1>s DEF CreateFill
<1>4. CASE \E r \in Requests : CreateConflict(r) \/ CreateFails(r)
  BY <1>4, <1>s DEF CreateConflict, CreateFails
<1>5. CASE \E r \in Requests : ReadExisting(r)
  BY <1>5, <1>s DEF ReadExisting, SameIdem, ExistingIdem
<1>6. CASE \E r \in Requests : Lookup(r) \/ Run(r) \/ Save(r) \/ OperationFails(r)
  BY <1>6, <1>s DEF Lookup, Run, Save, OperationFails
<1>7. CASE \E i \in Instances : Restart(i)
  BY <1>7, <1>s DEF Restart
<1>8. CASE UNCHANGED vars
  BY <1>8, <1>s DEF vars
<1>. QED
  BY <1>1, <1>2, <1>3, <1>4, <1>5, <1>6, <1>7, <1>8 DEF Next, Handle

(* The inductive invariant holds in every reachable state.                 *)
THEOREM Invariant == Spec => []Inv
  BY InitInv, NextTypeOK, NextPhase, NextOwner, PTL DEF Spec, Inv

(* The state of authorize keeps its types.                                 *)
THEOREM TypeCorrect == Spec => []TypeOK
  BY Invariant, PTL DEF Inv

(* A replay key is let through as fresh at most once, over all instances   *)
(* and restarts.                                                           *)
THEOREM FreshOnceHolds == Spec => []FreshOnce
<1>1. Inv => FreshOnce
  BY DEF Inv, OwnerInv, FreshOnce
<1>. QED
  BY Invariant, <1>1, PTL

(* All requests let through for a replay key carry one idempotency key.    *)
THEOREM AdmittedAgreeHolds == Spec => []AdmittedAgree
<1>1. Inv => AdmittedAgree
  BY ReplayAssumption DEF Inv, OwnerInv, AdmittedAgree, Admitted
<1>. QED
  BY Invariant, <1>1, PTL

-----------------------------------------------------------------------------
(***************************************************************************)
(* Retries.  An answer under an idempotency key comes after its record was *)
(* written, and a record is never removed: whoever looks for it later      *)
(* finds it.                                                               *)
(***************************************************************************)
ClientInv == \A r \in Requests : (IdemOf(r) = NoIdem) <=> (KeyOf(r) \in ChunkKeys)

RecordInv ==
  \A r \in Requests :
    /\ pc[r] = "save" => result[r] # None /\ IdemOf(r) # NoIdem
    /\ (pc[r] = "done" /\ IdemOf(r) # NoIdem) => records[IdemOf(r)] # None

RetryInv == Inv /\ ClientInv /\ RecordInv

(* The initial states satisfy the invariant about retries.                 *)
LEMMA InitRetryInv == Init => RetryInv
<1>1. Init => ClientInv /\ RecordInv
  BY DEF Init, ClientRequests, ClientInv, RecordInv
<1>. QED
  BY <1>1, InitInv DEF RetryInv

(* Requests never change, so PUT_CHUNK stays the one without a key.        *)
LEMMA NextClient == ClientInv /\ [Next]_vars => ClientInv'
  BY ReqStable DEF ClientInv, IdemOf, KeyOf

(* Nothing removes an idempotency record.                                  *)
LEMMA RecordKept ==
  ASSUME RetryInv, [Next]_vars, NEW m \in Idems, records[m] # None
  PROVE  records'[m] # None
<1>. USE ReplayAssumption DEF RetryInv, Inv, TypeOK
<1>1. ASSUME NEW x \in Requests, Save(x) PROVE records'[m] # None
  BY <1>1 DEF Save, RecordInv
<1>2. ASSUME NEW x \in Requests, Handle(x), ~Save(x) PROVE records' = records
  BY <1>2 DEF Handle, ObserveFresh, ObserveRetry, ObserveDenied, CreateNew, CreateFill,
     CreateConflict, CreateFails, ReadExisting, Lookup, Run, OperationFails
<1>3. ASSUME NEW i \in Instances, Restart(i) PROVE records' = records
  BY <1>3 DEF Restart
<1>. QED
  BY <1>1, <1>2, <1>3 DEF Next, vars

(* A request is answered after its record is there.                        *)
LEMMA NextRecord == RetryInv /\ [Next]_vars => RecordInv'
<1>. SUFFICES ASSUME RetryInv, [Next]_vars, NEW r \in Requests
              PROVE  /\ pc'[r] = "save" => result'[r] # None /\ IdemOf(r) # NoIdem
                     /\ (pc'[r] = "done" /\ IdemOf(r) # NoIdem) => records'[IdemOf(r)] # None
  BY ReqStable DEF RecordInv, IdemOf
<1>0. IdemOf(r) # NoIdem => IdemOf(r) \in Idems
  BY DEF RetryInv, Inv, TypeOK, Request, IdemOrNone, IdemOf
<1>1. IdemOf(r) # NoIdem /\ records[IdemOf(r)] # None => records'[IdemOf(r)] # None
  BY <1>0, RecordKept
<1>. USE ReplayAssumption DEF RetryInv, Inv, TypeOK, RecordInv
<1>2. ASSUME NEW x \in Requests, ObserveFresh(x) \/ ObserveRetry(x) \/ ObserveDenied(x)
      PROVE  pc'[r] \notin {"save", "done"} \/ (pc'[r] = pc[r] /\ result' = result)
  BY <1>2 DEF ObserveFresh, ObserveRetry, ObserveDenied
<1>3. ASSUME NEW x \in Requests, CreateNew(x) \/ CreateFill(x) \/ CreateConflict(x)
                                 \/ CreateFails(x) \/ ReadExisting(x) \/ OperationFails(x)
      PROVE  pc'[r] \notin {"save", "done"} \/ (pc'[r] = pc[r] /\ result' = result)
  BY <1>3 DEF CreateNew, CreateFill, CreateConflict, CreateFails, ReadExisting, OperationFails
<1>4. ASSUME NEW i \in Instances, Restart(i)
      PROVE  pc'[r] \notin {"save", "done"} \/ (pc'[r] = pc[r] /\ result' = result)
  BY <1>4 DEF Restart, InFlight
<1>5. ASSUME pc'[r] \notin {"save", "done"} \/ (pc'[r] = pc[r] /\ result' = result)
      PROVE  /\ pc'[r] = "save" => result'[r] # None /\ IdemOf(r) # NoIdem
             /\ (pc'[r] = "done" /\ IdemOf(r) # NoIdem) => records'[IdemOf(r)] # None
  BY <1>5, <1>1
<1>6. ASSUME NEW x \in Requests, Lookup(x)
      PROVE  /\ pc'[r] = "save" => result'[r] # None /\ IdemOf(r) # NoIdem
             /\ (pc'[r] = "done" /\ IdemOf(r) # NoIdem) => records'[IdemOf(r)] # None
  BY <1>6, <1>1 DEF Lookup
<1>7. ASSUME NEW x \in Requests, Run(x)
      PROVE  /\ pc'[r] = "save" => result'[r] # None /\ IdemOf(r) # NoIdem
             /\ (pc'[r] = "done" /\ IdemOf(r) # NoIdem) => records'[IdemOf(r)] # None
  BY <1>7, <1>1 DEF Run, ClientInv
<1>8. ASSUME NEW x \in Requests, Save(x)
      PROVE  /\ pc'[r] = "save" => result'[r] # None /\ IdemOf(r) # NoIdem
             /\ (pc'[r] = "done" /\ IdemOf(r) # NoIdem) => records'[IdemOf(r)] # None
  BY <1>8, <1>0, <1>1 DEF Save
<1>. QED
  BY <1>1, <1>2, <1>3, <1>4, <1>5, <1>6, <1>7, <1>8 DEF Next, Handle, vars

(* After the first answer under an idempotency key no retry runs the       *)
(* operation again.                                                        *)
THEOREM RetriesNotRerunHolds == Spec => RetriesNotRerun
<1>1. RetryInv /\ [Next]_vars =>
        [\A r, s \in Requests :
           (/\ pc[s] = "done" /\ IdemOf(r) = IdemOf(s) /\ IdemOf(r) # NoIdem
            /\ pc[r] # "run" /\ pc'[r] = "run")
              => verdict[r] = "Fresh"]_vars
  <2>. SUFFICES ASSUME RetryInv, [Next]_vars, NEW r \in Requests, NEW s \in Requests,
                       pc[s] = "done", IdemOf(r) = IdemOf(s), IdemOf(r) # NoIdem,
                       pc[r] # "run", pc'[r] = "run"
                PROVE  verdict[r] = "Fresh"
    OBVIOUS
  <2>. USE DEF RetryInv, Inv, TypeOK
  <2>1. \E x \in Requests : Lookup(x)
    <3>1. ASSUME NEW x \in Requests, Handle(x), ~Lookup(x) PROVE FALSE
      BY <3>1 DEF Handle, ObserveFresh, ObserveRetry, ObserveDenied, CreateNew, CreateFill,
         CreateConflict, CreateFails, ReadExisting, Run, Save, OperationFails
    <3>2. ASSUME NEW i \in Instances, Restart(i) PROVE FALSE
      BY <3>2 DEF Restart
    <3>. QED
      BY <3>1, <3>2 DEF Next, vars
  <2>2. records[IdemOf(r)] # None
    BY DEF RecordInv
  <2>3. pc[r] = "lookup" /\ verdict[r] # "Retry"
    BY <2>1, <2>2 DEF Lookup
  <2>. QED
    BY <2>3 DEF PhaseInv, Admitted
<1>2. RetryInv /\ [Next]_vars => RetryInv'
  BY NextTypeOK, NextPhase, NextOwner, NextClient, NextRecord DEF RetryInv, Inv
<1>. QED
  BY InitRetryInv, <1>1, <1>2, PTL DEF Spec, RetriesNotRerun

-----------------------------------------------------------------------------
(* The initial states map to initial states of Admission.                  *)
LEMMA InitRefines == Init => Promise!Init
  BY ReplayAssumption
  DEF Init, Promise!Init, AbsCall, AbsOwner, ClientRequests, Request, IdemOrNone, KeyOf, IdemOf

(* The abstract call of a request is its key and idempotency key, the      *)
(* abstract owner of a key is the creator of its durable record.           *)
LEMMA AbsValues ==
  ASSUME Inv, NEW r \in Requests
  PROVE  /\ AbsCall[r].key = KeyOf(r) /\ AbsCall[r].idem = IdemOf(r)
         /\ KeyOf(r) \in Keys
         /\ durable[KeyOf(r)] = None => AbsOwner[KeyOf(r)] = None
         /\ durable[KeyOf(r)] # None =>
              /\ AbsOwner[KeyOf(r)] = durable[KeyOf(r)].by
              /\ durable[KeyOf(r)].by \in Requests
              /\ AbsOwner[KeyOf(r)] # None
              /\ AbsCall[durable[KeyOf(r)].by].idem = IdemOf(durable[KeyOf(r)].by)
  BY ReplayAssumption DEF Inv, TypeOK, Request, AbsCall, AbsOwner, KeyOf, IdemOf

(* Writing the contents of a record does not move ownership.               *)
LEMMA OwnerStep ==
  ASSUME Inv, [Next]_vars, NEW r \in Requests, KeyOf(r) \in Keys,
         \/ durable' = durable
         \/ /\ durable[KeyOf(r)] # None
            /\ durable' = [durable EXCEPT ![KeyOf(r)] = Filled(@)]
  PROVE  AbsOwner' = AbsOwner
<1>1. CASE durable' = durable
  BY <1>1 DEF AbsOwner
<1>2. CASE /\ durable[KeyOf(r)] # None
           /\ durable' = [durable EXCEPT ![KeyOf(r)] = Filled(@)]
  <2>1. durable[KeyOf(r)] \in [by : Requests, written : BOOLEAN]
    BY <1>2 DEF Inv, TypeOK
  <2>2. Filled(durable[KeyOf(r)]) # None /\ Filled(durable[KeyOf(r)]).by = durable[KeyOf(r)].by
    BY <2>1, FilledRecord, ReplayAssumption
  <2>. QED
    BY <1>2, <2>2 DEF AbsOwner, Inv, TypeOK
<1>. QED
  BY <1>1, <1>2

(* Creating the durable record is the claim.                               *)
LEMMA ClaimStep ==
  ASSUME Inv, NEW r \in Requests, KeyOf(r) \in Keys,
         durable' = [durable EXCEPT ![KeyOf(r)] = ReplayRecord(r)]
  PROVE  AbsOwner' = [AbsOwner EXCEPT ![KeyOf(r)] = r]
<1>1. ReplayRecord(r) # None /\ ReplayRecord(r).by = r
  <2>1. atomic \in BOOLEAN
    BY DEF Inv, TypeOK
  <2>2. ReplayRecord(r) \in [by : Requests, written : BOOLEAN]
    BY <2>1 DEF ReplayRecord
  <2>. QED
    BY <2>2, ReplayAssumption DEF ReplayRecord
<1>2. durable'[KeyOf(r)] = ReplayRecord(r)
  BY DEF Inv, TypeOK
<1>3. \A k \in Keys : k # KeyOf(r) => durable'[k] = durable[k]
  BY DEF Inv, TypeOK
<1>4. \A k \in Keys : AbsOwner'[k] = IF k = KeyOf(r) THEN r ELSE AbsOwner[k]
  BY <1>1, <1>2, <1>3 DEF AbsOwner
<1>. QED
  BY <1>4 DEF AbsOwner

(* Every step is a claim, a decision or a stutter of Admission.            *)
LEMMA NextRefines == Inv /\ [Next]_vars => [Promise!Next]_(Promise!vars)
<1>. SUFFICES ASSUME Inv, [Next]_vars PROVE [Promise!Next]_(Promise!vars)
  OBVIOUS
<1>0. AbsCall' = AbsCall
  BY ReqStable DEF AbsCall, KeyOf, IdemOf
<1>. DEFINE Stutter == AbsOwner' = AbsOwner /\ verdict' = verdict
<1>1. Stutter => [Promise!Next]_(Promise!vars)
  BY <1>0 DEF Promise!vars
<1>2. ASSUME NEW r \in Requests, Promise!Claim(r) \/ Promise!Decide(r)
      PROVE  [Promise!Next]_(Promise!vars)
  BY <1>2 DEF Promise!Next
<1>3. ASSUME NEW r \in Requests, Handle(r)
      PROVE  Promise!Claim(r) \/ Promise!Decide(r) \/ Stutter
  <2>a. /\ AbsCall[r].key = KeyOf(r) /\ AbsCall[r].idem = IdemOf(r) /\ KeyOf(r) \in Keys
        /\ durable[KeyOf(r)] = None => AbsOwner[KeyOf(r)] = None
        /\ durable[KeyOf(r)] # None =>
              /\ AbsOwner[KeyOf(r)] = durable[KeyOf(r)].by
              /\ durable[KeyOf(r)].by \in Requests
              /\ AbsOwner[KeyOf(r)] # None
              /\ AbsCall[durable[KeyOf(r)].by].idem = IdemOf(durable[KeyOf(r)].by)
    BY AbsValues
  <2>b. durable' = durable => AbsOwner' = AbsOwner
    BY DEF AbsOwner
  <2>1. CASE ObserveFresh(r) \/ ObserveRetry(r) \/ CreateConflict(r) \/ Lookup(r) \/ Run(r)
             \/ Save(r) \/ OperationFails(r)
    BY <2>1, <2>b DEF ObserveFresh, ObserveRetry, CreateConflict, Lookup, Run, Save, OperationFails
  <2>2. CASE ObserveDenied(r)
    BY <2>2, <2>b, <1>0 DEF ObserveDenied, Arrives, Promise!Decide, Inv, PhaseInv
  <2>3. CASE CreateNew(r)
    <3>0. AbsOwner' = [AbsOwner EXCEPT ![KeyOf(r)] = r]
      BY <2>3, <2>a, ClaimStep DEF CreateNew
    <3>1. AbsOwner' = [AbsOwner EXCEPT ![KeyOf(r)] = r] /\ AbsOwner'[KeyOf(r)] = r
      BY <3>0, <2>a DEF AbsOwner
    <3>2. verdict[r] = None /\ status[r] \in Admitted
      BY <2>3 DEF CreateNew, Inv, PhaseInv
    <3>3. status[r] = "Retry" => Promise!MayBeRetry(r, AbsOwner')
      BY <2>a, <3>1, ReplayAssumption DEF Promise!MayBeRetry, Inv, PhaseInv
    <3>4. verdict' \in {verdict, [verdict EXCEPT ![r] = status[r]]}
      BY <2>3 DEF CreateNew
    <3>5. verdict = [verdict EXCEPT ![r] = None]
      BY <3>2 DEF Inv, TypeOK
    <3>6. \E v \in {None, "Fresh", "Retry"} :
             /\ v = "Retry" => Promise!MayBeRetry(r, AbsOwner')
             /\ verdict' = [verdict EXCEPT ![r] = v]
      BY <3>2, <3>3, <3>4, <3>5, ReplayAssumption DEF Admitted
    <3>. QED
      BY <2>3, <2>a, <3>1, <3>2, <3>6, <1>0 DEF CreateNew, Promise!Claim
  <2>4. CASE CreateFill(r)
    <3>1. durable[KeyOf(r)] # None /\ durable[KeyOf(r)].by = r
      BY <2>4 DEF CreateFill, Inv, OwnerInv
    <3>2. AbsOwner' = AbsOwner
      BY <2>4, <2>a, <3>1, OwnerStep DEF CreateFill
    <3>3. verdict[r] = None /\ status[r] \in Admitted
      BY <2>4 DEF CreateFill, Inv, PhaseInv
    <3>4. status[r] = "Fresh" => Promise!MayBeFresh(r, AbsOwner)
      BY <2>a, <3>1 DEF Promise!MayBeFresh
    <3>5. status[r] = "Retry" => Promise!MayBeRetry(r, AbsOwner)
      BY <2>a, <3>1 DEF Promise!MayBeRetry, Inv, PhaseInv
    <3>. QED
      BY <2>4, <3>2, <3>3, <3>4, <3>5, <1>0 DEF CreateFill, Promise!Decide, Admitted
  <2>5. CASE CreateFails(r)
    <3>1. CASE durable' = durable
      BY <2>5, <2>b, <3>1 DEF CreateFails
    <3>2. CASE durable[KeyOf(r)] = None /\ durable' = [durable EXCEPT ![KeyOf(r)] = ReplayRecord(r)]
      <4>1. AbsOwner' = [AbsOwner EXCEPT ![KeyOf(r)] = r]
        BY <3>2, <2>a, ClaimStep
      <4>2. pc[r] = "create" /\ verdict[r] = None
        BY <2>5, <3>2 DEF CreateFails, Inv, OwnerInv, PhaseInv
      <4>3. verdict' = [verdict EXCEPT ![r] = None]
        BY <2>5, <4>2 DEF CreateFails, Inv, TypeOK
      <4>. QED
        BY <3>2, <2>a, <4>1, <4>2, <4>3, <1>0, ReplayAssumption DEF Promise!Claim
    <3>3. CASE pc[r] = "fill" /\ durable' = [durable EXCEPT ![KeyOf(r)] = Filled(@)]
      <4>1. durable[KeyOf(r)] # None
        BY <3>3 DEF Inv, OwnerInv
      <4>. QED
        BY <2>5, <3>3, <4>1, <2>a, OwnerStep DEF CreateFails
    <3>. QED
      BY <2>5, <3>1, <3>2, <3>3 DEF CreateFails
  <2>6. CASE ReadExisting(r)
    <3>1. durable[KeyOf(r)] # None /\ verdict[r] = None /\ durable' = durable
      BY <2>6 DEF ReadExisting, Inv, OwnerInv, PhaseInv
    <3>2. SameIdem(r, ExistingIdem(r)) => Promise!MayBeRetry(r, AbsOwner)
      BY <2>a, <3>1 DEF SameIdem, ExistingIdem, Promise!MayBeRetry
    <3>. QED
      BY <2>6, <2>b, <3>1, <3>2, <1>0 DEF ReadExisting, Promise!Decide
  <2>. QED
    BY <1>3, <2>1, <2>2, <2>3, <2>4, <2>5, <2>6 DEF Handle
<1>4. ASSUME NEW i \in Instances, Restart(i) PROVE Stutter
  BY <1>4 DEF Restart, AbsOwner
<1>5. UNCHANGED vars => Stutter
  BY DEF vars, AbsOwner
<1>. QED
  BY <1>1, <1>2, <1>3, <1>4, <1>5 DEF Next

(* The cache and the durable records together implement Admission.         *)
THEOREM ImplementsAdmission == Spec => Admits
  BY InitRefines, NextRefines, Invariant, PTL DEF Spec, Admits, Promise!Spec
=============================================================================
