----------------------------- MODULE ReplayGuard -----------------------------
(***************************************************************************)
(* Replay protection and idempotent retries of HSP mutations.              *)
(*                                                                         *)
(* AlphaService::authorize asks two stores about a request: the replay     *)
(* cache in the memory of the server instance (hsp-auth, ReplayCache) and  *)
(* the durable "replay" records that all instances share, created with     *)
(* create-if-absent (hsp-service, observe_durable_replay).  A request that *)
(* is let through runs its operation and saves the response under its      *)
(* idempotency key; a retry answers from that record when there is one.    *)
(*                                                                         *)
(* One step is one access to a store.  Requests are handled concurrently   *)
(* on several instances, an instance crashes and restarts with an empty    *)
(* cache, and store accesses fail.  The replay keys are those of one       *)
(* tenant; keys in ChunkKeys belong to PUT_CHUNK, which carries no         *)
(* idempotency key, the other keys to one operation that does.             *)
(***************************************************************************)
EXTENDS Naturals

CONSTANTS Requests,      \* every request that reaches the service, retries too
          Instances,     \* server processes that share the store
          Keys,          \* replay keys: tenant | jti | operation | subject
          ChunkKeys,     \* the replay keys of PUT_CHUNK
          Idems,         \* idempotency keys
          NoIdem,        \* idempotency_key: None
          None           \* nothing stored, nothing decided

ASSUME ReplayAssumption ==
  /\ ChunkKeys \subseteq Keys
  /\ NoIdem \notin Idems
  /\ None \notin Idems \cup {NoIdem} \cup Requests \cup Nat
  /\ None \notin {"Fresh", "Retry", "Denied"}
  /\ None \notin [by : Requests, written : BOOLEAN]

VARIABLES
  atomic,   \* the store: S3 If-None-Match, or FALSE: create_new, then write
  req,      \* req[r]: where r arrives, its replay key and idempotency key
  pc,       \* pc[r]: the next step of the handler of r
  status,   \* status[r]: what the instance's cache said of r
  verdict,  \* verdict[r]: what authorize returned for r
  result,   \* result[r]: the response of r, named by the execution it is of
  seen,     \* seen[i][k]: the replay cache of instance i
  durable,  \* durable[k]: the replay record in the store, and whose it is
  records,  \* records[m]: the idempotency record of the operation under m
  execs     \* how many times an operation ran

vars == <<atomic, req, pc, status, verdict, result, seen, durable, records, execs>>

IdemOrNone == Idems \cup {NoIdem}
Request == [inst : Instances, key : Keys, idem : IdemOrNone]
InFlight == {"create", "fill", "conflict", "lookup", "run", "save"}
Admitted == {"Fresh", "Retry"}

KeyOf(r) == req[r].key
IdemOf(r) == req[r].idem

(* What the clients send: only PUT_CHUNK comes without an idempotency key. *)
(* A client may repeat a request at any time, also while it is handled,    *)
(* and may use an idempotency key again with another token.                *)
ClientRequests ==
  /\ req \in [Requests -> Request]
  /\ \A r \in Requests : (IdemOf(r) = NoIdem) <=> (KeyOf(r) \in ChunkKeys)

EmptyCache == [k \in Keys |-> None]

Init ==
  /\ atomic \in BOOLEAN
  /\ ClientRequests
  /\ pc = [r \in Requests |-> "new"]
  /\ status = [r \in Requests |-> None]
  /\ verdict = [r \in Requests |-> None]
  /\ result = [r \in Requests |-> None]
  /\ seen = [i \in Instances |-> EmptyCache]
  /\ durable = [k \in Keys |-> None]
  /\ records = [m \in Idems |-> None]
  /\ execs = 0

(***************************************************************************)
(* ReplayCache::observe, one critical section of the cache's mutex.        *)
(***************************************************************************)
Arrives(r) == pc[r] = "new"

(* Mutant: that both carry an idempotency key is enough.                   *)
SameIdemAny(r, idem) == IdemOf(r) # NoIdem /\ idem \notin {NoIdem, None}

(* idempotency_key == Some(existing): an absent key equals nothing.        *)
SameIdem(r, idem) == IdemOf(r) = idem /\ idem # NoIdem

ObserveFresh(r) ==
  /\ Arrives(r)
  /\ seen[req[r].inst][KeyOf(r)] = None
  /\ seen' = [seen EXCEPT ![req[r].inst][KeyOf(r)] = IdemOf(r)]
  /\ status' = [status EXCEPT ![r] = "Fresh"]
  /\ pc' = [pc EXCEPT ![r] = "create"]
  /\ UNCHANGED <<atomic, req, verdict, result, durable, records, execs>>

ObserveRetry(r) ==
  /\ Arrives(r)
  /\ SameIdem(r, seen[req[r].inst][KeyOf(r)])
  /\ status' = [status EXCEPT ![r] = "Retry"]
  /\ pc' = [pc EXCEPT ![r] = "create"]
  /\ UNCHANGED <<atomic, req, verdict, result, seen, durable, records, execs>>

ObserveDenied(r) ==
  /\ Arrives(r)
  /\ seen[req[r].inst][KeyOf(r)] # None
  /\ ~SameIdem(r, seen[req[r].inst][KeyOf(r)])
  /\ verdict' = [verdict EXCEPT ![r] = "Denied"]
  /\ pc' = [pc EXCEPT ![r] = "denied"]
  /\ UNCHANGED <<atomic, req, status, result, seen, durable, records, execs>>

(***************************************************************************)
(* observe_durable_replay over StoreBackend::create and read.              *)
(***************************************************************************)
ReplayRecord(r) == [by |-> r, written |-> atomic]
(* Mutant: the fill writes a record without the request's fields.          *)
FilledWithDefault(record) == [record EXCEPT !.by = None, !.written = TRUE]

Filled(record) == [record EXCEPT !.written = TRUE]

(* Mutant: a plain write in place of create-if-absent.                     *)
CreateNewOverwrites(r) ==
  /\ pc[r] = "create"
  /\ durable' = [durable EXCEPT ![KeyOf(r)] = ReplayRecord(r)]
  /\ pc' = [pc EXCEPT ![r] = IF atomic THEN "lookup" ELSE "fill"]
  /\ verdict' = [verdict EXCEPT ![r] = IF atomic THEN status[r] ELSE @]
  /\ UNCHANGED <<atomic, req, status, result, seen, records, execs>>

(* The record is absent: S3 stores it at once, the filesystem first makes  *)
(* the empty file.                                                         *)
CreateNew(r) ==
  /\ pc[r] = "create"
  /\ durable[KeyOf(r)] = None
  /\ durable' = [durable EXCEPT ![KeyOf(r)] = ReplayRecord(r)]
  /\ \/ /\ atomic
        /\ pc' = [pc EXCEPT ![r] = "lookup"]
        /\ verdict' = [verdict EXCEPT ![r] = status[r]]
     \/ /\ ~atomic
        /\ pc' = [pc EXCEPT ![r] = "fill"]
        /\ UNCHANGED verdict
  /\ UNCHANGED <<atomic, req, status, result, seen, records, execs>>

CreateFill(r) ==
  /\ pc[r] = "fill"
  /\ durable' = [durable EXCEPT ![KeyOf(r)] = Filled(@)]
  /\ verdict' = [verdict EXCEPT ![r] = status[r]]
  /\ pc' = [pc EXCEPT ![r] = "lookup"]
  /\ UNCHANGED <<atomic, req, status, result, seen, records, execs>>

CreateConflict(r) ==
  /\ pc[r] = "create"
  /\ durable[KeyOf(r)] # None
  /\ pc' = [pc EXCEPT ![r] = "conflict"]
  /\ UNCHANGED <<atomic, req, status, verdict, result, seen, durable, records, execs>>

(* The store reports an error; the record may have been created all the    *)
(* same (an S3 answer that got lost, a file opened or written, not synced). *)
CreateFails(r) ==
  /\ pc[r] \in {"create", "fill"}
  /\ \/ UNCHANGED durable
     \/ /\ durable[KeyOf(r)] = None
        /\ durable' = [durable EXCEPT ![KeyOf(r)] = ReplayRecord(r)]
     \/ /\ pc[r] = "fill"
        /\ durable' = [durable EXCEPT ![KeyOf(r)] = Filled(@)]
  /\ pc' = [pc EXCEPT ![r] = "failed"]
  /\ UNCHANGED <<atomic, req, status, verdict, result, seen, records, execs>>

ExistingIdem(r) == IdemOf(durable[KeyOf(r)].by)

(* Mutant: every conflict counts as a retry.                               *)
ReadExistingUncompared(r) ==
  /\ pc[r] = "conflict"
  /\ verdict' = [verdict EXCEPT ![r] = "Retry"]
  /\ pc' = [pc EXCEPT ![r] = "lookup"]
  /\ UNCHANGED <<atomic, req, status, result, seen, durable, records, execs>>

ReadExisting(r) ==
  /\ pc[r] = "conflict"
  /\ \/ /\ durable[KeyOf(r)].written
        /\ SameIdem(r, ExistingIdem(r))
        /\ verdict' = [verdict EXCEPT ![r] = "Retry"]
        /\ pc' = [pc EXCEPT ![r] = "lookup"]
     \/ /\ durable[KeyOf(r)].written
        /\ ~SameIdem(r, ExistingIdem(r))
        /\ verdict' = [verdict EXCEPT ![r] = "Denied"]
        /\ pc' = [pc EXCEPT ![r] = "denied"]
     \/ /\ ~durable[KeyOf(r)].written      \* the envelope does not decode
        /\ pc' = [pc EXCEPT ![r] = "failed"]
        /\ UNCHANGED verdict
  /\ UNCHANGED <<atomic, req, status, result, seen, durable, records, execs>>

(***************************************************************************)
(* The admitted operation: a retry answers from the idempotency record,    *)
(* everything else runs and saves one.                                     *)
(***************************************************************************)
(* Mutant: the retry does not look for the idempotency record.             *)
LookupSkipped(r) ==
  /\ pc[r] = "lookup"
  /\ pc' = [pc EXCEPT ![r] = "run"]
  /\ UNCHANGED <<atomic, req, status, verdict, result, seen, durable, records, execs>>

Lookup(r) ==
  /\ pc[r] = "lookup"
  /\ \/ /\ verdict[r] = "Retry"
        /\ records[IdemOf(r)] # None
        /\ result' = [result EXCEPT ![r] = records[IdemOf(r)]]
        /\ pc' = [pc EXCEPT ![r] = "done"]
     \/ /\ verdict[r] = "Retry" => records[IdemOf(r)] = None
        /\ pc' = [pc EXCEPT ![r] = "run"]
        /\ UNCHANGED result
  /\ UNCHANGED <<atomic, req, status, verdict, seen, durable, records, execs>>

Run(r) ==
  /\ pc[r] = "run"
  /\ execs' = execs + 1
  /\ result' = [result EXCEPT ![r] = execs + 1]
  /\ pc' = [pc EXCEPT ![r] = IF KeyOf(r) \in ChunkKeys THEN "done" ELSE "save"]
  /\ UNCHANGED <<atomic, req, status, verdict, seen, durable, records>>

Save(r) ==
  /\ pc[r] = "save"
  /\ records' = [records EXCEPT ![IdemOf(r)] = result[r]]
  /\ pc' = [pc EXCEPT ![r] = "done"]
  /\ UNCHANGED <<atomic, req, status, verdict, result, seen, durable, execs>>

(* A precondition or a store access of the operation fails.                *)
OperationFails(r) ==
  /\ pc[r] \in {"conflict", "lookup", "run", "save"}
  /\ pc' = [pc EXCEPT ![r] = "failed"]
  /\ UNCHANGED <<atomic, req, status, verdict, result, seen, durable, records, execs>>

(* A server process dies with its handlers and starts with an empty cache. *)
Restart(i) ==
  /\ pc' = [r \in Requests |->
              IF req[r].inst = i /\ pc[r] \in InFlight THEN "lost" ELSE pc[r]]
  /\ seen' = [seen EXCEPT ![i] = EmptyCache]
  /\ UNCHANGED <<atomic, req, status, verdict, result, durable, records, execs>>

Handle(r) ==
  \/ ObserveFresh(r) \/ ObserveRetry(r) \/ ObserveDenied(r)
  \/ CreateNew(r) \/ CreateFill(r) \/ CreateConflict(r) \/ CreateFails(r)
  \/ ReadExisting(r) \/ Lookup(r) \/ Run(r) \/ Save(r) \/ OperationFails(r)

Next == (\E r \in Requests : Handle(r)) \/ (\E i \in Instances : Restart(i))

Spec == Init /\ [][Next]_vars

-----------------------------------------------------------------------------
(* The values the state of authorize takes.                                *)
TypeOK ==
  /\ atomic \in BOOLEAN
  /\ req \in [Requests -> Request]
  /\ pc \in [Requests -> InFlight \cup {"new", "denied", "failed", "lost", "done"}]
  /\ status \in [Requests -> Admitted \cup {None}]
  /\ verdict \in [Requests -> Admitted \cup {"Denied", None}]
  /\ result \in [Requests -> Nat \cup {None}]
  /\ seen \in [Instances -> [Keys -> IdemOrNone \cup {None}]]
  /\ durable \in [Keys -> [by : Requests, written : BOOLEAN] \cup {None}]
  /\ records \in [Idems -> Nat \cup {None}]
  /\ execs \in Nat

(* authorize lets a replay key through as fresh at most once, whatever     *)
(* instances handle it, however often they restart, and whichever of the   *)
(* two stores fails in between.                                            *)
FreshOnce ==
  \A r, s \in Requests :
    (verdict[r] = "Fresh" /\ verdict[s] = "Fresh" /\ KeyOf(r) = KeyOf(s))
      => r = s

(* The requests authorize lets through for one replay key all carry the    *)
(* same idempotency key, and without an idempotency key only one request   *)
(* is let through: a captured PUT_CHUNK token cannot be used twice.        *)
AdmittedAgree ==
  \A r, s \in Requests :
    (verdict[r] \in Admitted /\ verdict[s] \in Admitted /\ KeyOf(r) = KeyOf(s))
      => (IdemOf(r) = IdemOf(s) /\ (IdemOf(r) = NoIdem => r = s))

(* Once a request was answered under an idempotency key, a retry under     *)
(* that key no longer starts the operation, whatever instance it reaches   *)
(* and whatever was restarted since: only the request that holds its token *)
(* as fresh can.  (A retry that starts before the first answer, or with a  *)
(* renewed token, does run the operation again.)                           *)
RetriesNotRerun ==
  [][\A r, s \in Requests :
       (/\ pc[s] = "done" /\ IdemOf(r) = IdemOf(s) /\ IdemOf(r) # NoIdem
        /\ pc[r] # "run" /\ pc'[r] = "run")
          => verdict[r] = "Fresh"]_vars

(* The two-store implementation keeps the promise of Admission: the        *)
(* durable record names the owner of a replay key.                         *)
AbsCall == [r \in Requests |-> [key |-> KeyOf(r), idem |-> IdemOf(r)]]
AbsOwner == [k \in Keys |-> IF durable[k] = None THEN None ELSE durable[k].by]

Promise == INSTANCE Admission WITH call <- AbsCall, owner <- AbsOwner

Admits == Promise!Spec
=============================================================================
