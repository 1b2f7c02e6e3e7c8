-------------------------------- MODULE Edge ---------------------------------
(***************************************************************************)
(* Reads of one object: HEAD and GET of hsp-service, head_object and       *)
(* get_object of hsp-distribution on top of them, and the cache of hsp-cdn *)
(* in front, with the worker that purges it.                               *)
(*                                                                         *)
(* get_object is several reads of the namespace: with a CID and a binding  *)
(* it resolves the key to check the CID, then resolves it again for the    *)
(* metadata and a third time for the body (and a fourth for the manifest   *)
(* of a decrypted answer).  The cache stores what it fetched under the CID *)
(* or the key that was asked for.  The worker polls the event stream, and  *)
(* moves its cursor before it purges.                                      *)
(*                                                                         *)
(* Abstracted: a change and its event are one step (modules Namespace and  *)
(* EventStream are about what comes in between); the versions of the       *)
(* object are numbered, and the number is its CID, manifest and ETag; one  *)
(* tenant; authorization (module FrontEnd) has let the request through; a  *)
(* HEAD of the CDN is a GET whose body is not sent.                        *)
(***************************************************************************)
EXTENDS Naturals, Sequences, SequencesExt

CONSTANTS Readers,    \* concurrent read requests
          Content,    \* Content[v]: the chunks of version v
          Ranges,     \* ranges clients ask for
          CidTtl, NamespaceTtl,
          Window,     \* the replay window of the event stream
          BatchMax,   \* events per poll (128)
          None,
          MaxTime, MaxEvents, MaxReads, MaxFaults  \* bounds

Versions == DOMAIN Content
Routes == {"cid", "bound_cid", "key", "s3", "get", "head"}

ASSUME EdgeAssumption ==
  /\ Content \in Seq(Seq(Seq(Nat))) /\ Content # <<>>
  /\ \A v \in Versions : Content[v] # <<>> /\ <<>> \notin ToSet(Content[v])
  /\ Ranges \subseteq [start : Nat, end : Nat]
  /\ CidTtl \in Nat /\ NamespaceTtl \in Nat /\ Window \in Nat /\ BatchMax \in Nat \ {0}
  /\ MaxTime \in Nat /\ MaxEvents \in Nat /\ MaxReads \in Nat /\ MaxFaults \in Nat

VARIABLES
  current,  \* the version bound to the key, None when there is none
  log,      \* the event stream: TRUE for an event of this key
  clock,
  cache,    \* the CDN's entries, by CID and for the key; "steady" and "at",
            \* the events before it was stored, are history
  cursor,   \* the worker's cursor, None before its first poll
  batch,    \* the events the worker polled and has still to apply
  pc, job,  \* each reader's next step and request
  got,      \* what the reader has read so far
  since,    \* history: the versions current since the reader's request began
  last,     \* the answer the last step gave, None for an error or another step
  reads, faults

origin == <<current, log>>
edge == <<cache, cursor, batch>>
readers == <<pc, job, got, since>>
vars == <<origin, clock, edge, readers, last, reads, faults>>

KeyEntry == 0  \* the cache entry of the key; the others are CIDs
CacheKeys == Versions \cup {KeyEntry}
Nothing == [now |-> 0, head |-> None, body |-> None, data |-> <<>>]
NoJob == [route |-> None, cid |-> None, range |-> None, if_match |-> None,
          if_none_match |-> None, plain |-> FALSE]

(* The key is bound to the first version; the CDN has just started.        *)
Init ==
  /\ current = 1
  /\ log = <<>>
  /\ clock = 0
  /\ cache = [k \in CacheKeys |-> None]
  /\ cursor = None /\ batch = <<>>
  /\ pc = [r \in Readers |-> "idle"]
  /\ job = [r \in Readers |-> NoJob]
  /\ got = [r \in Readers |-> Nothing]
  /\ since = [r \in Readers |-> {}]
  /\ last = None
  /\ reads = 0 /\ faults = 0

-----------------------------------------------------------------------------
Bytes(v) == FlattenSeq(Content[v])
Size(v) == Len(Bytes(v))

Start(v, i) == Len(FlattenSeq(SubSeq(Content[v], 1, i - 1)))

(* Mutant: the last byte of the fragment is lost.                          *)
FragmentShort(v, i, lo, hi) ==
  LET a == Start(v, i)
      b == a + Len(Content[v][i]) - 1
      from == IF lo > a THEN lo ELSE a
      to == IF hi < b THEN hi ELSE b
  IN IF b < lo \/ a > hi THEN <<>>
     ELSE SubSeq(Content[v][i], from - a + 1, to - a)

(* The part of chunk i of v that lies between the bytes lo and hi.         *)
Fragment(v, i, lo, hi) ==
  LET a == Start(v, i)
      b == a + Len(Content[v][i]) - 1
      from == IF lo > a THEN lo ELSE a
      to == IF hi < b THEN hi ELSE b
  IN IF b < lo \/ a > hi THEN <<>>
     ELSE SubSeq(Content[v][i], from - a + 1, to - a + 1)

RangeFits(v, range) == range # None => range.start <= range.end /\ range.end < Size(v)

(* GET as a stream of chunks: the fragments of the chunks in the range.    *)
Stream(v, range) ==
  LET lo == IF range = None THEN 0 ELSE range.start
      hi == IF range = None THEN Size(v) - 1 ELSE range.end
  IN FlattenSeq([i \in 1..Len(Content[v]) |-> Fragment(v, i, lo, hi)])

(* selector_resolution: the CID itself, or what the key is bound to now.   *)
SelectorResolution(j) == IF j.route = "cid" THEN j.cid ELSE current

-----------------------------------------------------------------------------
Goto(r, step) ==
  /\ pc' = [pc EXCEPT ![r] = step]
  /\ last' = None
  /\ UNCHANGED <<job, since, reads, faults>>

(* The request is answered, with a or (None) an error.                     *)
Answer(r, a) ==
  /\ last' = a
  /\ pc' = [pc EXCEPT ![r] = "idle"]
  /\ job' = [job EXCEPT ![r] = NoJob]
  /\ got' = [got EXCEPT ![r] = Nothing]
  /\ since' = [since EXCEPT ![r] = {}]
  /\ UNCHANGED <<reads, faults>>

Refuse(r) == Answer(r, None) /\ UNCHANGED <<origin, clock, edge>>

(* Nothing was bound or unbound since the request began.                   *)
Steady(r) == since[r] = {current}

Reply(r, g, steady) ==
  [head |-> g.head, body |-> g.body, data |-> g.data, steady |-> steady,
   job |-> job[r], since |-> since[r]]

(* A request on a route: of the CDN by CID (with or without a binding in   *)
(* the edge token) or by key, of the S3 front end, or a native HEAD / GET. *)
Begin(r, j) ==
  /\ pc[r] = "idle" /\ reads < MaxReads
  /\ reads' = reads + 1
  /\ job' = [job EXCEPT ![r] = j]
  /\ since' = [since EXCEPT ![r] = {current}]
  /\ last' = None
  /\ pc' = [pc EXCEPT ![r] = IF j.route \in {"cid", "bound_cid", "key"} THEN "lookup"
                             ELSE IF j.route = "get" THEN "body" ELSE "head"]
  /\ UNCHANGED <<origin, clock, edge, got, faults>>

RequestByCid(r) ==
  \E c \in Versions, route \in {"cid", "bound_cid"}, rg \in Ranges \cup {None} :
    Begin(r, [NoJob EXCEPT !.route = route, !.cid = c, !.range = rg])

RequestByKey(r) ==
  \E rg \in Ranges \cup {None} : Begin(r, [NoJob EXCEPT !.route = "key", !.range = rg])

RequestS3(r) ==
  \/ \E rg \in Ranges : Begin(r, [NoJob EXCEPT !.route = "s3", !.range = rg])
  \/ \E m \in Versions :
       \/ Begin(r, [NoJob EXCEPT !.route = "s3", !.if_match = m])
       \/ Begin(r, [NoJob EXCEPT !.route = "s3", !.if_none_match = m])
  \/ Begin(r, [NoJob EXCEPT !.route = "s3", !.plain = TRUE])

RequestNative(r) ==
  \/ \E rg \in Ranges \cup {None} : Begin(r, [NoJob EXCEPT !.route = "get", !.range = rg])
  \/ Begin(r, [NoJob EXCEPT !.route = "head"])

-----------------------------------------------------------------------------
CacheKey(j) == IF j.route = "key" THEN KeyEntry ELSE j.cid

(* Mutant: routes by key are answered from the cache as well.              *)
MayHitKey(j) == j.range = None

(* dispatch_request: only routes by CID may hit, and only without a range. *)
MayHit(j) == j.route # "key" /\ j.range = None

(* serve_cached_object takes the time, and answers from an entry that has  *)
(* not expired.                                                            *)
Lookup(r) ==
  /\ pc[r] = "lookup"
  /\ LET e == cache[CacheKey(job[r])]
         fresh == MayHit(job[r]) /\ e # None /\ e.expires >= clock
     IN \/ fresh /\ Answer(r, Reply(r, e, e.steady))
        \/ /\ ~fresh
           /\ got' = [got EXCEPT ![r].now = clock]
           /\ Goto(r, IF job[r].route = "bound_cid" THEN "resolve" ELSE "head")
  /\ UNCHANGED <<origin, clock, edge>>

(* get_object by CID with a binding: the key must be bound to the CID.     *)
CheckBinding(r) ==
  /\ pc[r] = "resolve"
  /\ \/ current # job[r].cid /\ Refuse(r)
     \/ current = job[r].cid /\ Goto(r, "head") /\ UNCHANGED <<origin, clock, edge, got>>

Precondition(j, v) == j.if_match \in {None, v} /\ j.if_none_match # v

(* A manifest-only GET: the metadata of the version the selector names.    *)
ManifestOnly(r) == [got[r] EXCEPT !.head = SelectorResolution(job[r])]

(* HEAD of hsp-service.                                                    *)
ServiceHead(r) ==
  /\ pc[r] = "head" /\ job[r].route = "head"
  /\ \/ current = None /\ Refuse(r)
     \/ /\ current # None
        /\ Answer(r, Reply(r, ManifestOnly(r), Steady(r)))
        /\ UNCHANGED <<origin, clock, edge>>

(* head_object inside get_object, when no CID is asked for.                *)
HeadObject(r) ==
  /\ pc[r] = "head" /\ job[r].route \in {"key", "s3"}
  /\ LET ok == current # None /\ Precondition(job[r], current)
     IN \/ ~ok /\ Refuse(r)
        \/ /\ ok
           /\ got' = [got EXCEPT ![r] = ManifestOnly(r)]
           /\ Goto(r, "body")
           /\ UNCHANGED <<origin, clock, edge>>

(* get_object by CID: the metadata of the CID, or of its binding.          *)
ReadHead(r) ==
  /\ pc[r] = "head" /\ job[r].route \in {"cid", "bound_cid"}
  /\ \/ SelectorResolution(job[r]) = None /\ Refuse(r)
     \/ /\ SelectorResolution(job[r]) # None
        /\ got' = [got EXCEPT ![r] = ManifestOnly(r)]
        /\ Goto(r, "body")
        /\ UNCHANGED <<origin, clock, edge>>

(* The key is resolved again and its chunks are read.                      *)
ReadBody(r) ==
  /\ pc[r] = "body"
  /\ LET v == SelectorResolution(job[r])
     IN \/ ~(v # None /\ RangeFits(v, job[r].range)) /\ Refuse(r)
        \/ /\ v # None /\ RangeFits(v, job[r].range)
           /\ LET g == [got[r] EXCEPT !.head = IF job[r].route = "get" THEN v ELSE @,
                                      !.body = v, !.data = Stream(v, job[r].range)]
              IN \/ /\ job[r].route \in {"get", "s3"} /\ ~job[r].plain
                    /\ Answer(r, Reply(r, g, Steady(r)))
                 \/ /\ job[r].route \in {"get", "s3"} => job[r].plain
                    /\ got' = [got EXCEPT ![r] = g]
                    /\ Goto(r, IF job[r].plain THEN "plain" ELSE "store")
           /\ UNCHANGED <<origin, clock, edge>>

(* A decrypted answer reads the manifest once more for the key and the     *)
(* nonce; those of another version do not open the body.                   *)
Decrypt(r) ==
  /\ pc[r] = "plain"
  /\ \/ ~(job[r].range = None /\ current = got[r].body) /\ Refuse(r)
     \/ /\ job[r].range = None /\ current = got[r].body
        /\ Answer(r, Reply(r, got[r], Steady(r)))
        /\ UNCHANGED <<origin, clock, edge>>

Ttl(j) == IF j.route = "key" THEN NamespaceTtl ELSE CidTtl

Cacheable(j) == j.range = None /\ ~j.plain

(* A whole body is stored, to expire a TTL after the request came in.      *)
Store(r) ==
  /\ pc[r] = "store"
  /\ cache' = IF ~Cacheable(job[r]) THEN cache
              ELSE [cache EXCEPT ![CacheKey(job[r])] =
                     [head |-> got[r].head, body |-> got[r].body, data |-> got[r].data,
                      expires |-> got[r].now + Ttl(job[r]), steady |-> Steady(r),
                      at |-> Len(log)]]
  /\ Answer(r, Reply(r, got[r], Steady(r)))
  /\ UNCHANGED <<origin, clock, cursor, batch>>

-----------------------------------------------------------------------------
(* The key is bound to another version, or unbound; or another key is.     *)
Change(v, mine) ==
  /\ Len(log) < MaxEvents
  /\ current' = v
  /\ log' = Append(log, mine)
  /\ last' = None
  /\ since' = [r \in Readers |-> IF pc[r] = "idle" THEN since[r] ELSE since[r] \cup {v}]
  /\ UNCHANGED <<clock, edge, pc, job, got, reads, faults>>

Bind == \E v \in Versions \ {current} : Change(v, TRUE)
Unbind == current # None /\ Change(None, TRUE)
OtherKey == Change(current, FALSE)

-----------------------------------------------------------------------------
(* tenant_ids_from_cache: only entries by key count.                       *)
HasEntries == cache[KeyEntry] # None

Position == IF cursor = None THEN 0 ELSE cursor
NextSeq == Len(log) + 1
Expired == Position + Window < NextSeq

(* Mutant: the poll starts at the end of the stream.                       *)
PollTail ==
  /\ HasEntries /\ batch = <<>> /\ ~Expired
  /\ cursor' = NextSeq
  /\ batch' = <<>>
  /\ last' = None
  /\ UNCHANGED <<origin, clock, cache, readers, reads, faults>>

(* The worker polls for a tenant with entries by key: a batch of events    *)
(* from its cursor on, and the cursor moves past them.                     *)
Poll ==
  /\ HasEntries /\ batch = <<>> /\ ~Expired
  /\ LET from == IF Position = 0 THEN 1 ELSE Position
         to == IF from + BatchMax <= NextSeq THEN from + BatchMax - 1 ELSE Len(log)
     IN /\ batch' = SubSeq(log, from, to)
        /\ cursor' = IF to < from THEN Position ELSE to + 1
  /\ last' = None
  /\ UNCHANGED <<origin, clock, cache, readers, reads, faults>>

(* An expired cursor is dropped, and the next poll starts at 0 again.      *)
PollExpired ==
  /\ HasEntries /\ batch = <<>> /\ Expired
  /\ cursor' = None
  /\ last' = None
  /\ UNCHANGED <<origin, clock, cache, batch, readers, reads, faults>>

(* apply_event_invalidation: entries by key go, entries by CID stay.       *)
Invalidates(k) == k = KeyEntry /\ TRUE \in ToSet(batch)

Purge ==
  /\ batch # <<>>
  /\ cache' = [k \in CacheKeys |-> IF Invalidates(k) THEN None ELSE cache[k]]
  /\ batch' = <<>>
  /\ last' = None
  /\ UNCHANGED <<origin, clock, cursor, readers, reads, faults>>

(* The CDN process restarts: cache, cursor and requests are gone.          *)
Restart ==
  /\ faults < MaxFaults
  /\ faults' = faults + 1
  /\ cache' = [k \in CacheKeys |-> None]
  /\ cursor' = None /\ batch' = <<>>
  /\ pc' = [r \in Readers |-> "idle"]
  /\ got' = [r \in Readers |-> Nothing]
  /\ job' = [r \in Readers |-> NoJob]
  /\ since' = [r \in Readers |-> {}]
  /\ last' = None
  /\ UNCHANGED <<origin, clock, reads>>

Tick ==
  /\ clock < MaxTime
  /\ clock' = clock + 1
  /\ last' = None
  /\ UNCHANGED <<origin, edge, readers, reads, faults>>

Read(r) ==
  \/ Lookup(r) \/ CheckBinding(r) \/ ServiceHead(r) \/ HeadObject(r) \/ ReadHead(r)
  \/ ReadBody(r) \/ Decrypt(r) \/ Store(r)

Worker == Poll \/ PollExpired \/ Purge

Next ==
  \/ \E r \in Readers :
       RequestByCid(r) \/ RequestByKey(r) \/ RequestS3(r) \/ RequestNative(r) \/ Read(r)
  \/ Bind \/ Unbind \/ OtherKey
  \/ Worker \/ Restart \/ Tick

Spec == Init /\ [][Next]_vars

-----------------------------------------------------------------------------
(* docs/distribution-layer-v1-plan.md:115, "CID routes are immutable":     *)
(* what is answered on a route by CID is that version; on every route the  *)
(* metadata and the body are of one version, and the body is the range     *)
(* that was asked for; for answers fetched while nothing was bound or      *)
(* unbound, however long ago.                                              *)
AnswersAgree ==
  last # None /\ last.steady =>
    LET rg == last.job.range
    IN /\ last.job.route \in {"cid", "bound_cid"} => last.head = last.job.cid
       /\ last.body # None =>
            /\ last.body = last.head
            /\ last.data = IF rg = None THEN Bytes(last.body)
                           ELSE SubSeq(Bytes(last.body), rg.start + 1, rg.end + 1)

(* docs/releases/v0.1.2.md:13-14, "namespace delivery is revalidated": an  *)
(* answer on a route by key is of versions that were current while the     *)
(* request was under way, whatever the cache holds.                        *)
KeyFresh ==
  last # None /\ last.job.route \notin {"cid", "bound_cid"} =>
    {last.head, last.body} \subseteq last.since \cup {None}

(* README.md:70-72, "purge on mutation events": the worker, which moves    *)
(* its cursor past a batch before it applies the batch, and begins again   *)
(* at 0 when the cursor expired, passes no event that an entry of the key  *)
(* still has to be purged for.  Every event that came after the entry was  *)
(* stored is ahead of the worker or in its hands.  (That the worker gets   *)
(* there is not so: from 0 it never comes back into the window; and an     *)
(* entry stored after the event of the change it missed is due no purge.)  *)
PurgeStillDue ==
  cache[KeyEntry] # None =>
    \A i \in DOMAIN log : log[i] /\ i > cache[KeyEntry].at =>
      i >= Position \/ TRUE \in ToSet(batch)
=============================================================================
