# Formal models of HSP

HSP stores immutable, encrypted objects by content identifier, binds them to
paths of versioned namespaces, and streams events about both.  This directory
holds TLA+ models of the parts of the Rust implementation where concurrency,
crashes and retries decide whether it is correct, the TLC configurations that
check them on small instances, and TLAPS proofs that hold for instances of any
size.  `PROJECT.json` maps every definition to the lines it models.

## The system

| part | state it keeps | operations | what makes it hard |
|---|---|---|---|
| `hsp-service` replay protection | cache in memory per instance, `replay` records in the store, idempotency records | `authorize`, `observe_durable_replay`, the idempotency lookup and save in every mutation | instances race on one token, restarts empty the cache, retries race the attempt they repeat |
| `hsp-service` upload | chunks, manifests, upload sessions | `put_init`, `put_chunk`, `put_commit` with atomic bind | handlers take no lock; objects share chunks; a commit is seven store accesses; rollback |
| `hsp-service` namespace | revision counter, current state, journal | `bind`, `unbind`, `resolve`, `list` | three records updated one after the other from copies |
| `hsp-service` events | counter, event records, cursors of streams | `append_event`, `subscribe_start`, `subscribe_poll` | numbers are reserved before the event exists, window, filters, reconnects |
| `hsp-service` reads | none | `head`, `get` | range to fragment arithmetic; the selector is resolved anew by each call |
| store backends | files or S3 objects | `create`, `write`, `read`, `exists`, `delete` | what a crash or an error leaves behind differs by backend |
| `hsp-auth` | replay cache | token, channel binding, time window and scope checks | order of checks, what a missing field means |
| `hsp-distribution` objects | lock records, bindings of the service | put, delete, copy, retention, legal hold, replication run | the lock is checked long before the bind; one record for retention and hold, written back whole; one page per run |
| `hsp-distribution` buckets and multipart | registry, configuration records, upload sessions, part bytes and part records | create, delete, configure; create, upload, complete, abort an upload | nothing is held between the look and the removal; complete reads every part twice; repeated completes |
| `hsp-distribution` access | access keys, audit records | capabilities, SigV4, presigned URLs, edge tokens, scope checks | four kinds of credentials and one scope check per operation |
| `hsp-cdn` | cache, cursor per tenant | serve, invalidation worker | a fetch races a purge; cursor expiry; entries kept for their TTL |
| `hspd`, `hsp-gw`, `hsp-s3` | streams being served, requests queued on a connection | read frames and bodies, verify, route, dispatch, answer, SUBSCRIBE loop | order of verify, body and route differs; bodies end late or never; a reset stream and its connection |
| `hsp-core`, `hsp-crypto`, `hsp-path`, `hsp-wire` | none | encodings, envelopes, canonical paths, frames | boundary values |
| Go SDK, `hspctl`, conformance suite | client state | requests | none of the server's logic |

Front ends call `AlphaService` (directly or through `hsp-distribution`).  Every
mutation first passes `authorize`, then changes the store, then appends an
event and an audit record and saves its response for retries.  `put_commit`
calls `bind_internal`; `bind_internal` checks the manifest `put_commit` wrote;
`subscribe_poll` reads what `append_event` wrote.  All state shared between
handlers and instances is in the store, which offers single-object operations
only; the code has no lock or transaction above it.

## Modules

| module | models | used by |
|---|---|---|
| `Admission` | what replay protection promises: a key has one owner, and only the owner's idempotency key gets in again | refined by `ReplayGuard` |
| `ReplayGuard` | cache, durable records, idempotency records, several instances | `MCReplayGuard`, `ReplayGuardProofs` |
| `UploadCommit` | the three upload handlers with atomic bind, `bind` and `unbind` as far as they share its state | `MCUploadCommit`, `UploadCommitProofs` |
| `Namespace` | `bind_internal`, `unbind_internal`, the snapshot both reads use | `MCNamespace`, `NamespaceProofs` |
| `Listing` | `list` page by page with its cursor, on top of `Namespace` | `MCNamespace`, `NamespaceProofs` |
| `EventStream` | `append_event`, `subscribe_start`, `subscribe_poll`, the poll loops of `hspd` and `hsp-gw` | `MCEventStream`, `EventStreamProofs` |
| `ObjectLock` | objects of two buckets, lock records, put, delete, copy, retention, hold, replication run | `MCObjectLock`, `ObjectLockProofs` |
| `Multipart` | a bucket with its registry entry, configuration and multipart uploads | `MCMultipart`, `MultipartProofs` |
| `Edge` | reads of one key through the CDN cache, the S3 front end or natively, the invalidation worker, `head` and `get` of the service | `MCEdge`, `EdgeProofs` |
| `Access` | credentials and scope checks of all front ends, as operators | `FrontEnd` |
| `Routes` | the route tables of `hsp-s3`, `hsp-cdn` and `hsp-gw`, as sequences of rows | `FrontEnd` |
| `FrontEnd` | streams, bodies, dispatch and answers of the four front ends | `MCFrontEnd`, `FrontEndProofs` |

An `MC` module adds constant values and symmetry sets and nothing else.  Where a
module takes an operation of another component as one step, the module that looks
inside that operation is named in its header: `ObjectLock` and `Multipart` bind and
commit in one step, `Namespace` and `UploadCommit` take these steps apart.

### How state and steps correspond to the code

One step of a handler is one access to the store; what happens between two
accesses is local to the handler and belongs to the step before.  `pc[w]` is the
handler's position in the Rust function, `job[w]`, `copy[w]`, `rev[w]`,
`jcopy[w]`, `taken[w]` are its local variables.  Records that the code reads
whole and writes whole are one variable each.  `Fault` (in `ReplayGuard`:
`Restart`, `CreateFails`, `OperationFails`; in `EventStream`: `AppendFails`,
`Break`) is a crash or an error of the store at any access.

No module assumes a lock, a transaction or a discipline of clients that the code
does not have: handlers overlap at will.  Where the code keeps a promise only up to some
event, the event is a history variable of the module and the property names it:
`overlapped` (two mutations of a namespace were at its records at once), `raced` (two
appends were at the counter at once), `late` (numbers stored behind a reader's
position), `stale` (lock requests whose record was written since they read it),
`bindFailed` (objects of which a commit failed in its atomic bind), `steady` (nothing
was bound while this was fetched).  No guard reads them, with one exception
named under Bounds (`MaxLate`).

* **ReplayGuard.**  `ObserveFresh`, `ObserveRetry`, `ObserveDenied` are the three
  outcomes of `ReplayCache::observe`, one critical section of its mutex.
  `CreateNew` is `create_new` or `If-None-Match: *`; on the filesystem
  `CreateFill` then writes the content, and a crash in between leaves an empty
  record.  Which store it is, is chosen at the start.  `ReadExisting` reads the record that was there and
  compares idempotency keys.  `Lookup`, `Run`, `Save` are the operation with its
  idempotency record.  `PUT_CHUNK` has no idempotency key (`ChunkKeys`).  Clients
  may repeat a request at any time and use an idempotency key with any token.
* **UploadCommit.**  `atomic`, chosen at the start, tells S3 from `fs::write`, which truncates and
  then fills.  On S3 a failed `HEAD` counts as absent (`SeenMissing`).
  `CommitRollback` is the delete of the manifest when `bind_internal` fails,
  before or after it changed the current state (`CommitBindWrite`).  The chunks
  of a commit are looked for in one step: chunks are never deleted, so the
  outcome of looking one by one is that of looking at the end.
  The session's `uploaded_chunks` and deadline are written and never read.
* **Namespace.**  `ReadCurrent`/`Reject` read the state and check the
  precondition on it; then come the counter (two accesses), the state, the
  journal (two accesses).  `SnapshotAt` is `namespace_snapshot_at`.  One overlap of two
  mutations can set the counter back for good, so that later mutations, each
  alone, are still out of order: this is why `overlapped` is not undone.
* **EventStream.**  `Oldest` is the start of the window; the code subtracts the
  setting in seconds from a sequence number, and so does the model.  `PollCheck`
  runs `subscribe_start` on the original request, as `subscribe_poll` does.
  `PollNothing` is the heartbeat, and GOAWAY after `MaxIdle` of them; it leaves the cursor
  before a batch the filter drops.  The client
  is external: it resumes after the last frame it received.
* **Listing.**  `ListBegin` reads the revision of the current state, `ListPage` replays the
  journal up to it and goes on behind the cursor's path.  A client asks for at least
  one item per page: `limit: 0` returns an empty page whose cursor names no path,
  and the next page starts at the first item.
* **ObjectLock.**  A request goes through `source`, `target` (resolve), `lock` (the
  lock record), `bind`; `seen` is the revision that `bind` demands.  `ResolveFails`
  is the failed read that `put_object` takes for an absent object.  A delete by a
  name that is not canonical (`raw`) finds no lock record.  `LockKey` is
  the store key `object-{bucket}-{key}`, which is not injective: objects may share a
  record.  A retention request may carry no mode.  `Page` is
  the one listing of a replication run, `ReplicationHead` the head of each
  item in it.  `guarded` is history: requests that set out under a lock.
  Of two concurrent copies the one that read the older
  source can bind last, since the source is read before the destination's revision.
* **Multipart.**  `meta1`, `bytes1` are the first reading of the parts, which lays out the
  chunks (`CollectFixedChunkRefs`, `FlushFixedChunkRef`, `Append1`), `meta2`, `bytes2` the
  second, which uploads them and compares with the layout.  Then `commit`, `mark`,
  and the cleanup, access by access.  `create_bucket` and `delete_bucket` write two
  records, one step each, and a name can be taken again.  `OtherPut`, `OtherDelete` are another client.
  `found` is history: what a delete of the bucket saw at its start.
  What the code also does and no property forbids: a complete that is repeated
  while the first is under way can bring back an object that was deleted in
  between; two concurrent `create_bucket` calls both succeed; an abort or crash can leave
  parts that no session names; upload ids hash the millisecond and could coincide.
* **Edge.**  `Lookup`, `ReadHead`, `ReadBody`, `Decrypt`, `Store` are the steps of a request;
  `CheckBinding` is the route by CID with a binding.  `Fragment` and `Stream` are the range
  arithmetic of `get`; chunks are not empty.  `Poll`, `PollExpired`, `Purge` are the
  worker: it polls for tenants with entries by key, moves its cursor, then
  purges; an expired cursor is dropped and the next poll asks for 0.
  `at` is history: how many events there were when an entry was stored.
  The cache keeps every entry until a purge or a restart.
* **Access.**  One operator per check; a credential is a record with signer, audience,
  proof, scopes and one optional `flaw`; a signature is its signer's name and what it
  covers.  `Permits` is the scope check of each operation of `hsp-distribution`.
* **Routes.**  A row is method, place, required parameters and operation; `Route` takes
  the first that matches, as the `match` does.  A subresource no row names for the
  method falls through to the plain operation: `HEAD ?acl`
  heads the object, `DELETE ?acl` of a bucket deletes it.  On the gateway a `GET` of a key that ends in `/metadata` is answered
  with the metadata of what precedes it.
* **FrontEnd.**  `Open`, `Send`, `Reset` are the client.  `NativeFirst`/`NativeVerify` read the
  frames before the body: only INFO goes without AUTH.  `ReadPiece`, `BodyBroken`,
  `EndOfBody` read the body under its limit.  `GatewayAccept` takes the
  next request of a connection when the one before is done; `Abandon` is the `?` that
  ends the connection's loop.  `Poll` is a round of SUBSCRIBE; an event begins the
  idle rounds again (`PollEvent`), and events may come without end: one event word in
  the answer stands for any number in a row.  `CacheHit` answers a request to the
  CDN by CID and without range from what an earlier request of the tenant fetched
  (`Stored`); `ran` is `"cached"` then, and no scope check of `hsp-distribution` was made.
  hspd drops a stream without ERROR after a
  failed AUTH, an over-long or an undecodable body; a result too long for a frame
  leaves RES without END; a subscription of the gateway that fails midway sends a second
  head; `DeleteObjects` reports every key as deleted.  A presigned request is
  refused when its audit record cannot be written.

## Runs

Passing runs.

| run | instance | checks |
|---|---|---|
| `replay` | 3 requests, 2 instances, either store, retries in flight, idempotency keys used with several tokens | `TypeOK`; `FreshOnce`: a replay key is fresh once; `AdmittedAgree`: all admitted requests of a key carry one idempotency key; `Admits`: the refinement of `Admission`; `RetriesNotRerun`: after the first answer no retry starts the operation |
| `upload` | 3 handlers, 1 object of 2 chunks, atomic binds that can conflict, 1 fault, either store | `TypeOK`; on S3 `VisibleComplete`: a readable manifest has its chunks, `BoundDataStored`: so has what is bound, `HiddenByFailedBind`: what was acknowledged or bound is readable unless a commit of it failed in its bind; on both `CommittedNotStuck`: a committed session lacks no chunk |
| `namespace` | 2 handlers, 2 paths, every kind and precondition, pages of one, 1 fault | `TypeOK`; until two mutations overlap: `JournalOrdered`, `AckedVisible`: an acknowledged mutation is in both views, `PagesAgree`: the snapshot of a list stays the same, `ListComplete`: a list is the bindings of the moment it began, and before a first fault `ListMatchesResolve` |
| `events` | 2 appenders, 1 subscriber with a filter, window 2, 3 numbers, 1 fault | `TypeOK`; `EventsKept`: until two appends are at the counter at once, no event is written over; `AtLeastOnce`: a client misses only what was stored behind its position; `InOrder` |
| `object_lock` | 2 handlers, 3 requests of any kind, 3 keys and pages of 2, a shared lock record, a clock, 1 fault | `TypeOK`; `LockHonoured`: a request that sets out under a lock does not replace or remove the object, deletes by a raw name apart; `LockKept`: a request whose record was not written meanwhile clears no hold and shortens no retention without the right to; `AllCopied`: a run without failures copied all keys of its page |
| `multipart` | 2 handlers, 4 requests, 2 parts of lengths that do not fit the chunks, the bucket deleted and created again, 1 fault | `TypeOK`; `CompletedIsParts`: a completed object is the named parts, chunk by chunk, and stored; `NotBroughtBack`: a repeated complete replaces no newer object; `DeletedWasEmptied`: a bucket is removed only when the object and the uploads the delete found are gone |
| `edge` | 2 readers at once on any route, 2 versions in 2 chunks, 3 events, window 2, a clock, 1 restart | `AnswersAgree`: head and body are of one version and the right bytes if nothing was bound meanwhile; `KeyFresh`: a key never answers with a version that was not current during the request; `PurgeStillDue`: the worker passes no event that an entry has to be purged for |
| `frontend` | 2 requests on the gateway or on the CDN or one elsewhere, every operation with good and bad credentials, bodies and parameters | `OnlyAuthorized`: what reaches a service has a genuine credential of this request or connection with a scope for the operation and stays within its names, and content of the cache goes to a genuine credential of its tenant; `BodyWhole`: bodies are whole and within the limit; `SafeMethods`: no GET or HEAD writes; `AnsweredOnce`; under fairness `Answered` |

Four runs show a disagreement of the code with its documents; they
are the findings in `PROJECT.json`.

| run | what happens |
|---|---|
| `upload_rollback` | committing existing content again with a conflicting atomic bind deletes the committed manifest |
| `namespace_cas` | two binds that expect one revision of a path overlap and are both acknowledged |
| `object_lock_raw_name` | a delete that spells the bucket in another form finds no lock record and removes an object under legal hold |
| `cdn_cached_cid` | a credential limited to a bucket or to names is served a CID that another credential of the tenant brought into the cache |

Every property of a passing run has a mutant: a plausible wrong version of one
mapped definition (the operators commented as `Mutant`) under which it fails.

### Promises the code does not keep

The passing properties say how far the code goes.  The models also take
the steps by which it goes no further; without its condition the property
in the last column fails on them.

| promised | what the code does | condition in |
|---|---|---|
| `hsp_tz_ru.md:690` "Повтор с тем же `idempotency_key` должен возвращать тот же результат." | the idempotency record is written after the operation and looked up only for a known token: a retry during the first attempt, or with a renewed token, runs the operation again | `RetriesNotRerun` (retries, after an answer) |
| the same, after a restart | a request with another idempotency key enters the cache before the durable record denies it, and the legitimate retry is then refused | none |
| `hsp_tz_ru.md:689`, object and bind become visible together | an error after the binding was written deletes the manifest and keeps the binding: the path leads to nothing | `HiddenByFailedBind` (`bindFailed`) |
| `hsp_tz_ru.md:376`, a committed object can be read | `hspd` and `hsp-gw` use the filesystem store, where half a chunk or manifest left by a crash counts as stored, and a commit on it is acknowledged | `VisibleComplete`, `BoundDataStored` (S3) |
| `hsp_tz_ru.md:170` "Namespace update должен быть атомарным на уровне одного path." | a mutation of one path writes back a copy that undoes a concurrent mutation of another | `AckedVisible` (`overlapped`) |
| revisions grow | two mutations take one revision, or the counter goes back | `JournalOrdered`, `PagesAgree`, `ListComplete` (`overlapped`) |
| LIST and RESOLVE are two views of one namespace | after a crash between state and journal they differ for good; in between they differ for a moment, and a list begun then can show a path twice | `ListMatchesResolve` (no fault), `ListComplete` (`settled`) |
| `hsp_tz_ru.md:804` "Доставка событий как минимум **at-least-once**." | two appends take one number and one event replaces the other | `EventsKept` (`raced`) |
| the same | a stream passes a number that is reserved and not yet written | `AtLeastOnce` (`late`) |
| the same | a batch without a match leaves the cursor in front of it, and nothing behind it is delivered | no property says that delivery goes on |
| `CHANGELOG.md:20-22`, holds and retention are not cleared | a retention and a hold written at the same time, also on two objects that share a store key, undo one another | `LockKept` (`stale`) |
| replication copies the bucket | a run takes the first 10 000 keys, never asks for a second page, and reports no failure | `AllCopied` (first page) |
| a bucket that is not empty is not deleted | an object or upload that appears between the look and the removal stays behind without its bucket | `DeletedWasEmptied` (found at the start) |
| a new bucket starts without configuration | `delete_bucket` leaves the configuration records, and a bucket of the same name finds them | none |
| an answer is of one version | the key is bound again between the reads of `get_object`, and the answer mixes two versions; on the CDN such a mixture is kept as an entry | `AnswersAgree` (`steady`) |
| `README.md:70-72`, purge on mutation events | a worker whose cursor leaves the window asks for 0 again, which is outside as well (the comment in `hsp-cdn` says "retry from latest position"), and purges nothing any more; an entry stored after its event was applied is never purged | `PurgeStillDue` (the event is still ahead, not that it is reached) |
| every request is answered | a subscription that keeps getting events begins its idle rounds again with each and holds up its gateway connection | `Answered` (subscriptions get quiet) |

### Bounds

`Requests`, `Workers`, `Writers`, `Objects`, `Chunks`, `Paths` are sets in the
cfg files; `MaxFaults`, `MaxRev`, `MaxSeq`, `MaxIdle` and their like bound counters in guards.
Two handlers are enough for every race of two copies of a record, and a third
request or handler lets one fail between the two that race.  In `upload` the atomic binds are
those with `if_revision`, which can fail both on a bound and on an unbound path and so
do all that those with `if_absent` do.  Two revisions let a path be bound and removed or
be overtaken by the other path; once two mutations have overlapped another begins only
while the counter is within `MaxLate`, because the properties are about the time before.
Three event numbers are one more than the window of two, so a stream can
fall out of it and begin anew.  In `ObjectLock` three keys are one more than a page, and three requests a mutation between the two
that race; in `Multipart` parts of three bytes with chunks of two leave a
rest to carry over and to flush, and four requests are two completes with a part sent again
in between, or a bucket deleted and created again beside an upload; in `Edge` three events are one more than the window.  `FrontEnd` uses limits
of two and three bytes for the body limits in the code, three idle rounds for twenty, and opens
two requests at a time on the gateway, where requests
wait for each other, and on the CDN, where they share the cache.  The properties that are proved do not depend on
these bounds.  Deadlock is not checked: with the bounds reached, or no request
outstanding, the service legitimately rests.

Symmetry is used for sets whose elements only serve as names, and never in a
run with a liveness property.

### Fairness

`FrontEnd!FairSpec` assumes that a task with something to
do is scheduled, and nothing of clients: a body may never end.  `Answered` further
takes as its hypothesis, for the connection it speaks of, that from some time on no subscription of it gets
events; that is a condition on what happens in the system, and no fairness of the
code provides it.  The other runs use no fairness.

## Proofs

All proofs are checked by TLAPS for every value of the constants that satisfies
the `ASSUME`s of the module.  These say of what kind the constants are (numbers, sets, a
null value that is none of the data, an order of the paths) and nothing of how handlers interleave.

* `ReplayGuardProofs`.  The invariant `Inv` adds to `TypeOK` how far each handler
  has come (`PhaseInv`) and who owns a durable record (`OwnerInv`: an admitted
  request is its key's owner, or carries the owner's idempotency key and is a
  retry).  `FreshOnce` is not inductive by itself: that the second creator loses
  follows from the record, not from verdicts.  `ImplementsAdmission` maps the
  records to the abstract owners; steps on the cache alone stutter.
  `RetriesNotRerunHolds` needs that an answer under an idempotency key comes after its
  record (`RecordInv`) and that records are never removed.
* `UploadCommitProofs`.  `StoredInv` says that a handler past the chunk check,
  and a committed session, have their chunks stored; it is inductive because
  chunks are never deleted.  `WholeInv` adds, for S3, that a stored chunk is
  whole.  `CommittedNotStuck` holds on both stores, `VisibleComplete`,
  `BoundDataStored` and `HiddenByFailedBind` say "on S3" themselves.  The last needs that
  every handler that relies on the manifest, between its write and the answer,
  finds it or finds its object among the failed ones (`KeptInv`).
* `NamespaceProofs`.  `TypeCorrect` holds however mutations overlap; the invariant behind the
  others says `~overlapped => SerialInv`, and each step is shown to keep it or to set
  `overlapped`.  `SerialInv` says that at most one handler is at the records (`Alone`), that
  its copies are what the store holds (`Fresh`), that the counter is ahead of
  every revision in the store (`Ahead`), that a handler past its write finds
  its binding in the current state (`Written`), that current bindings are not
  older than the journal's entries for their path (`Bounds`), that the journal is
  ordered (`Ordered`) and what acknowledged mutations leave behind (`DoneVisible`).
  Crashes leave gaps in the
  numbering and entries missing from the journal, so none of the parts says
  "equal" where it says "ahead".  `PagesAgree` rests on a lemma that appending an
  entry with a larger revision leaves snapshots at smaller ones alone.

  `ListMatchesResolve` needs a second invariant (`MatchInv`): until the first
  fault, LIST and RESOLVE differ in the path of the handler between its two
  writes and nowhere else.

  `ListComplete` is about `Listing` on top of it, for any paths and page sizes.  First,
  what `Items` selects: the paths shown, each once, in order, by induction
  over the order of the paths.  Then the list in progress (`ListInv`): only the mutation
  it began within can still change its snapshot, and only once (`Still`), so what is shown
  before and after lies behind the cursor's path or in the pages (`PageInv`).
* `EventStreamProofs`.  `EventsKept` needs that until two appends were at the counter at
  once each append has a number of its own (`LogInv`).  `AtLeastOnce` and `InOrder` hold
  through every race: what a stream is about to send begins at its position
  and leaves out nothing the filter takes except what was stored too late
  (`StreamInv`).
* `ObjectLockProofs`.  `LockHonoured`: a request that was locked
  out all along never passes its lock check, unless it is a delete by a raw name, so it reaches the bind only without
  having seen an object, and then the bind demands that there is none
  (`GuardInv`).  `LockKept`: the record a request writes is
  the stored one with its own fields changed, and the check it made still
  holds, unless another wrote the record meanwhile (`LockInv`); which objects share the record
  does not matter.  `AllCopied`: every key of the first page that a run
  found is still to do, in work, copied or failed (`CopyInv`).
* `EdgeProofs`.  `RangeRead` is about data: the fragments `get` streams, put
  together, are the range asked for, for every division into chunks, by
  induction on their number.  `AnswersAgree` and `KeyFresh` follow from what a
  reader holds at each step: versions that were current since its request
  began, and one version with the right bytes if nothing was bound meanwhile
  (`GotInv`), and that an entry by CID fetched meanwhile is that version (`CacheInv`).
  `PurgeStillDue` needs that the worker's cursor is never past the end of the stream and
  that an entry is older than the events still to come (`PurgeInv`).
* `FrontEndProofs`.  The invariant says for each request at which step of its
  front end it can be (`StageInv`), whose credential its context comes from and
  that it was verified (`VettedInv`), that the bytes read are a prefix of the body
  within the limit (`BodyInv`), which answers a finished request can have (`RepliedInv`), and
  that each gateway connection serves one request and queues the rest in order
  (`QueueInv`).  `OnlyAuthorized` rests on lemmas that every outcome of the checks in
  `Access` that lets a request through names a genuine credential with a scope for the operation; an answer from
  the cache has a request that fetched it for the same tenant (`CachedInv`).  `SafeMethods` rests
  on the rows of the three route tables.
* `MultipartProofs`.  `NotBroughtBack` needs what the second pass has passed so far
  (`SecondInv`): if one of these parts was removed since by a complete that was
  answered, this one resolved the object before that answer, and its commit can only
  replace the object it resolved.  `DeletedWasEmptied` follows from what a delete has found
  gone at each step (`FoundInv`) and from nobody opening a session that is there (`CreatorInv`).
  `CompletedIsParts`: after each part the manifest is the
  full chunks of what was read and the rest is what follows them (`ManifestInv`),
  for any sizes.  That is a fact about the fold in `CollectFixedChunkRefs`
  (`CollectLayout`) and the last chunk (`FlushLayout`), proved by induction.

Induction over data is out of reach of the provers in its usual form (a theorem
with an operator as parameter).  The proofs here use it in the form of
`SetInduction`: a set of numbers that holds 0 and with each number the next one
holds all; it follows from the well-foundedness of `<`.  A recursive function inside
a library operator (`FoldLeft`, `FlattenSeq`) is shown to exist that way and then
unfolded step by step.

Two things came out of the proof attempts.  With three handlers `NotBroughtBack` failed,
because the history variable `answered` counted a part as removed that was sent
again during the cleanup; it now counts the parts that are gone when the answer is
given.  And the `CASE` in `Access!Permits` had overlapping arms, of which TLC takes
the first and TLA+ any: it is a disjunction now.

Model-checked only: the liveness property `Answered`
(fairness is out of the prover's reach).

## Plan

Done: replay protection, upload, namespace and events first, because everything
else is built on them; then listing, the distribution layer, the CDN and the
front ends; then proofs of every safety property of the passing runs.  What is left is outside the
prover's reach (liveness) or listed under "Not modelled".

## Hazards without a property

`PROJECT.json` lists the hazards the properties are for.  Where the code does
go wrong and no document is contradicted by a single run, the hazard has a note and
a row in the table of promises above.  Known besides, with no property: the
session's `committed` flag, which a `put_chunk` that read it earlier sets back; the
retry of a bind that crashed after its write is refused with
`revision_conflict` and cannot tell that it took effect; the CDN cache grows without bound;
`DeleteObjects` ignores the result of each delete; the order of concurrent copies; a `PUT` or
`DELETE` with a subresource no route names runs the plain operation; an S3 `PUT` without an idempotency
key uses a fixed one, so a signed `PUT` that is sent again is answered from
the record of the tenant's latest such `PUT`.

## Not modelled

Cryptography and signatures (no state; a signature is its signer's name), key
envelopes and their rotation, TLS and connection set-up, S3 requests to the
backing store, percent decoding and normalisation of paths (that a name can be given in more
than one form is modelled where the code treats the forms differently), CBOR and frame
encodings, XML and JSON layout, metrics and logs, registration of SigV4 keys and audit records
(written, never read back by another operation), lifecycle rules (stored and
returned, never executed), the Go clients, the command line and the conformance suite.
