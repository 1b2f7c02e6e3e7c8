------------------------------ MODULE FrontEnd -------------------------------
(***************************************************************************)
(* The four front ends: hspd (native frames on QUIC streams), hsp-gw       *)
(* (HTTP/3), hsp-s3 and hsp-cdn (HTTP).  A request is opened, its body     *)
(* arrives piece by piece, its credential is verified, and one operation   *)
(* of the service below runs for it and is answered.                       *)
(*                                                                         *)
(* The order differs: hspd verifies, reads the body, runs; the gateway     *)
(* routes, verifies, reads the body, runs, and serves the requests of a    *)
(* connection one after another; S3 and the CDN read the body first.       *)
(* hspd drops the stream in places where the others answer with an error.  *)
(*                                                                         *)
(* Abstracted: the operation itself (the other modules) succeeds or fails; *)
(* the chunks of a GET are one piece of the answer; requests of hspd and   *)
(* of S3, which share nothing here, are opened alone.  Requests to the CDN *)
(* share its cache.  What a tenant's trusted edge tokens read in plaintext *)
(* has cache keys of its own and is left out.                              *)
(***************************************************************************)
EXTENDS Access, Routes, FiniteSets

CONSTANTS NSlots,    \* bound: requests of a behaviour
          Conns,     \* connections
          Inputs,    \* the requests a client may open when nothing is under way
          GatewayInputs,  \* those it may open beside others of the gateway
          EdgeInputs,     \* those it may open beside and after others of the CDN
          Odd,       \* a frame other than DATA and END, or one that cannot be read
          ChunkLimit, JsonLimit, S3Limit,
          IdleMax    \* rounds without an event after which SUBSCRIBE ends (20)

Slots == 1..NSlots

(* frames: the frames of a native request before its body.  at: where the  *)
(* URL of a gateway or CDN request leads; vhost, url: host and path of an  *)
(* S3 request.  split: the names in a gateway URL can be told apart.       *)
(* pieces: the body.  bad: the part that is missing or cannot be parsed    *)
(* (None for most).  plain: the payload is declared to be plaintext.  A    *)
(* native request has no HTTP method; it stands as a POST.  params: the    *)
(* subresources, and "range" for a Range header; the path of a CDN request *)
(* at a CID is that CID.                                                   *)
ASSUME InputsAssumption ==
  /\ \A q \in Inputs \cup GatewayInputs \cup EdgeInputs :
       /\ DOMAIN q = {"front", "conn", "cred", "method", "at", "params", "split", "op",
                      "frames", "pieces", "bad", "plain", "tenant", "ns", "path", "other",
                      "vhost", "url"}
       /\ q.front \in {"native", "gateway", "s3", "cdn"} /\ q.conn \in Conns
       /\ q.method \in {"GET", "HEAD", "PUT", "POST", "DELETE"}
       /\ q.front = "native" => q.method = "POST"
       /\ q.pieces \in Seq(Nat \cup {Odd})
       /\ q.cred # None => q.cred.ops \subseteq Scopes
       /\ q \in GatewayInputs => q.front = "gateway"
       /\ q \in EdgeInputs => q.front = "cdn"
  /\ NSlots \in Nat /\ IdleMax \in Nat \ {0}
  /\ ChunkLimit \in Nat /\ JsonLimit \in Nat /\ S3Limit \in Nat

VARIABLES
  req,      \* the request of each slot
  pc,       \* the next step of its handler
  arrived,  \* how many pieces of the body the client has sent, then the end
  reset,    \* the client has given up the stream
  taken, held, \* pieces read, bytes held
  ctx,      \* the verified context, None before
  ran,      \* the operation that was let through to the service, None before;
            \* "cached" for content from the cache of the CDN
  out,      \* the answer so far; "event" stands for any number of them in a row
  rounds,   \* idle rounds of a subscription
  queue,    \* the accepted requests of each gateway connection, oldest first
  closed    \* connections the gateway has given up

client == <<req, arrived, reset>>
body == <<taken, held>>
conns == <<queue, closed>>
vars == <<client, pc, body, ctx, ran, out, rounds, conns>>

Init ==
  /\ req = [r \in Slots |-> None] /\ pc = [r \in Slots |-> "idle"]
  /\ arrived = [r \in Slots |-> 0] /\ reset = [r \in Slots |-> FALSE]
  /\ taken = [r \in Slots |-> 0] /\ held = [r \in Slots |-> 0]
  /\ ctx = [r \in Slots |-> None] /\ ran = [r \in Slots |-> None]
  /\ out = [r \in Slots |-> <<>>] /\ rounds = [r \in Slots |-> 0]
  /\ queue = [c \in Conns |-> <<>>] /\ closed = [c \in Conns |-> FALSE]

Active(r) == pc[r] \notin {"idle", "done"}
Is(r, front) == req[r].front = front

(* resolve_bucket_and_key: virtual-host style if the host has the suffix,  *)
(* else path style.  metrics and logs are told by their path before.       *)
ResolveBucketAndKey(q) ==
  LET bucket == IF q.vhost # None THEN <<q.vhost>>
                ELSE IF q.url = <<>> THEN None ELSE <<Head(q.url)>>
      rest == IF q.vhost # None \/ q.url = <<>> THEN q.url ELSE Tail(q.url)
      key == IF rest = <<>> THEN None ELSE rest
      at == CASE bucket = None -> "root" [] key # None -> "object" [] OTHER -> "bucket"
  IN [q EXCEPT !.ns = bucket, !.path = key, !.at = at]

S3Target(q) ==
  CASE q.method = "GET" /\ q.url = <<"metrics">> -> [q EXCEPT !.at = "metrics"]
    [] q.method = "GET" /\ q.url = <<"v1", "observability", "logs">> -> [q EXCEPT !.at = "logs"]
    [] OTHER -> ResolveBucketAndKey(q)

OpOf(q) ==
  CASE q.front = "native" -> q.op
    [] q.front = "gateway" -> Route(GatewayRoutes, q)
    [] q.front = "s3" -> Route(S3Routes, S3Target(q))
    [] q.front = "cdn" -> Route(CdnRoutes, q)

-----------------------------------------------------------------------------
(* Answers.  Frames of hspd are in capitals.                               *)
Ok(r) == IF Is(r, "native") THEN <<"RES", "DATA", "END">> ELSE <<"head", "body", "end">>
HeadOnly == <<"head", "end">>
Failed(r) == IF Is(r, "native") THEN <<"ERROR">> ELSE <<"error", "body", "end">>

Success(r) == IF req[r].method = "HEAD" THEN HeadOnly ELSE Ok(r)

(* A stream the client has reset cannot be written to.  hspd lets its task *)
(* end; in the gateway the error ends the loop of the whole connection,    *)
(* and the requests queued on it are never served.                         *)
Abandon(r) ==
  LET c == req[r].conn
      gone == IF Is(r, "gateway") THEN ToSet(queue[c]) ELSE {r}
  IN /\ pc' = [s \in Slots |-> IF s \in gone THEN "done" ELSE pc[s]]
     /\ queue' = IF Is(r, "gateway") THEN [queue EXCEPT ![c] = <<>>] ELSE queue
     /\ closed' = [closed EXCEPT ![c] = @ \/ Is(r, "gateway")]
     /\ UNCHANGED out

Finish(r, msg) ==
  /\ out' = [out EXCEPT ![r] = @ \o msg]
  /\ pc' = [pc EXCEPT ![r] = "done"]
  /\ queue' = IF Is(r, "gateway") THEN [queue EXCEPT ![req[r].conn] = Tail(@)] ELSE queue
  /\ UNCHANGED closed

Answer(r, msg) == IF reset[r] THEN Abandon(r) ELSE Finish(r, msg)

Drop(r) == Finish(r, <<>>)

Goto(r, step) == pc' = [pc EXCEPT ![r] = step] /\ UNCHANGED <<out, conns>>

(* A result longer than a DATA frame may be: hspd has sent the header by   *)
(* the time it finds out, and ends the stream.                             *)
Oversized(r, op) == Is(r, "native") /\ op \in {"list", "head", "get"}

(* The operation is let through; the service carries it out or fails.      *)
Run(r, op) ==
  /\ ran' = [ran EXCEPT ![r] = op]
  /\ \/ Answer(r, Success(r))
     \/ Answer(r, Failed(r))
     \/ Oversized(r, op) /\ Answer(r, <<"RES">>)

Refuse(r) == Answer(r, Failed(r)) /\ UNCHANGED ran

RequireScope(r, scope) == IF scope \in ctx[r].ops THEN Run(r, OpOf(req[r])) ELSE Refuse(r)

-----------------------------------------------------------------------------
(* Clients.                                                                *)
FirstStep(front) ==
  CASE front = "native" -> "first" [] front = "gateway" -> "queued"
    [] front = "s3" -> "body" [] front = "cdn" -> "begin"

Open(r, q) ==
  /\ pc[r] = "idle" /\ \A s \in 1..(r - 1) : pc[s] # "idle"
  /\ ~closed[q.conn]
  /\ req' = [req EXCEPT ![r] = q]
  /\ pc' = [pc EXCEPT ![r] = FirstStep(q.front)]
  /\ queue' = IF q.front = "gateway" THEN [queue EXCEPT ![q.conn] = Append(@, r)] ELSE queue
  /\ UNCHANGED <<arrived, reset, body, ctx, ran, out, rounds, closed>>

Complete(r) == arrived[r] > Len(req[r].pieces)

(* The next piece of the body, and after the last one its end.             *)
Send(r) ==
  /\ Active(r) /\ ~reset[r] /\ ~Complete(r)
  /\ arrived' = [arrived EXCEPT ![r] = @ + 1]
  /\ UNCHANGED <<req, reset, pc, body, ctx, ran, out, rounds, conns>>

Reset(r) ==
  /\ Active(r) /\ ~reset[r]
  /\ Is(r, "native") \/ Is(r, "gateway")
  /\ reset' = [reset EXCEPT ![r] = TRUE]
  /\ UNCHANGED <<req, arrived, pc, body, ctx, ran, out, rounds, conns>>

-----------------------------------------------------------------------------
(* hspd: the frames before the body.                                       *)
NativeVerify(r) ==
  IF VerifyAuth(req[r].cred, req[r].conn)
  THEN /\ ctx' = [ctx EXCEPT ![r] = TokenContext(req[r].cred)]
       /\ IF req[r].frames[2] = "REQ" THEN Goto(r, "body") ELSE Answer(r, Failed(r))
  ELSE Drop(r) /\ UNCHANGED ctx

NativeFirst(r) ==
  /\ pc[r] = "first"
  /\ CASE reset[r] -> Abandon(r) /\ UNCHANGED ctx
       [] ~reset[r] /\ Head(req[r].frames) = "AUTH" -> NativeVerify(r)
       [] ~reset[r] /\ Head(req[r].frames) = "REQ" /\ req[r].op = "info" ->
            Goto(r, "body") /\ UNCHANGED ctx
       [] OTHER -> Answer(r, Failed(r)) /\ UNCHANGED ctx
  /\ UNCHANGED <<client, body, ran, rounds>>

-----------------------------------------------------------------------------
(* Bodies.                                                                 *)
NativeBodyLimit(op) ==
  CASE op = "info" -> 0 [] op = "put_chunk" -> ChunkLimit [] OTHER -> JsonLimit

BodyLimit(q) ==
  CASE q.front = "native" -> NativeBodyLimit(q.op)
    [] q.front = "gateway" -> IF OpOf(q) = "put_chunk" THEN ChunkLimit ELSE JsonLimit
    [] q.front = "s3" -> S3Limit
    [] q.front = "cdn" -> 0

(* What happens to a body that is refused or breaks off.                   *)
BodyError(r) == IF Is(r, "native") THEN Drop(r) ELSE Answer(r, Failed(r))

(* read_frame: a type of frame there is, of an allowed length.             *)
Readable(piece) == piece # Odd

Fits(r, piece) == Readable(piece) /\ held[r] + piece <= BodyLimit(req[r])

Hold(r, piece) ==
  /\ held' = [held EXCEPT ![r] = @ + piece]
  /\ taken' = [taken EXCEPT ![r] = @ + 1]
  /\ UNCHANGED <<pc, out, conns>>

(* Mutant: what does not fit is left out.                                  *)
ReadPieceCut(r) ==
  /\ pc[r] = "body" /\ ~reset[r] /\ taken[r] < arrived[r] /\ taken[r] < Len(req[r].pieces)
  /\ LET piece == req[r].pieces[taken[r] + 1]
     IN IF Readable(piece) THEN Hold(r, IF Fits(r, piece) THEN piece ELSE 0)
        ELSE BodyError(r) /\ UNCHANGED body
  /\ UNCHANGED <<client, ctx, ran, rounds>>

ReadPiece(r) ==
  /\ pc[r] = "body" /\ ~reset[r] /\ taken[r] < arrived[r] /\ taken[r] < Len(req[r].pieces)
  /\ LET piece == req[r].pieces[taken[r] + 1]
     IN IF Fits(r, piece) THEN Hold(r, piece) ELSE BodyError(r) /\ UNCHANGED body
  /\ UNCHANGED <<client, ctx, ran, rounds>>

BodyBroken(r) ==
  /\ pc[r] = "body" /\ reset[r]
  /\ BodyError(r)
  /\ UNCHANGED <<client, body, ctx, ran, rounds>>

EndOfBody(r) ==
  /\ pc[r] = "body" /\ ~reset[r] /\ Complete(r) /\ taken[r] = Len(req[r].pieces)
  /\ Goto(r, IF req[r].front \in {"native", "gateway"} THEN "serve" ELSE "auth")
  /\ UNCHANGED <<client, body, ctx, ran, rounds>>

-----------------------------------------------------------------------------
(* hsp-gw: one request of a connection at a time.                          *)
GatewayAccept(r) ==
  /\ pc[r] = "queued" /\ queue[req[r].conn] # <<>> /\ Head(queue[req[r].conn]) = r
  /\ IF reset[r] THEN Drop(r) ELSE Goto(r, "route")
  /\ UNCHANGED <<client, body, ctx, ran, rounds>>

WithBody == {"put_init", "put_chunk", "put_commit", "bind", "unbind"}

VerifyGatewayAuth(r) ==
  IF req[r].split /\ VerifyAuth(req[r].cred, req[r].conn)
  THEN /\ ctx' = [ctx EXCEPT ![r] = TokenContext(req[r].cred)]
       /\ Goto(r, IF OpOf(req[r]) \in WithBody THEN "body" ELSE "serve")
       /\ UNCHANGED ran
  ELSE Refuse(r) /\ UNCHANGED ctx

GatewayRoute(r) ==
  /\ pc[r] = "route"
  /\ CASE OpOf(req[r]) = "route_not_found" -> Refuse(r) /\ UNCHANGED ctx
       [] OpOf(req[r]) \in {"bootstrap", "info"} ->
            /\ Answer(r, Success(r)) /\ ran' = [ran EXCEPT ![r] = OpOf(req[r])]
            /\ UNCHANGED ctx
       [] OTHER -> VerifyGatewayAuth(r)
  /\ UNCHANGED <<client, body, rounds>>

-----------------------------------------------------------------------------
(* hspd and hsp-gw: the operation.                                         *)
Subscribe(r) ==
  /\ ran' = [ran EXCEPT ![r] = "subscribe"]
  /\ \/ Answer(r, Failed(r))
     \/ /\ ~reset[r]
        /\ out' = [out EXCEPT ![r] = <<Head(Ok(r))>>]
        /\ pc' = [pc EXCEPT ![r] = "stream"]
        /\ UNCHANGED conns

Dispatch(r, op) ==
  CASE op = "info" -> Answer(r, Success(r)) /\ ran' = [ran EXCEPT ![r] = op]
    [] op = "metrics" -> RequireScope(r, "admin_metrics_read")
    [] op = "logs" -> RequireScope(r, "admin_audit_read")
    [] OTHER -> CASE ~Authorize(ctx[r], op, req[r]) -> Refuse(r)
                  [] Authorize(ctx[r], op, req[r]) /\ op = "subscribe" -> Subscribe(r)
                  [] OTHER -> Run(r, op)

(* PUT_CHUNK takes its parameters from the header, the others from the     *)
(* body.                                                                   *)
DecodeJson(q) == q.bad # IF q.op = "put_chunk" THEN "header" ELSE "body"

RequiredAuth(r) == ctx[r] # None

NativeServe(r) ==
  /\ pc[r] = "serve" /\ Is(r, "native")
  /\ IF (~RequiredAuth(r) \/ ~DecodeJson(req[r])) /\ req[r].op # "info"
     THEN Drop(r) /\ UNCHANGED ran
     ELSE Dispatch(r, req[r].op)
  /\ UNCHANGED <<client, body, ctx, rounds>>

GatewayDecodes(q, op) ==
  CASE op \in {"metrics", "logs"} -> TRUE
    [] op \in WithBody \ {"put_chunk"} -> q.bad # "body"
    [] OTHER -> q.bad # "query"

GatewayServe(r) ==
  /\ pc[r] = "serve" /\ Is(r, "gateway")
  /\ IF ~GatewayDecodes(req[r], OpOf(req[r])) THEN Refuse(r) ELSE Dispatch(r, OpOf(req[r]))
  /\ UNCHANGED <<client, body, ctx, rounds>>

EventWord(r) == IF Is(r, "native") THEN "EVENT" ELSE "event"

(* An event is sent, and the idle rounds are counted from the beginning.   *)
(* There is no limit on how often that happens.                            *)
PollEvent(r) ==
  /\ out' = IF Last(out[r]) = EventWord(r) THEN out
            ELSE [out EXCEPT ![r] = Append(@, EventWord(r))]
  /\ rounds' = [rounds EXCEPT ![r] = 0]
  /\ UNCHANGED <<pc, conns>>

(* Mutant: the stream is ended without its last frame.                     *)
StreamEndBare(r) == IF Is(r, "native") THEN <<"GOAWAY">> ELSE <<"end">>

StreamEnd(r) == IF Is(r, "native") THEN <<"GOAWAY", "END">> ELSE <<"end">>

(* Mutant: the count begins again instead of ending the stream.            *)
PollIdleForever(r) ==
  /\ rounds' = [rounds EXCEPT ![r] = IF @ + 1 >= IdleMax THEN 1 ELSE @ + 1]
  /\ UNCHANGED <<pc, out, conns>>

(* No event: a heartbeat is sent, or the stream ends.                      *)
PollIdle(r) ==
  IF rounds[r] + 1 >= IdleMax
  THEN Answer(r, StreamEnd(r)) /\ UNCHANGED rounds
  ELSE /\ rounds' = [rounds EXCEPT ![r] = @ + 1]
       /\ UNCHANGED <<pc, out, conns>>

(* One round of a subscription.  A failed poll is answered with an error,  *)
(* by the gateway as a second response on the stream.                      *)
Poll(r) ==
  /\ pc[r] = "stream"
  /\ \/ reset[r] /\ Abandon(r) /\ UNCHANGED rounds
     \/ ~reset[r] /\ PollEvent(r)
     \/ ~reset[r] /\ PollIdle(r)
     \/ ~reset[r] /\ Answer(r, Failed(r)) /\ UNCHANGED rounds
  /\ UNCHANGED <<client, body, ctx, ran>>

-----------------------------------------------------------------------------
(* hsp-s3 and hsp-cdn.                                                     *)
Authenticated(r, c) ==
  IF c = None THEN Refuse(r) /\ UNCHANGED ctx
  ELSE ctx' = [ctx EXCEPT ![r] = c] /\ Goto(r, "dispatch") /\ UNCHANGED ran

S3Handle(r) ==
  /\ pc[r] = "auth" /\ Is(r, "s3")
  /\ \E audited \in BOOLEAN :
       Authenticated(r, AuthenticateS3(req[r].cred, req[r].method, audited))
  /\ UNCHANGED <<client, body, rounds>>

ParseWrappedObjectKeys(q) == q.bad = "wrapped_key" => q.plain

ParsePutObjectRequest(q) == q.bad # "header" /\ ParseWrappedObjectKeys(q)

ParseCreateMultipartRequest(q) == q.bad # "header" /\ ParseWrappedObjectKeys(q)

ParseCannedAcl(q) == q.bad # "body"

(* The range, the access profile.                                          *)
ParseGet(q) == q.bad # "header"

(* What an S3 operation parses before it is called; the others parse       *)
(* nothing.                                                                *)
S3Decodes(q, op) ==
  CASE op = "put_object" -> ParsePutObjectRequest(q)
    [] op = "create_multipart_upload" -> ParseCreateMultipartRequest(q)
    [] op \in {"put_bucket_acl", "put_object_acl"} -> ParseCannedAcl(q)
    [] op = "get_object" -> ParseGet(q)
    [] op \in {"copy_object", "upload_part"} -> q.bad # "query"
    [] op \in {"put_lifecycle_config", "put_website_config", "put_replication_config",
               "put_object_retention", "put_object_legal_hold", "delete_objects",
               "complete_multipart_upload"} -> q.bad # "body"
    [] OTHER -> TRUE

(* DeleteObjects deletes what it may and reports every key as deleted.     *)
DeleteObjects(r) ==
  /\ Answer(r, Ok(r))
  /\ ran' = IF Permits(ctx[r], "delete_objects", S3Target(req[r]), FALSE)
            THEN [ran EXCEPT ![r] = "delete_objects"] ELSE ran

S3Dispatch(r) ==
  LET op == OpOf(req[r])
  IN /\ pc[r] = "dispatch" /\ Is(r, "s3")
     /\ CASE op = "metrics" -> RequireScope(r, "admin_metrics_read")
          [] op = "logs" -> RequireScope(r, "admin_audit_read")
          [] op = "route_not_found" -> Refuse(r)
          [] op = "delete_objects" /\ S3Decodes(req[r], op) -> DeleteObjects(r)
          [] OTHER -> \E acl \in BOOLEAN :
               IF S3Decodes(req[r], op) /\ Permits(ctx[r], op, S3Target(req[r]), acl)
               THEN Run(r, op) ELSE Refuse(r)
     /\ UNCHANGED <<client, body, ctx, rounds>>

CdnBegin(r) ==
  /\ pc[r] = "begin"
  /\ IF req[r].method \in {"GET", "HEAD"} THEN Goto(r, "body") ELSE Answer(r, Failed(r))
  /\ UNCHANGED <<client, body, ctx, ran, rounds>>

CdnHandle(r) ==
  /\ pc[r] = "auth" /\ Is(r, "cdn")
  /\ \E audited \in BOOLEAN :
       Authenticated(r, AuthenticateCdn(req[r].cred, req[r].method, audited))
  /\ UNCHANGED <<client, body, rounds>>

(* An edge token is for one CID, or for one bucket and key; a CID is read  *)
(* through the bucket and key of the token if it has them.                 *)
EdgeScope(q) ==
  q.cred.kind = "edge" =>
    IF q.at = "cid" THEN q.cred.cid = q.path ELSE q.cred.ns = q.ns /\ q.cred.path = q.path

CdnTarget(q) ==
  IF q.at # "cid" THEN q
  ELSE IF q.cred.kind = "edge" THEN [q EXCEPT !.ns = q.cred.ns, !.path = q.cred.path]
       ELSE [q EXCEPT !.ns = None, !.path = None]

(* allow_cache_hit: by CID, and without a range.                           *)
MayHit(q) == q.at = "cid" /\ "range" \notin q.params

(* The cache holds what slot s has fetched by this CID for this tenant.    *)
Stored(s, tenant, cid) ==
  /\ pc[s] = "done" /\ Is(s, "cdn") /\ MayHit(req[s]) /\ req[s].path = cid
  /\ ran[s] = "get_object" /\ out[s] = Success(s) /\ ctx[s].tenant = tenant

(* An entry that has not expired is served as it is; get_object, with its  *)
(* scope checks, is not called.                                            *)
CacheHit(r) ==
  /\ MayHit(req[r]) /\ \E s \in Slots : Stored(s, ctx[r].tenant, req[r].path)
  /\ Answer(r, Success(r))
  /\ ran' = [ran EXCEPT ![r] = "cached"]

CdnDispatch(r) ==
  LET op == OpOf(req[r])
  IN /\ pc[r] = "dispatch" /\ Is(r, "cdn")
     /\ CASE op = "metrics" -> RequireScope(r, "admin_metrics_read")
          [] op = "logs" -> RequireScope(r, "admin_audit_read")
          [] op = "route_not_found" -> Refuse(r)
          [] OTHER ->
               IF ~ParseGet(req[r]) \/ ~EdgeScope(req[r]) THEN Refuse(r)
               ELSE \/ CacheHit(r)
                    \/ \E acl \in BOOLEAN :
                         IF Permits(ctx[r], op, CdnTarget(req[r]), acl)
                         THEN Run(r, op) ELSE Refuse(r)
     /\ UNCHANGED <<client, body, ctx, rounds>>

-----------------------------------------------------------------------------
Server(r) ==
  \/ NativeFirst(r) \/ NativeServe(r)
  \/ ReadPiece(r) \/ BodyBroken(r) \/ EndOfBody(r)
  \/ GatewayAccept(r) \/ GatewayRoute(r) \/ GatewayServe(r)
  \/ Poll(r)
  \/ S3Handle(r) \/ S3Dispatch(r)
  \/ CdnBegin(r) \/ CdnHandle(r) \/ CdnDispatch(r)

Next ==
  \E r \in Slots :
    \/ /\ \A s \in Slots : pc[s] = "idle"
       /\ \E q \in Inputs : Open(r, q)
    \/ /\ \A s \in Slots : pc[s] # "idle" => Is(s, "gateway")
       /\ \E q \in GatewayInputs : Open(r, q)
    \/ /\ \A s \in Slots : pc[s] # "idle" => Is(s, "cdn")
       /\ \E q \in EdgeInputs : Open(r, q)
    \/ Send(r)
    \/ Reset(r)
    \/ Server(r)

Spec == Init /\ [][Next]_vars

(* A task with something to do is scheduled again; nothing is assumed of   *)
(* the clients.                                                            *)
FairSpec == Spec /\ \A r \in Slots : WF_vars(Server(r))

-----------------------------------------------------------------------------
Uploads == {"put_init", "put_chunk", "put_commit"}
Mutating == BucketMutations \cup ObjectMutations \cup Uploads \cup {"bind", "unbind"}

ASSUME NoneAssumption == None \notin Mutating \cup {"get_object"}

(* The credential is signed by someone the server trusts, and its proof    *)
(* was made for this connection or this request.                           *)
Genuine(q) ==
  /\ q.cred # None
  /\ CASE q.cred.kind = "capability" ->
            /\ q.cred.signer \in DOMAIN Issuers
            /\ q.cred.proof = IF q.front \in {"native", "gateway"} THEN q.conn ELSE "request"
       [] q.cred.kind \in {"sigv4", "presigned"} ->
            q.cred.signer \in DOMAIN AccessKeys /\ q.cred.proof = "request"
       [] q.cred.kind = "edge" -> q.cred.signer = "edge" /\ q.cred.method = q.method

(* What the credential limits its holder to.                               *)
Bound(q) ==
  IF q.cred.kind \in {"sigv4", "presigned"} THEN AccessKeys[q.cred.signer] ELSE q.cred

(* The request stays below the names the credential is limited to.         *)
Confined(q) ==
  LET target == CASE q.front = "s3" -> S3Target(q) [] q.front = "cdn" -> CdnTarget(q)
                  [] OTHER -> q
  IN /\ Bound(q).ns # None => target.ns # None /\ IsPrefix(Bound(q).ns, target.ns)
     /\ Bound(q).path # None => target.path # None /\ IsPrefix(Bound(q).path, target.path)
     /\ q.front \in {"native", "gateway"} => q.tenant = Bound(q).tenant

(* The scopes of the credential: those of an access key are given by the   *)
(* method it signs.                                                        *)
Holds(q) ==
  CASE q.cred.kind = "capability" -> q.cred.ops
    [] q.cred.kind \in {"sigv4", "presigned"} -> ScopesForHttpMethod(q.method)
    [] q.cred.kind = "edge" -> {"read"}

(* The scopes suffice.  Reads of hsp-distribution are not in the list: an  *)
(* ACL may allow them to every credential.                                 *)
Entitled(q, op) ==
  /\ op = "metrics" => "admin_metrics_read" \in Holds(q)
  /\ op = "logs" => "admin_audit_read" \in Holds(q)
  /\ op \in Uploads => "write" \in Holds(q)
  /\ op \in Mutating => Holds(q) \cap {"write", "bind", "unbind"} # {}
  /\ op \in {"head", "get", "resolve", "list", "subscribe"} => Holds(q) \cap {"read", op} # {}

(* Content from the cache is what another credential of the same tenant    *)
(* was let through to fetch, and an edge token gets the CID it names.      *)
FetchedFor(q) ==
  /\ q.cred.kind = "edge" => q.cred.cid = q.path
  /\ \E s \in Slots :
       /\ ran[s] = "get_object" /\ req[s].path = q.path
       /\ Genuine(req[s]) /\ Bound(req[s]).tenant = Bound(q).tenant

(* No operation but INFO and the bootstrap document reaches a service      *)
(* without a genuine credential of this very request or connection, one    *)
(* with a scope for the operation, and it stays within the credential's    *)
(* tenant and names, whatever was verified for other streams of the        *)
(* connection and however the frames are ordered.  What the CDN answers    *)
(* from its cache needs a genuine credential and was fetched for one of    *)
(* the same tenant; whether the names of the credential allow it is        *)
(* ScopedCidProven (hspd handle_request_stream, verify_gateway_auth,       *)
(* authenticate_request, the checks of each operation, serve_cached_object *)
(* with cid_cache_key).                                                    *)
OnlyAuthorized ==
  \A r \in Slots :
    ran[r] # None /\ ran[r] \notin {"info", "bootstrap"} =>
      /\ Genuine(req[r])
      /\ Entitled(req[r], ran[r])
      /\ ran[r] \in {"metrics", "logs", "cached"} \/ Confined(req[r])
      /\ ran[r] = "cached" => FetchedFor(req[r])

(* A credential limited to a bucket or to names in it reads an object by   *)
(* CID only through a name it may read: docs/upgrade/v0.1.1.md says that   *)
(* the CID has to be proven to be bound to it.  get_object does so, and a  *)
(* cache hit does not call it (serve_cached_object).                       *)
ScopedCidProven ==
  \A r \in Slots :
    ran[r] \in {"get_object", "cached"} /\ Is(r, "cdn") => Confined(req[r])

(* No server holds more of a body than the operation's limit, and an       *)
(* operation runs on the whole body the client sent or not at all: an      *)
(* over-long body is never cut (read_body, read_http_body, to_bytes).      *)
BodyWhole ==
  \A r \in Slots :
    pc[r] # "idle" =>
      /\ held[r] <= BodyLimit(req[r])
      /\ ran[r] \in Mutating =>
           held[r] = FoldLeft(LAMBDA a, b : a + b, 0, req[r].pieces)

(* A GET or HEAD changes nothing: whatever parameters it carries, no row   *)
(* of the route tables leads it to an operation that writes.               *)
SafeMethods ==
  \A r \in Slots :
    ran[r] \in Mutating => req[r].method \notin {"GET", "HEAD"}

Heads(r) == Cardinality({i \in DOMAIN out[r] : out[r][i] \in {"RES", "ERROR", "head", "error"}})

(* An operation that was let through is answered unless its own client     *)
(* gave up, even if the gateway gives up the connection for another        *)
(* stream; an answer is one response, ended; S3 and the CDN answer always. *)
(* Exceptions: a subscription that fails midway (handle_gateway_connection *)
(* answers a second time) and a native result too long for a frame.        *)
AnsweredOnce ==
  \A r \in Slots :
    pc[r] = "done" =>
      /\ ran[r] # None /\ ~reset[r] => out[r] # <<>>
      /\ out[r] = <<>> => req[r].front \in {"native", "gateway"}
      /\ out[r] # <<>> /\ ~reset[r] =>
           Last(out[r]) \in {"END", "ERROR", "end"} \/ Oversized(r, ran[r])
      /\ ran[r] # "subscribe" => Heads(r) <= 1

(* The requests that have to be served before r.                           *)
UpTo(r) ==
  IF Is(r, "gateway")
  THEN {s \in ToSet(queue[req[r].conn]) : s <= r}
  ELSE {r}

(* A subscription of the connection has just begun or just sent an event.  *)
Busy(c) == \E s \in Slots : pc[s] = "stream" /\ req[s].conn = c /\ rounds[s] = 0

(* Every request whose client has sent all of it, and all of the requests  *)
(* before it on its gateway connection, is eventually finished, unless a   *)
(* stream of that connection is reset: what happens on other connections   *)
(* does not matter, and subscriptions ahead of it end by their idle rounds *)
(* once they get no more events.  While events keep coming they do not     *)
(* end, and hold up all that is queued behind them                         *)
(* (handle_gateway_connection, handle_gateway_subscribe, hspd SUBSCRIBE).  *)
Answered ==
  \A c \in Conns, r \in Slots :
    <>[]~Busy(c) =>
      ((Active(r) /\ req[r].conn = c /\ \A s \in UpTo(r) : Complete(s))
         ~> \/ pc[r] = "done"
            \/ \E s \in Slots : reset[s] /\ req[s].conn = c)
=============================================================================
