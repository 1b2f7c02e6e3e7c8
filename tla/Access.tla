------------------------------- MODULE Access --------------------------------
(***************************************************************************)
(* Who may do what: the credentials the front ends accept, the context     *)
(* each of them yields, and the checks an operation makes on that context, *)
(* in hsp-service (PolicyEngine::authorize) and in hsp-distribution.       *)
(*                                                                         *)
(* A credential is a record of the facts the code verifies: who signed it, *)
(* what its proof was computed over, what it claims, and "flaw", the one   *)
(* check of form or time it fails (None for most).  Names of namespaces    *)
(* and paths are sequences of segments.  The limits on size, storage       *)
(* class, key policy and metadata visibility are one flag; replay          *)
(* protection is module ReplayGuard.                                       *)
(***************************************************************************)
EXTENDS Naturals, Sequences, SequencesExt

CONSTANTS None,
          Issuers,     \* the issuer registry: the audiences of each issuer
          AccessKeys,  \* the enabled SigV4 keys: tenant, ns and path of each
          Audience     \* the audience of hsp-s3 and hsp-cdn

Scopes == {"read", "write", "bind", "unbind", "list", "subscribe",
           "admin_metrics_read", "admin_audit_read", "admin_repair"}

-----------------------------------------------------------------------------
(* Operations of hsp-service.                                              *)
IsMutation(op) == op \in {"bind", "unbind", "put_init", "put_chunk", "put_commit"}

ScopesFor(op) ==
  CASE op \in {"info", "head", "get", "resolve"} -> {"read"}
    [] op = "bind" -> {"bind", "write"}
    [] op = "unbind" -> {"unbind", "bind", "write"}
    [] op = "list" -> {"list", "read"}
    [] op = "subscribe" -> {"subscribe", "read"}
    [] op \in {"put_init", "put_chunk", "put_commit"} -> {"write"}
    [] OTHER -> {}

SegmentPrefixMatches(prefix, name) == name # None /\ IsPrefix(prefix, name)

(* A prefix of the credential binds the request to names below it, and     *)
(* refuses one that names nothing.                                         *)
InScope(ctx, ns, path) ==
  /\ ctx.ns # None => SegmentPrefixMatches(ctx.ns, ns)
  /\ ctx.path # None => SegmentPrefixMatches(ctx.path, path)

(* What the operation tells authorize about its target.  PUT_CHUNK names   *)
(* neither namespace nor path.                                             *)
MetaNs(op, q) == IF op = "put_chunk" THEN None ELSE q.ns
MetaPath(op, q) == IF op = "put_chunk" THEN None ELSE q.path

ValidateTimeWindow(ctx) == ctx.flaw # "expired"

Authorize(ctx, op, q) ==
  /\ ValidateTimeWindow(ctx)
  /\ ctx.tenant = q.tenant
  /\ ctx.ops \cap ScopesFor(op) # {}
  /\ IsMutation(op) => ctx.bound /\ ctx.jti
  /\ InScope(ctx, MetaNs(op, q), MetaPath(op, q))
  /\ ctx.fits

-----------------------------------------------------------------------------
(* Credentials.                                                            *)
Resolve(cred) == IF cred.issuer \in DOMAIN Issuers THEN Issuers[cred.issuer] ELSE None

VerifyCoseSign1Token(cred) ==
  /\ cred.kind = "capability" /\ cred.flaw # "format"
  /\ Resolve(cred) # None
  /\ Resolve(cred) # {} => cred.aud \in Resolve(cred)
  /\ cred.signer = cred.issuer

(* Mutant: any proof of a channel will do.                                 *)
VerifyTlsExporterBindingAny(cred, conn) == cred.proof # None

(* The proof was computed over the exporter of this very connection.       *)
VerifyTlsExporterBinding(cred, conn) == cred.proof = conn

VerifyAuth(cred, conn) ==
  cred # None /\ VerifyCoseSign1Token(cred) /\ VerifyTlsExporterBinding(cred, conn)

(* The context of a capability token.                                      *)
TokenContext(cred) ==
  [tenant |-> cred.tenant, ops |-> cred.ops, ns |-> cred.ns, path |-> cred.path,
   bound |-> TRUE, jti |-> cred.jti, flaw |-> cred.flaw, fits |-> cred.fits]

(* A capability in the headers of an HTTP request: the proof is a digest   *)
(* of token, method, path, query, body and nonce.                          *)
AuthenticateHspCapability(cred) ==
  VerifyCoseSign1Token(cred) /\ cred.aud = Audience /\ cred.proof = "request"

ScopesForHttpMethod(method) ==
  CASE method \in {"GET", "HEAD"} -> {"read", "list"}
    [] method \in {"PUT", "POST", "DELETE"} -> {"read", "write", "bind", "unbind", "list"}
    [] OTHER -> {"read"}

SigV4AccessKey(cred) == cred.signer \in DOMAIN AccessKeys

(* Authorization header or X-Amz-Credential can be taken apart.            *)
ParseSigV4(cred) == cred.flaw # "format"

(* The request names its date, within the allowed clock skew.              *)
ParseAmzDate(cred) == cred.flaw # "date"
SigV4TimeWindow(cred) == cred.flaw # "expired"

(* Signed headers are named once, sorted, host among them, and present     *)
(* once in the request.                                                    *)
ValidateSignedHeaders(cred) == cred.flaw # "headers"
PayloadHashMatches(cred) == cred.flaw # "payload"

(* The signature is the HMAC of this request's canonical form.             *)
SigV4Signature(cred) == cred.proof = "request"

AuthenticateHeaderSigV4(cred) ==
  /\ ParseSigV4(cred) /\ SigV4AccessKey(cred)
  /\ ParseAmzDate(cred) /\ SigV4TimeWindow(cred)
  /\ PayloadHashMatches(cred)
  /\ ValidateSignedHeaders(cred) /\ SigV4Signature(cred)

(* No parameter of a presigned URL occurs twice.                           *)
ParseUniqueQueryPairs(cred) == cred.flaw # "duplicate"

(* A presigned URL has to leave an audit record; audited tells whether     *)
(* that write succeeded.                                                   *)
AuthenticatePresignedSigV4(cred, audited) ==
  /\ ParseUniqueQueryPairs(cred)
  /\ ParseAmzDate(cred) /\ SigV4TimeWindow(cred)
  /\ ParseSigV4(cred) /\ SigV4AccessKey(cred)
  /\ ValidateSignedHeaders(cred) /\ SigV4Signature(cred)
  /\ audited

SigV4AuthContext(cred, method) ==
  LET key == AccessKeys[cred.signer]
  IN [tenant |-> key.tenant, ops |-> ScopesForHttpMethod(method), ns |-> key.ns,
      path |-> key.path, bound |-> TRUE, jti |-> TRUE, flaw |-> None, fits |-> cred.fits]

DecodeEdgeToken(cred) == cred.signer = "edge" /\ cred.flaw \notin {"format", "expired"}

EnsureEdgeTokenMethod(cred, method) == cred.method = method

AuthenticateEdgeToken(cred, method) ==
  DecodeEdgeToken(cred) /\ EnsureEdgeTokenMethod(cred, method)

EdgeContext(cred) ==
  [tenant |-> cred.tenant, ops |-> {"read"}, ns |-> cred.ns, path |-> cred.path,
   bound |-> TRUE, jti |-> TRUE, flaw |-> None, fits |-> TRUE]

(* The context of an S3 request, None when it is refused.                  *)
AuthenticateS3(cred, method, audited) ==
  IF cred = None THEN None
  ELSE CASE cred.kind = "capability" /\ AuthenticateHspCapability(cred) -> TokenContext(cred)
         [] cred.kind = "sigv4" /\ AuthenticateHeaderSigV4(cred) ->
              SigV4AuthContext(cred, method)
         [] cred.kind = "presigned" /\ AuthenticatePresignedSigV4(cred, audited) ->
              SigV4AuthContext(cred, method)
         [] OTHER -> None

(* The CDN takes the same and, first, an edge token.                       *)
AuthenticateCdn(cred, method, audited) ==
  IF cred # None /\ cred.kind = "edge"
  THEN IF AuthenticateEdgeToken(cred, method) THEN EdgeContext(cred) ELSE None
  ELSE AuthenticateS3(cred, method, audited)

-----------------------------------------------------------------------------
(* Operations of hsp-distribution.                                         *)
MutationScope(ctx, bucket, key) ==
  ctx.ops \cap {"write", "bind", "unbind"} # {} /\ InScope(ctx, bucket, key)

HasReadCapability(ctx) == ctx.ops \cap {"read", "list", "write"} # {}

HasCidReadCapability(ctx) == HasReadCapability(ctx) \/ "admin_repair" \in ctx.ops

(* acl: the ACL of the bucket, or of the object if there is a key, lets    *)
(* every authenticated principal read.                                     *)
ReadScope(ctx, bucket, key, acl) ==
  (HasReadCapability(ctx) \/ acl) /\ InScope(ctx, bucket, key)

ReadScopeForOptional(ctx) == HasReadCapability(ctx) /\ InScope(ctx, None, None)

UnscopedCidReadScope(ctx) ==
  HasCidReadCapability(ctx) /\ ctx.ns = None /\ ctx.path = None

BucketMutations == {"create_bucket", "delete_bucket", "put_bucket_acl",
  "put_lifecycle_config", "delete_lifecycle_config", "put_website_config",
  "delete_website_config", "put_replication_config", "delete_replication_config",
  "run_replication_once"}

(* The multipart operations check the bucket and key of the session.       *)
ObjectMutations == {"put_object_acl", "put_object_retention", "put_object_legal_hold",
  "put_object", "delete_object", "delete_objects", "copy_object",
  "create_multipart_upload", "upload_part", "complete_multipart_upload",
  "abort_multipart_upload"}

BucketReads == {"head_bucket", "get_bucket_acl", "get_lifecycle_config",
  "get_website_config", "get_replication_config", "get_replication_status"}

ObjectReads == {"get_object_acl", "get_object_lock", "head_object", "get_object",
                "list_objects"}

(* The scope check at the head of each operation, for a request q whose    *)
(* "other" is the source of a copy or the destination of a replication.    *)
Permits(ctx, op, q, acl) ==
  \/ op = "list_buckets" /\ ReadScopeForOptional(ctx)
  \/ /\ op \in BucketMutations /\ MutationScope(ctx, q.ns, None)
     /\ op = "put_replication_config" => MutationScope(ctx, q.other.ns, None)
  \/ /\ op \in ObjectMutations /\ MutationScope(ctx, q.ns, q.path)
     /\ op = "copy_object" => ReadScope(ctx, q.other.ns, q.other.path, acl)
  \/ op \in BucketReads /\ ReadScope(ctx, q.ns, None, acl)
  \/ /\ op \in ObjectReads
     /\ IF op = "get_object" /\ q.ns = None THEN UnscopedCidReadScope(ctx)
        ELSE ReadScope(ctx, q.ns, q.path, acl)
=============================================================================
