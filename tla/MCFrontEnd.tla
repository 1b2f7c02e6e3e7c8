----------------------------- MODULE MCFrontEnd ------------------------------
(* Constants of the TLC run of FrontEnd: one tenant's names, credentials   *)
(* of every kind, good and bad, and the requests that matter.              *)
EXTENDS FrontEnd, TLC

CONSTANTS c1, c2, t1, t2

OneIssuer == "auth" :> {"dist", "native"}
OneKey == "key" :> [tenant |-> t1, ns |-> <<"b">>, path |-> None]

Token ==
  [kind |-> "capability", issuer |-> "auth", signer |-> "auth", aud |-> "native",
   proof |-> c1, method |-> None, tenant |-> t1, ops |-> {"read", "write", "list"},
   ns |-> None, path |-> None, cid |-> None, jti |-> TRUE, flaw |-> None, fits |-> TRUE]
HttpToken == [Token EXCEPT !.aud = "dist", !.proof = "request"]
SigV4 == [HttpToken EXCEPT !.kind = "sigv4", !.signer = "key"]
EdgeToken == [HttpToken EXCEPT !.kind = "edge", !.signer = "edge", !.method = "GET",
              !.ns = <<"b">>, !.path = <<"k">>, !.cid = <<"k">>, !.ops = {"read"}]

(* Good, for a prefix, of another channel, forged, without write scope or  *)
(* replay identity, of another tenant, expired, none.                      *)
NativeCreds ==
  {Token, [Token EXCEPT !.ns = <<"b">>, !.path = <<"x">>], [Token EXCEPT !.proof = c2],
   [Token EXCEPT !.signer = "other"], [Token EXCEPT !.ops = {"subscribe"}],
   [Token EXCEPT !.jti = FALSE], [Token EXCEPT !.tenant = t2],
   [Token EXCEPT !.flaw = "expired"], None}
HttpCreds ==
  {HttpToken, [HttpToken EXCEPT !.ops = {"bind"}], [HttpToken EXCEPT !.path = <<"x">>],
   [HttpToken EXCEPT !.proof = c1], [HttpToken EXCEPT !.ops = {"admin_metrics_read"}],
   SigV4, [SigV4 EXCEPT !.signer = "other"], [SigV4 EXCEPT !.kind = "presigned"], None}
FlawedCreds ==
  {[SigV4 EXCEPT !.kind = k, !.flaw = f] :
     k \in {"sigv4", "presigned", "capability"},
     f \in {"format", "date", "expired", "headers", "payload", "duplicate"}}
CdnCreds == {HttpToken, SigV4, EdgeToken, [EdgeToken EXCEPT !.cid = <<"z">>, !.path = <<"z">>],
             [EdgeToken EXCEPT !.ns = None, !.path = None], None}

Base ==
  [front |-> "native", conn |-> c1, cred |-> Token, method |-> "POST", at |-> "stream",
   params |-> {}, split |-> TRUE, op |-> "info", frames |-> <<"AUTH", "REQ">>,
   pieces |-> <<1>>, bad |-> None, plain |-> FALSE, tenant |-> t1, ns |-> <<"b">>, path |-> <<"k">>,
   other |-> [ns |-> <<"b">>, path |-> <<"k">>], vhost |-> None, url |-> <<"b", "k">>]

NativeOps == {"info", "head", "get", "resolve", "bind", "unbind", "list", "subscribe",
              "put_init", "put_chunk", "put_commit"}
NativeInputs ==
  {[Base EXCEPT !.op = o, !.cred = c] : o \in NativeOps, c \in NativeCreds}
  \cup {[Base EXCEPT !.op = o, !.frames = f] :
          o \in {"info", "get"},
          f \in {<<"REQ">>, <<"AUTH", "DATA">>, <<"DATA">>, <<"END">>}}
  \cup {[Base EXCEPT !.op = o, !.pieces = p, !.bad = d] :
          o \in {"info", "put_chunk", "bind"}, d \in {None, "header", "body"},
          p \in {<<>>, <<1, 1>>, <<2, 1>>, <<1, 1, 1>>, <<1, Odd>>, <<Odd>>}}

GatewayBase == [Base EXCEPT !.front = "gateway", !.frames = <<>>, !.pieces = <<>>]
OtherChannel == [Token EXCEPT !.proof = c2]
AllGatewayInputs ==
  {[GatewayBase EXCEPT !.method = "GET", !.at = a] :
     a \in {"events", "well-known", "info", "metrics", "logs", "ns_metadata", "ns_object",
            "cid_metadata", "resolve", "list", "none"}}
  \cup {[GatewayBase EXCEPT !.method = m, !.at = "ns_object"] : m \in {"HEAD", "POST"}}
  \cup {[GatewayBase EXCEPT !.method = "GET", !.at = "ns_object", !.cred = OtherChannel,
          !.conn = c] : c \in {c1, c2}}
  \cup {[GatewayBase EXCEPT !.method = "PUT", !.at = a, !.pieces = p] :
          a \in {"bind", "chunk"}, p \in {<<1, 1>>, <<2, 2>>}}
  \cup {[GatewayBase EXCEPT !.method = "PUT", !.at = "bind", !.split = FALSE],
        [GatewayBase EXCEPT !.method = "DELETE", !.at = "bind"],
        [GatewayBase EXCEPT !.method = "POST", !.at = "commit"],
        [GatewayBase EXCEPT !.method = "POST", !.at = "uploads", !.bad = "body"]}

S3Params ==
  {{}, {"acl"}, {"lifecycle"}, {"website"}, {"replication-status"}, {"replication-run"},
   {"replication"}, {"list-type=2"}, {"delete"}, {"retention"}, {"legal-hold"},
   {"copy-source"}, {"uploads"}, {"uploadId"}, {"uploadId", "partNumber"},
   {"acl", "uploadId", "partNumber"}}
S3Base == [Base EXCEPT !.front = "s3", !.frames = <<>>, !.ns = None, !.path = None,
           !.cred = HttpToken]
S3Methods == {"GET", "HEAD", "PUT", "POST", "DELETE"}
Metrics == <<"metrics">>
Logs == <<"v1", "observability", "logs">>
S3Inputs ==
  {[S3Base EXCEPT !.method = m, !.url = u, !.params = s, !.cred = c] :
     m \in S3Methods, u \in {<<"b">>, <<"b", "k">>}, s \in S3Params,
     c \in {HttpToken, [HttpToken EXCEPT !.ops = {"bind"}], [HttpToken EXCEPT !.path = <<"x">>]}}
  \cup {[S3Base EXCEPT !.method = m, !.url = u, !.cred = c] :
          m \in {"GET", "PUT"}, u \in {<<>>, <<"b", "k">>, Metrics, Logs}, c \in HttpCreds}
  \cup {[S3Base EXCEPT !.method = m, !.vhost = "b", !.url = u] :
          m \in S3Methods, u \in {<<>>, <<"k">>, Metrics}}
  \cup {[S3Base EXCEPT !.method = "DELETE", !.cred = c] : c \in FlawedCreds}
  \cup {[S3Base EXCEPT !.method = m, !.params = s, !.pieces = p, !.bad = d, !.plain = b,
         !.cred = HttpToken] :
          m \in {"GET", "PUT", "POST"}, s \in {{}, {"acl"}, {"uploads"}, {"copy-source"}},
          p \in {<<>>, <<2, 2>>}, b \in BOOLEAN,
          d \in {None, "body", "query", "header", "wrapped_key"}}

CdnBase == [Base EXCEPT !.front = "cdn", !.frames = <<>>, !.pieces = <<>>, !.method = "GET",
            !.at = "cid"]
CdnInputs ==
  {[CdnBase EXCEPT !.method = m, !.at = a, !.cred = c] :
     m \in {"GET", "HEAD"}, a \in {"cid", "key", "metrics", "logs", "none"}, c \in CdnCreds}
  \cup {[CdnBase EXCEPT !.method = m, !.pieces = <<1>>, !.cred = HttpToken] : m \in {"GET", "PUT"}}

(* GETs of one CID by credentials without limit, for another part of the   *)
(* bucket, of another tenant, of an access key, of an edge token, and of a *)
(* range of it.                                                            *)
ScopedToken == [HttpToken EXCEPT !.path = <<"x">>]
CidInputs ==
  {[CdnBase EXCEPT !.cred = c] :
     c \in {HttpToken, ScopedToken, [HttpToken EXCEPT !.tenant = t2], SigV4, EdgeToken}}
  \cup {[CdnBase EXCEPT !.cred = HttpToken, !.params = {"range"}]}

AllInputs == NativeInputs \cup AllGatewayInputs \cup S3Inputs \cup CdnInputs

(* A subscription, a short request, bodies within the limit and beyond it, *)
(* a refused request, and another connection.                              *)
SomeGatewayInputs ==
  {[GatewayBase EXCEPT !.method = "GET", !.at = a] : a \in {"events", "ns_object"}}
  \cup {[GatewayBase EXCEPT !.method = "GET", !.at = "ns_object", !.cred = OtherChannel,
          !.conn = c] : c \in {c1, c2}}
  \cup {[GatewayBase EXCEPT !.method = "PUT", !.at = "chunk", !.pieces = p] :
          p \in {<<1, 1>>, <<2, 2>>}}
=============================================================================
