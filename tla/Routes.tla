------------------------------- MODULE Routes --------------------------------
(***************************************************************************)
(* The routes of the three HTTP front ends, as tables read from the top:   *)
(* a request is served by the first row with its method and place whose    *)
(* parameters it carries, as by the arms of the match in each              *)
(* dispatch_request and in route_request.  A place stands for the paths    *)
(* with that shape.  "copy-source" is the header x-amz-copy-source.        *)
(***************************************************************************)
EXTENDS Naturals, Sequences, SequencesExt

Row(method, at, has, op) == [method |-> method, at |-> at, has |-> has, op |-> op]

(* get, put and delete of one kind of bucket configuration.                *)
ConfigRows(param, get, put, delete) ==
  <<Row("GET", "bucket", {param}, get),
    Row("PUT", "bucket", {param}, put),
    Row("DELETE", "bucket", {param}, delete)>>

BucketConfigRoutes ==
  <<Row("GET", "root", {}, "list_buckets"),
    Row("GET", "bucket", {"acl"}, "get_bucket_acl"),
    Row("PUT", "bucket", {"acl"}, "put_bucket_acl")>>
  \o ConfigRows("lifecycle", "get_lifecycle_config", "put_lifecycle_config",
                "delete_lifecycle_config")
  \o ConfigRows("website", "get_website_config", "put_website_config",
                "delete_website_config")

(* Mutant: the replication run answers to GET.                             *)
ReplicationRoutesGet ==
  <<Row("GET", "bucket", {"replication-status"}, "get_replication_status"),
    Row("GET", "bucket", {"replication-run"}, "run_replication_once")>>
  \o ConfigRows("replication", "get_replication_config", "put_replication_config",
                "delete_replication_config")

ReplicationRoutes ==
  <<Row("GET", "bucket", {"replication-status"}, "get_replication_status"),
    Row("POST", "bucket", {"replication-run"}, "run_replication_once")>>
  \o ConfigRows("replication", "get_replication_config", "put_replication_config",
                "delete_replication_config")

(* Whatever other parameters the request has.                              *)
BucketRoutes ==
  <<Row("PUT", "bucket", {}, "create_bucket"),
    Row("HEAD", "bucket", {}, "head_bucket"),
    Row("DELETE", "bucket", {}, "delete_bucket"),
    Row("GET", "bucket", {"list-type=2"}, "list_objects"),
    Row("POST", "bucket", {"delete"}, "delete_objects")>>

ObjectConfigRoutes ==
  <<Row("GET", "object", {"acl"}, "get_object_acl"),
    Row("PUT", "object", {"acl"}, "put_object_acl"),
    Row("GET", "object", {"retention"}, "get_object_lock"),
    Row("PUT", "object", {"retention"}, "put_object_retention"),
    Row("GET", "object", {"legal-hold"}, "get_object_lock"),
    Row("PUT", "object", {"legal-hold"}, "put_object_legal_hold")>>

CopyRoute == <<Row("PUT", "object", {"copy-source"}, "copy_object")>>

MultipartRoutes ==
  <<Row("POST", "object", {"uploads"}, "create_multipart_upload"),
    Row("PUT", "object", {"uploadId", "partNumber"}, "upload_part"),
    Row("POST", "object", {"uploadId"}, "complete_multipart_upload"),
    Row("DELETE", "object", {"uploadId"}, "abort_multipart_upload")>>

ObjectRoutes ==
  <<Row("PUT", "object", {}, "put_object"),
    Row("HEAD", "object", {}, "head_object"),
    Row("GET", "object", {}, "get_object"),
    Row("DELETE", "object", {}, "delete_object")>>

S3Routes ==
  <<Row("GET", "metrics", {}, "metrics"), Row("GET", "logs", {}, "logs")>>
  \o BucketConfigRoutes \o ReplicationRoutes \o BucketRoutes
  \o ObjectConfigRoutes \o CopyRoute \o MultipartRoutes \o ObjectRoutes

CdnRoutes ==
  <<Row("GET", "metrics", {}, "metrics"), Row("GET", "logs", {}, "logs"),
    Row("GET", "cid", {}, "get_object"), Row("HEAD", "cid", {}, "get_object"),
    Row("GET", "key", {}, "get_object"), Row("HEAD", "key", {}, "get_object")>>

-----------------------------------------------------------------------------
GatewayOpenRoutes ==
  <<Row("GET", "events", {}, "subscribe"),
    Row("GET", "well-known", {}, "bootstrap"),
    Row("GET", "info", {}, "info")>>

GatewayAdminRoutes ==
  <<Row("GET", "metrics", {}, "metrics"), Row("GET", "logs", {}, "logs")>>

(* An object by name or by CID: its metadata, its chunks, its headers.     *)
GatewayNameRoutes ==
  <<Row("GET", "ns_metadata", {}, "head"), Row("GET", "ns_object", {}, "get"),
    Row("HEAD", "ns_object", {}, "head"), Row("HEAD", "ns_metadata", {}, "head")>>

GatewayCidRoutes ==
  <<Row("GET", "cid_metadata", {}, "head"), Row("GET", "cid_object", {}, "get"),
    Row("HEAD", "cid_object", {}, "head"), Row("HEAD", "cid_metadata", {}, "head")>>

GatewayUploadRoutes ==
  <<Row("POST", "uploads", {}, "put_init"), Row("PUT", "chunk", {}, "put_chunk"),
    Row("POST", "commit", {}, "put_commit")>>

GatewayNamespaceRoutes ==
  <<Row("GET", "resolve", {}, "resolve"), Row("PUT", "bind", {}, "bind"),
    Row("DELETE", "bind", {}, "unbind"), Row("GET", "list", {}, "list")>>

GatewayRoutes ==
  GatewayOpenRoutes \o GatewayAdminRoutes \o GatewayUploadRoutes
  \o GatewayNameRoutes \o GatewayCidRoutes \o GatewayNamespaceRoutes

-----------------------------------------------------------------------------
Matches(row, q) == row.method = q.method /\ row.at = q.at /\ row.has \subseteq q.params

(* The operation of the first row that matches, or route_not_found.        *)
Route(table, q) ==
  LET i == SelectInSeq(table, LAMBDA row : Matches(row, q))
  IN IF i = 0 THEN "route_not_found" ELSE table[i].op
=============================================================================
