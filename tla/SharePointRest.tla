---------------------------- MODULE SharePointRest -----------------------------
(***************************************************************************)
(* The REST fallback of the SharePoint site (rest.rs and batch.rs of       *)
(* sim-site-sharepoint): operations below _api, several of them in one     *)
(* batch, where a change of an item names the version it is based on.      *)
(***************************************************************************)
EXTENDS GraphClient, Sequences

\* A path below _api, with or without its first slash; "other" stands for
\* whatever is refused: a URL, blanks inside, another root.
ApiPath(form, item) == [form |-> form, item |-> item]
NormalizeApiPath(path) == IF path.form = "other" THEN None ELSE [path EXCEPT !.form = "slashed"]

\* A site URL begins with https and has neither query nor fragment.
NormalizeSiteUrl(url) == IF url.https /\ ~url.query THEN url ELSE None

\* api_url_for
ApiUrlFor(url, path) ==
    IF None \in {NormalizeSiteUrl(url), NormalizeApiPath(path)} THEN None
    ELSE [site |-> NormalizeSiteUrl(url), path |-> NormalizeApiPath(path)]

\* An operation of a batch; its version is None without If-Match.
RestBatchOp(method, path, etag, body) ==
    [method |-> method, path |-> path, etag |-> etag, body |-> body]
BatchGet(path) == RestBatchOp("GET", path, None, None)
BatchPost(path, body) == RestBatchOp("POST", path, None, body)
Patch(path, body) == RestBatchOp("PATCH", path, None, body)
Delete(path) == RestBatchOp("DELETE", path, None, None)
WithIfMatch(op, etag) == [op EXCEPT !.etag = etag]
PatchChecked(path, body, etag) == WithIfMatch(Patch(path, body), etag)
DeleteChecked(path, etag) == WithIfMatch(Delete(path), etag)

\* Mutant of WritePrecondition: a delete carries no version.
WritePreconditionOfPatch(op) ==
    op.method = "PATCH" => op.etag # None /\ ~Blank(op.etag)

\* validate_write_precondition: a patch or a delete names a version.
WritePrecondition(op) ==
    op.method \in {"PATCH", "DELETE"} => op.etag # None /\ ~Blank(op.etag)

\* operation_headers: the media types, and the version where one is named.
OperationHeaders(op) ==
    {"Accept"} \cup (IF op.body = None THEN {} ELSE {"Content-Type"})
    \cup (IF op.etag = None THEN {} ELSE {"If-Match"})

\* odata_batch_body: nothing of a batch is written unless all of it is valid.
OdataBatchBody(url, ops) ==
    IF \/ ops = <<>>
       \/ \E i \in 1..Len(ops) : ~WritePrecondition(ops[i]) \/ ApiUrlFor(url, ops[i].path) = None
    THEN None
    ELSE [i \in 1..Len(ops) |->
             [method |-> ops[i].method, url |-> ApiUrlFor(url, ops[i].path),
              headers |-> OperationHeaders(ops[i]), etag |-> ops[i].etag, body |-> ops[i].body]]

\* batch: what goes out.  A cassette answers itself, and live Graph access has
\* no REST transport and refuses; only a transport of the host carries it.
BatchSent(carrier, url, ops) == IF carrier = "host" THEN OdataBatchBody(url, ops) ELSE None
===============================================================================
