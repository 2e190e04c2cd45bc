------------------------------- MODULE DocSites --------------------------------
(***************************************************************************)
(* Document sites: the capability profile and the site descriptor of       *)
(* sim-lib-doc-core (caps.rs, place.rs), their registration and modeled    *)
(* calls in sim-lib-doc-site (register.rs), and the descriptors of the     *)
(* three services.                                                         *)
(***************************************************************************)
EXTENDS Integers, TLC

CONSTANT None       \* the absent value

NetConnect == "net-connect"
ProcessSpawn == "process-spawn"
Credentials == "credentials"

\* What the office profile grants, and what it leaves to the host.
GrantedByProfile == {}
DeniedByProfile == {NetConnect, ProcessSpawn, "wall-clock", Credentials}

\* A site, the capabilities its live use requires, and whether it is modeled.
DocSite(id, kinds, required, modeled) ==
    [id |-> id, kinds |-> kinds, required |-> required, modeled |-> modeled]

MsgraphSite(modeled) ==
    DocSite("site/msgraph", {"sheet", "deck", "article", "report", "readme"},
            {NetConnect, Credentials}, modeled)
SharepointSite(modeled) ==
    DocSite("site/sharepoint", {"sheet"}, {NetConnect, Credentials}, modeled)
LibreofficeSite(modeled) ==
    DocSite("site/libreoffice", {"sheet", "deck"}, {ProcessSpawn}, modeled)

\* The first registration under an id stays; a later one is answered with it.
RegisterSite(registry, site) ==
    IF site.id \in DOMAIN registry THEN registry ELSE (site.id :> site) @@ registry

Authorize(site, granted) == site.modeled \/ site.required \subseteq granted

\* A read answers with the descriptor and the path, a write with an edit and
\* what cancels it; neither reaches the service.
ModeledRead(site, path) ==
    [kind |-> "doc-site-cassette", site |-> site.id, path |-> path,
     modeled |-> site.modeled, kinds |-> site.kinds, required |-> site.required]
PreviewWrite(site, path, body) ==
    [kind |-> "doc-site-preview", doc |-> <<site.id, path>>, domain |-> "office/doc-site",
     op |-> [kind |-> "doc-site-preview-write", site |-> site.id, path |-> path, body |-> body],
     inverse |-> [kind |-> "doc-site-preview-cancel", site |-> site.id, path |-> path]]

\* site_op_from_expr: an operation and a path, both texts; a body is optional.
SiteOpFromExpr(request) ==
    IF request.op \notin {"read", "preview-write"} \/ request.path = None THEN None
    ELSE request

\* realize_site_op, and realize for a request in the form of data.
RealizeSiteOp(registry, granted, id, request) ==
    IF id \notin DOMAIN registry \/ SiteOpFromExpr(request) = None THEN None
    ELSE IF ~Authorize(registry[id], granted) THEN None
    ELSE IF request.op = "read" THEN ModeledRead(registry[id], request.path)
    ELSE PreviewWrite(registry[id], request.path, request.body)
===============================================================================
