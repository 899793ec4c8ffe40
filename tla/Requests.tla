------------------------------ MODULE Requests ------------------------------
(***************************************************************************)
(* What a request to the dashboard's two HTTP APIs runs: the body limits   *)
(* and gates in front of them (internal/server, csrf, tokens), the         *)
(* dispatch of internal/adminapi and internal/api, and what each handler   *)
(* asks of the domain packages.  An answer is a status and the domain      *)
(* functions that ran, in order.                                           *)
(*                                                                         *)
(* A request: [path, method, cookie, origin, csrf, bearer, large, parses,  *)
(* id, key, html, report], path below /api/v1.                             *)
(***************************************************************************)
EXTENDS Routes, FiniteSets

Answer(status, calls) == [status |-> status, calls |-> calls]
Refuse(status) == Answer(status, <<>>)

\* A handler: the operation it answers, whether it goes ahead, and its calls.
Needs(op, condition, calls) == [op |-> op, ok |-> condition, calls |-> calls]
Does(op, call) == Needs(op, TRUE, <<call>>)

\* toID: a JSON value that is a positive integer.
ToID(v) == v = "id"

---------------------------------------------------------------------------
(* The handlers of the admin API.  q: the request; id: its :id segment.    *)

AdminPageReads(q, id) ==
  {Needs("listPages", TRUE, <<"FillCoverageGaps", "ListPages", "ListWorkspaces">>),
   Needs("refreshHealth", q.id # "bad", <<"ListRefreshHealth">>), Needs("getVersion", ToID(id), <<"GetVersion">>),
   Needs("getPage", TRUE, <<"GetPage", "ListVersions", "ListThemes", "ListForPage", "GetVersion", "RefreshHealthFor">>)}
AdminListReads(q, id) ==
  {Does("listWorkspaces", "ListWorkspaces"), Does("listPortals", "ListPortals"), Needs("getPortal", ToID(id), <<"GetPortal">>),
   Does("listTemplates", "ListTemplates"),
   Needs("getTemplate", q.id = "absent" \/ ToID(q.id), <<"GetTemplate", "Revisions", "ListTemplatePages">>)}
AdminWorkspaces(q, id) ==
  {Does("createWorkspace", "CreateWorkspace"), Needs("renameWorkspace", ToID(id), <<"RenameWorkspace">>),
   Needs("deleteWorkspace", ToID(id), <<"RemoveWorkspace">>), Needs("assignWorkspace", q.key, <<"AssignPage">>)}
AdminPortals(q, id) ==
  {Does("createPortal", "CreatePortal"), Needs("renamePortal", ToID(id), <<"RenamePortal">>),
   Needs("setPortalPassword", ToID(id), <<"SetPortalPassword">>), Needs("revealPortalPassword", ToID(id), <<"RevealPortalPassword">>),
   Needs("deletePortal", ToID(id), <<"RemovePortal">>)}
AdminPortalPages(q, id) ==
  {Needs("addPortalPage", ToID(id), <<"AddPortalPage">>), Needs("updatePortalPage", ToID(id), <<"UpdatePortalPage">>),
   Needs("removePortalPage", ToID(id), <<"RemovePortalPage">>), Needs("setPortalHome", ToID(id) /\ q.key, <<"SetPortalHome">>)}
AdminReview(q, id) ==
  {Needs("approve", ToID(id), <<"Approve">>), Needs("reject", ToID(id), <<"Reject">>), Needs("publish", ToID(q.id), <<"Publish">>),
   Needs("rollback", q.id \in {"absent", "null"} \/ ToID(q.id), <<"Rollback">>)}
AdminServing(q, id) ==
  {Does("setApproval", "SetApproval"), Does("disable", "SetDisabled"), Does("enable", "SetDisabled"), Does("setTheme", "SetTheme"),
   Does("setPassword", "SetPassword"), Does("revealPassword", "RevealPassword")}
AdminPages(q, id) ==
  {Does("createPage", "CreatePage"), Does("setTitle", "SetTitle"), Does("setRefreshSchedule", "SetRefreshSchedule"),
   Does("deletePage", "DeletePage"), Does("restorePage", "RestorePage")}
\* A deck opens in its own editor; any version can be previewed.
AdminLinks(q, id) ==
  {Needs("editToken", q.report = "deck", <<"GetPage", "GetLatestRenderable", "MintRawToken">>),
   Needs("previewToken", ToID(q.id), <<"GetVersion", "GetPage", "MintRawToken">>)}
\* report: what ValidateHTML finds; key: allow_preflight_errors is true.
AdminTemplates(q, id) ==
  {Does("validateTemplate", "ValidateHTML"),
   Needs("registerTemplate", q.report = "valid" \/ (q.report = "preflight" /\ q.key), <<"ValidateHTML", "RegisterTemplate">>),
   Does("deleteTemplate", "RemoveTemplate"),
   Needs("templatePreviewToken", q.id = "absent" \/ ToID(q.id), <<"GetRevisionHTML", "MintRawToken">>)}
\* The source editor saves a draft: publish is always false.
AdminDeploy(q, id) == {Needs("deploySource", q.html, <<"DeployDraft">>)}

AdminHandlers(q, id) ==
  AdminPageReads(q, id) \cup AdminListReads(q, id) \cup AdminWorkspaces(q, id) \cup AdminPortals(q, id) \cup AdminPortalPages(q, id) \cup
  AdminReview(q, id) \cup AdminServing(q, id) \cup AdminPages(q, id) \cup AdminLinks(q, id) \cup AdminTemplates(q, id) \cup AdminDeploy(q, id)

---------------------------------------------------------------------------
(* The handlers of the REST API.                                           *)

RestReads(q, id) ==
  {Does("listPages", "ListPages"), Does("listVersions", "ListVersions"), Does("getPage", "GetPage"),
   Needs("getVersion", ToID(id), <<"GetVersion">>),
   IF q.id = "absent" THEN Needs("preflight", q.key, <<"GetPage", "GetVersion">>) ELSE Needs("preflight", ToID(q.id), <<"GetVersion">>)}
RestWrites(q, id) ==
  {Does("createPage", "CreatePage"), Does("setPassword", "SetPassword"), Does("setTitle", "SetTitle"),
   Does("deletePage", "DeletePage"), Does("deploy", "Deploy"), Needs("publish", ToID(q.id), <<"Publish">>),
   Needs("rollback", q.id \in {"absent", "null"} \/ ToID(q.id), <<"Rollback">>)}
RestHandlers(q, id) == RestReads(q, id) \cup RestWrites(q, id)

---------------------------------------------------------------------------
(* The gates and the dispatch.                                             *)

Broad == {"deploy", "admin"}
Scopes == Broad \cup {"data_update"}

\* The dashboard's body limit, only with a credential (bodyLimits).
MayBeLarge(q) == q.bearer \in Scopes \/ q.cookie = "admin"

\* The id of an address is its :id or :name segment.
IdOf(segments) == IF \E i \in DOMAIN segments : segments[i] = "x" THEN "bad" ELSE "id"

Run(handlers, op) ==
  LET handler == CHOOSE h \in handlers : h.op = op
  IN IF handler.ok THEN Answer("ok", handler.calls) ELSE Refuse("400")

\* Each gate's refusal, or "ok".
RequireBearer(q) == IF q.bearer \in Scopes THEN "ok" ELSE "401"
RequireRestAccess(q) == IF q.bearer \in Broad THEN "ok" ELSE "403"
RequireAdminJSON(q) == CASE q.cookie = "none" -> "401" [] q.cookie = "user" -> "403" [] q.cookie = "admin" -> "ok"
RequireCsrf(q) == IF q.origin /\ q.csrf THEN "ok" ELSE "403"

Rest(q) ==
  LET found == Resolve(RestRoutes, q.method, q.path)
  IN IF RequireBearer(q) # "ok" THEN Refuse(RequireBearer(q))
     ELSE IF RequireRestAccess(q) # "ok" THEN Refuse(RequireRestAccess(q))
     ELSE IF found.op # "none" THEN Run(RestHandlers(q, IdOf(q.path)), found.op)
     ELSE IF q.method = "OPTIONS" /\ Allowed(RestRoutes, q.path) # {} THEN Refuse("options")
     ELSE Refuse("404")

\* The reads answer before the CSRF gate; what no admin route answers goes on
\* to the REST API.
Admin(q) ==
  LET path == IF q.path = <<>> THEN <<>> ELSE Tail(q.path)
      read == Resolve(AdminReads, q.method, path)
      write == Resolve(AdminMutations, q.method, path)
      handle(op) == Run(AdminHandlers(q, IdOf(path)), op)
  IN IF RequireAdminJSON(q) # "ok" THEN Refuse(RequireAdminJSON(q))
     ELSE IF read.op # "none" THEN handle(read.op)
     ELSE IF RequireCsrf(q) # "ok" THEN Refuse(RequireCsrf(q))
     ELSE IF write.op # "none" THEN handle(write.op)
     ELSE IF q.method = "OPTIONS" /\ (Allowed(AdminReads, path) \cup Allowed(AdminMutations, path)) # {} THEN Refuse("options")
     ELSE Rest(q)

Api(q) ==
  IF q.large /\ ~MayBeLarge(q) THEN Refuse("413")
  ELSE IF ~q.parses THEN Refuse("400")
  ELSE IF IsPrefix(<<"admin">>, q.path) THEN Admin(q)
  ELSE Rest(q)

---------------------------------------------------------------------------
(* Reference.                                                              *)

\* Domain functions that change what is served, stored or audited ...
WritesOfAll == {"CreateWorkspace", "RenameWorkspace", "AssignPage", "Publish", "Rollback", "SetPassword", "CreatePage", "SetTitle",
                "SetRefreshSchedule", "DeletePage", "Deploy", "DeployDraft", "RegisterTemplate", "RemoveTemplate"}
\* ... and those that are for human admins only.
WritesOfHumans == {"Approve", "Reject", "SetApproval", "SetDisabled", "SetTheme", "RestorePage", "RevealPassword", "RemoveWorkspace",
                   "CreatePortal", "RenamePortal", "SetPortalPassword", "RevealPortalPassword", "RemovePortal",
                   "AddPortalPage", "UpdatePortalPage", "RemovePortalPage", "SetPortalHome"}
Writes == WritesOfAll \cup WritesOfHumans
Links == {"MintRawToken"}

Ran(a) == {a.calls[i] : i \in DOMAIN a.calls}

\* A human's request changes something, or hands out a link, only with the
\* admin session, its own origin and its CSRF token; a bearer token changes
\* nothing that is for humans, and the cookie alone nothing outside the admin
\* API.  A refused request ran nothing.  A request is one write, so never half
\* of one; and only an explicit publish, rollback, approval or REST deploy can
\* move what a page serves: saving source never does.
RequestFaithful(q) ==
  LET a == Api(q)
      human == q.cookie = "admin" /\ q.origin /\ q.csrf /\ IsPrefix(<<"admin">>, q.path)
  IN /\ Ran(a) \cap (WritesOfHumans \cup Links) # {} => human
     /\ Ran(a) \cap WritesOfAll # {} => human \/ q.bearer \in Broad
     /\ a.status # "ok" => a.calls = <<>>
     /\ q.method \in {"GET", "HEAD", "OPTIONS"} => Ran(a) \cap (Writes \cup Links) = {}
     /\ \A i, j \in DOMAIN a.calls : {a.calls[i], a.calls[j]} \subseteq Writes => i = j
     /\ "Deploy" \in Ran(a) => ~human
=============================================================================
