------------------------------- MODULE Routes -------------------------------
(***************************************************************************)
(* Which route answers a path: internal/route, the route tables of the     *)
(* dashboard (internal/server, adminapi, api) and of the content host      *)
(* (internal/contentview), and the reserved slug segments that keep nested *)
(* slugs apart from the actions on them (internal/routens).  A path is the *)
(* sequence of its segments, "" at its end for a trailing slash.           *)
(***************************************************************************)
EXTENDS Integers, Sequences, SequencesExt

ReservedSlugSegments ==
  {"raw", "raw-template", "assets", "healthz", "readyz", "welcome",
   "versions", "publish", "rollback", "approve", "reject", "approval",
   "password", "title", "theme", "disable", "enable", "delete", "restore",
   "preview-token", "edit-token", "deploy-source", "preflight", "workspace",
   "templates", "portal", "portals"}

Reserved(slug) == \E i \in DOMAIN slug : slug[i] \in ReservedSlugSegments

---------------------------------------------------------------------------
(* The tables, in registration order.                                      *)

Route(method, path, op) == [method |-> method, path |-> path, op |-> op]
Get(path, op) == Route("GET", path, op)
Post(path, op) == Route("POST", path, op)
OnPage(action, op) == Post(<<"pages", "*slug", action>>, op)
OnVersion(action, op) == Post(<<"pages", "*slug", "versions", ":id", action>>, op)
OnPortal(action, op) == Post(<<"portals", ":id", action>>, op)

AdminReads == <<
  Get(<<"pages">>, "listPages"), Get(<<"refresh-health">>, "refreshHealth"), Get(<<"workspaces">>, "listWorkspaces"),
  Get(<<"portals">>, "listPortals"), Get(<<"portals", ":id">>, "getPortal"),
  Get(<<"pages", "*slug", "versions", ":id">>, "getVersion"), Get(<<"pages", "*slug">>, "getPage"),
  Get(<<"templates">>, "listTemplates"), Get(<<"templates", ":name">>, "getTemplate")>>

AdminMutations == <<
  Post(<<"workspaces">>, "createWorkspace"), Post(<<"workspaces", ":id", "rename">>, "renameWorkspace"),
  Post(<<"workspaces", ":id", "delete">>, "deleteWorkspace"),
  Post(<<"portals">>, "createPortal"), OnPortal("rename", "renamePortal"), OnPortal("password", "setPortalPassword"),
  OnPortal("reveal-password", "revealPortalPassword"), OnPortal("pages", "addPortalPage"),
  Post(<<"portals", ":id", "pages", "update">>, "updatePortalPage"), Post(<<"portals", ":id", "pages", "remove">>, "removePortalPage"),
  OnPortal("home", "setPortalHome"), OnPortal("delete", "deletePortal"),
  OnVersion("approve", "approve"), OnVersion("reject", "reject"), OnPage("publish", "publish"), OnPage("rollback", "rollback"),
  OnPage("approval", "setApproval"), OnPage("disable", "disable"), OnPage("enable", "enable"), OnPage("theme", "setTheme"),
  OnPage("password", "setPassword"), OnPage("reveal-password", "revealPassword"), Post(<<"pages">>, "createPage"),
  OnPage("workspace", "assignWorkspace"), OnPage("title", "setTitle"), OnPage("refresh-schedule", "setRefreshSchedule"),
  OnPage("delete", "deletePage"), OnPage("restore", "restorePage"), OnPage("edit-token", "editToken"),
  OnPage("preview-token", "previewToken"), Post(<<"templates", "validate">>, "validateTemplate"),
  Post(<<"templates">>, "registerTemplate"), Route("DELETE", <<"templates", ":name">>, "deleteTemplate"),
  Post(<<"templates", ":name", "preview-token">>, "templatePreviewToken"), OnPage("deploy-source", "deploySource")>>

RestRoutes == <<
  Get(<<"pages">>, "listPages"), Post(<<"pages">>, "createPage"), OnPage("password", "setPassword"), OnPage("title", "setTitle"),
  Route("DELETE", <<"pages", "*slug">>, "deletePage"), OnPage("versions", "deploy"),
  Get(<<"pages", "*slug", "versions">>, "listVersions"), Get(<<"pages", "*slug", "preflight">>, "preflight"),
  Get(<<"pages", "*slug", "versions", ":id">>, "getVersion"), OnPage("publish", "publish"), OnPage("rollback", "rollback"),
  Get(<<"pages", "*slug">>, "getPage")>>

ShellRoutes == <<
  Get(<<"healthz">>, "healthz"), Get(<<"readyz">>, "readyz"), Get(<<"api", "me">>, "me"), Get(<<"view", "*slug">>, "view"),
  Get(<<"admin">>, "welcome"), Get(<<"admin", "welcome">>, "welcome"), Get(<<"admin", "templates">>, "templates"),
  Get(<<"admin", "portals">>, "portals"), Get(<<"admin", "*slug">>, "admin")>>

ContentRoutes == <<
  Get(<<"healthz">>, "healthz"), Get(<<"readyz">>, "readyz"), Get(<<"assets", "*slug">>, "assets"), Get(<<"raw", "*slug">>, "raw"),
  Post(<<"raw", "*slug", "versions">>, "saveDeck"), Route("OPTIONS", <<"raw", "*slug", "versions">>, "saveDeckPreflight"),
  Get(<<"raw-template", ":id">>, "rawTemplate"), Get(<<"portal", ":id">>, "servePortal"), Get(<<"*slug">>, "serve"),
  Post(<<"portal", ":id", "lock">>, "lockPortal"), Post(<<"portal", ":id">>, "unlockPortal"), Post(<<"*slug">>, "unlock")>>

---------------------------------------------------------------------------
(* Pattern, Match, Handles and the callers' loops.                         *)

Takes(token, segment) == token = segment \/ (token \in {":id", ":name"} /\ segment # "")
Splat(path) == SelectInSeq(path, LAMBDA token : token = "*slug")

\* One trailing slash is optional, but a splat at the end is greedy.
Trimmed(path, segments) ==
  IF segments # <<>> /\ Last(segments) = "" /\ Last(path) # "*slug" THEN Front(segments) ELSE segments

MatchAt(path, q, s) ==   \* s: where the splat stands, 0 without one
  LET more == Len(q) - Len(path)
  IN IF s = 0 THEN more = 0 /\ \A i \in DOMAIN path : Takes(path[i], q[i])
     ELSE more >= 0 /\ \A i \in DOMAIN path \ {s} : Takes(path[i], q[IF i < s THEN i ELSE i + more])
Match(path, segments) == MatchAt(path, Trimmed(path, segments), Splat(path))

Slug(path, segments) ==
  LET q == Trimmed(path, segments)
      s == Splat(path)
  IN IF s = 0 THEN <<>> ELSE SubSeq(q, s, s + Len(q) - Len(path))

Handles(r, method) == r.method = method \/ (method = "HEAD" /\ r.method = "GET")
Methods(r) == IF r.method = "GET" THEN {"GET", "HEAD"} ELSE {r.method}

\* The first route whose path and method match.
Resolve(routes, method, segments) ==
  LET i == SelectInSeq(routes, LAMBDA r : Handles(r, method) /\ Match(r.path, segments))
  IN IF i = 0 THEN [op |-> "none", slug |-> <<>>]
     ELSE [op |-> routes[i].op, slug |-> Slug(routes[i].path, segments)]

\* What an OPTIONS request that no route handles is answered with.
Allowed(routes, segments) == UNION {Methods(routes[i]) : i \in {j \in DOMAIN routes : Match(routes[j].path, segments)}}

---------------------------------------------------------------------------
(* Reference: every route of every page is reached by its own address.     *)

Fill(path, slug, id) ==
  LET s == Splat(path)
      more == IF s = 0 THEN 0 ELSE Len(slug) - 1
      filled(token) == IF token \in {":id", ":name"} THEN id ELSE token
  IN [k \in 1..Len(path) + more |->
        IF s = 0 \/ k < s THEN filled(path[k]) ELSE IF k <= s + more THEN slug[k - s + 1] ELSE filled(path[k - more])]

Tables == {AdminReads, AdminMutations, RestRoutes, ShellRoutes, ContentRoutes}

\* "Any segment is reserved so nested slugs cannot be interpreted as actions"
\* (routens.go:5): for a slug that may be created, each route with a slug in
\* its path, filled in with it, is answered by that route, with that slug.
\* HEAD goes where GET does, and the OPTIONS answer of the two APIs offers
\* the method.
Addressable(slug, id) ==
  ~Reserved(slug) =>
    \A routes \in Tables : \A i \in DOMAIN routes :
      LET r == routes[i]
          address == Fill(r.path, slug, id)
      IN Splat(r.path) # 0 /\ r.op # "assets" =>
           /\ \A method \in Methods(r) : Resolve(routes, method, address) = [op |-> r.op, slug |-> slug]
           /\ routes \notin {ShellRoutes, ContentRoutes} => r.method \in Allowed(routes, address)

=============================================================================
