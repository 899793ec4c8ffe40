------------------------------ MODULE ToolCalls ------------------------------
(***************************************************************************)
(* What a request to the MCP endpoint runs: the boundary, the envelope     *)
(* checks and the server of internal/mcpproto, the tool catalog and the    *)
(* handlers of internal/mcp.  An answer is its kind, the id it carries and *)
(* the domain functions that ran, in order.                                *)
(*                                                                         *)
(* A request: [host, origin, http, endpoint, limited, scope, media, body,  *)
(* id, method, wellformed, cursor, tool, args, task, version,     *)
(* granted, works, fits], by what the code tells apart.                    *)
(***************************************************************************)
EXTENDS Integers, Sequences, SequencesExt

---------------------------------------------------------------------------
(* The catalog: what a tool says of itself, and what it must be given.     *)

Reads(tool, args) == [tool |-> tool, readOnly |-> TRUE, args |-> args]
Changes(tool, args) == [tool |-> tool, readOnly |-> FALSE, args |-> args]

CatalogPages ==
  {Reads("list_pages", {}), Reads("get_page", {"slug"}), Reads("get_page_data", {"slug"}), Reads("get_page_refresh", {"slug"})}
CatalogRefresh ==
  {Changes("record_refresh_check", {"slug", "outcome"}), Changes("set_page_refresh_schedule", {"slug"}),
   Reads("list_refresh_health", {}), Reads("prepare_dashboard_update", {"slug", "instructions"})}
CatalogVersions ==
  {Reads("find_in_version", {"slug", "query"}), Changes("patch_page", {"slug", "edits"}), Reads("preflight_page", {"slug"}),
   Reads("get_version", {"slug"}), Reads("list_versions", {"slug"})}
CatalogWorkspaces ==
  {Reads("list_workspaces", {}), Changes("create_workspace", {"name"}), Changes("rename_workspace", {"workspace_id", "name"}),
   Changes("set_page_workspace", {"slug", "workspace_id"}), Reads("list_themes", {}), Reads("get_guide", {})}
CatalogUploads ==
  {Changes("create_upload_ticket", {"total_bytes", "content_sha256"}),
   Changes("start_page_upload", {"total_bytes", "content_sha256"}),
   Changes("append_page_upload", {"upload_id", "sequence", "chunk_base64"}), Changes("cancel_page_upload", {"upload_id"})}
CatalogTemplates ==
  {Reads("list_templates", {}), Reads("get_template", {"template"}), Reads("list_template_revisions", {"template"}),
   Changes("create_template_from_page", {"slug", "template", "empty_data"}), Reads("validate_template", {}),
   Changes("delete_template", {"template"}), Reads("template_urls", {"template"})}
CatalogBuilds ==
  {Reads("list_template_pages", {"template"}), Changes("rerender_page_from_template", {"slug"}),
   Changes("register_template_upload", {"upload_id"}), Changes("deploy_page_upload", {"upload_id"}),
   Changes("update_page_data_upload", {"upload_id", "slug", "source_as_of", "expected_version"})}
CatalogWrites ==
  {Changes("create_page_from_template", {"template", "slug", "config"}), Reads("get_page_config", {"slug"}),
   Changes("update_page_config", {"slug", "config", "expected_version"}), Changes("deploy_page", {"slug", "html"}),
   Changes("update_page", {"slug", "html"}), Changes("update_page_data", {"slug", "data", "source_as_of", "expected_version"})}
CatalogServing ==
  {Reads("configure_page_refresh", {"slug"}), Changes("publish_page", {"slug", "version_id"}), Changes("rollback_page", {"slug"}),
   Changes("set_password", {"slug", "password"}), Changes("set_title", {"slug", "title"}), Changes("delete_page", {"slug"}),
   Reads("page_urls", {"slug"})}

Catalog == CatalogPages \cup CatalogRefresh \cup CatalogVersions \cup CatalogWorkspaces \cup CatalogUploads \cup CatalogTemplates \cup
           CatalogBuilds \cup CatalogWrites \cup CatalogServing

Tools == {t.tool : t \in Catalog}
Entry(tool) == CHOOSE t \in Catalog : t.tool = tool

---------------------------------------------------------------------------
(* The handlers: the domain functions each calls on given arguments, in    *)
(* order; an error of one ends the handler.                                *)

Calls(tool, calls) == [tool |-> tool, calls |-> calls]

RunsPages(args) ==
  {Calls("list_pages", <<"ListPages">>), Calls("list_versions", <<"ListVersions">>), Calls("get_page", <<"GetPage">>),
   Calls("get_page_refresh", <<"GetPage">>), Calls("record_refresh_check", <<"RecordRefreshCheck">>),
   Calls("set_page_refresh_schedule", <<"SetRefreshSchedule">>), Calls("list_refresh_health", <<"ListRefreshHealth">>)}
PublishedOrGiven(args) == IF "version_id" \in args THEN <<>> ELSE <<"GetPage">>
RunsVersions(args) ==
  {Calls("get_version", IF "version_id" \in args THEN <<"GetVersion">> ELSE <<"GetPage">>), Calls("list_themes", <<"ListThemes">>),
   Calls("page_urls", <<"GetPage">>), Calls("get_guide", <<"Guide">>),
   Calls("find_in_version", PublishedOrGiven(args) \o <<"GetVersion">>),
   Calls("preflight_page", PublishedOrGiven(args) \o <<"GetVersion">>)}
RunsDeploys(args) ==
  {Calls("deploy_page", <<"CreateAndDeploy", "GetPage">>), Calls("update_page", <<"Deploy", "GetPage">>)}
RunsPublish(args) ==
  {Calls("publish_page", <<"Publish", "GetPage">>), Calls("rollback_page", <<"Rollback", "GetPage">>)}
RunsPatch(args) == {Calls("patch_page", <<"GetPage", "GetVersion", "Deploy", "GetPage">>)}
RunsSettings(args) ==
  {Calls("set_password", <<"SetPassword", "GetPage">>), Calls("set_title", <<"SetTitle">>), Calls("delete_page", <<"DeletePage">>)}
RunsData(args) ==
  {Calls("get_page_data", <<"GetPageData">> \o (IF "summary" \in args THEN <<"RefreshHealthFor">> ELSE <<>>))}
RunsDataWrites(args) ==
  {Calls("update_page_data", <<"UpdatePageData", "GetPage">>), Calls("get_page_config", <<"GetPageConfig", "PageTemplateBinding">>),
   Calls("update_page_config", <<"UpdatePageConfig", "GetPage">>)}
RunsWorkspaces(args) ==
  {Calls("list_workspaces", <<"ListWorkspaces">>), Calls("create_workspace", <<"CreateWorkspace">>),
   Calls("rename_workspace", <<"RenameWorkspace", "ListWorkspaces">>), Calls("set_page_workspace", <<"AssignPage">>)}
RunsPrompts(args) ==
  {Calls("prepare_dashboard_update", <<"Prepare">>),
   Calls("configure_page_refresh", IF args \cap {"instructions", "workflow"} = {} THEN <<>> ELSE <<"Prepare">>)}
RunsTemplates(args) ==
  {Calls("list_templates", <<"ListTemplates">>), Calls("get_template", <<"GetTemplate">>),
   Calls("list_template_revisions", <<"Revisions">>), Calls("list_template_pages", <<"ListTemplatePages">>),
   Calls("create_template_from_page", <<"CreateFromPage">>)}
RunsValidation(args) ==
  {Calls("validate_template", IF "upload_id" \in args <=> "html" \in args THEN <<>>
                              ELSE (IF "upload_id" \in args THEN <<"Peek">> ELSE <<>>) \o <<"ValidateHTML">>),
   Calls("delete_template", <<"RemoveTemplate">>), Calls("template_urls", <<"GetRevisionHTML", "MintRawToken">>)}
RunsBuilds(args) ==
  {Calls("rerender_page_from_template", <<"RerenderPage", "GetPage">>),
   Calls("create_page_from_template", IF "data" \in args /\ "source_as_of" \notin args THEN <<>> ELSE <<"CreatePageFromTemplate", "GetPage">>)}
RunsUploads(args) ==
  {Calls("start_page_upload", <<"StartUpload">>), Calls("create_upload_ticket", <<"CreateTicket">>),
   Calls("append_page_upload", <<"AppendUpload">>), Calls("cancel_page_upload", <<"CancelUpload">>)}
RunsConsumers(args) ==
  {Calls("deploy_page_upload", <<"DeployUpload">>), Calls("register_template_upload", <<"RegisterUpload">>),
   Calls("update_page_data_upload", <<"UpdateDataUpload">>)}

Runs(args) ==
  RunsPages(args) \cup RunsVersions(args) \cup RunsDeploys(args) \cup RunsPublish(args) \cup RunsPatch(args) \cup RunsSettings(args) \cup
  RunsData(args) \cup RunsDataWrites(args) \cup RunsWorkspaces(args) \cup RunsPrompts(args) \cup RunsTemplates(args) \cup
  RunsValidation(args) \cup RunsBuilds(args) \cup RunsUploads(args) \cup RunsConsumers(args)
RunsOf(tool, args) == (CHOOSE r \in Runs(args) : r.tool = tool).calls

---------------------------------------------------------------------------
(* The server: the token's tools, and one request to them.                 *)

Broad == {"deploy", "admin"}
DataUpdateTools == {"get_page_data", "update_page_data", "record_refresh_check"}

IsMcpToolAllowed(scope, tool) == scope \in Broad \/ (scope = "data_update" /\ tool \in DataUpdateTools)
VisibleTools(scope) == {tool \in Tools : IsMcpToolAllowed(scope, tool)}
AuthorizeMcpTool(q) == IsMcpToolAllowed(q.scope, q.tool) /\ (q.scope = "data_update" => q.granted)

Answer(kind, id, calls) == [kind |-> kind, id |-> id, calls |-> calls]
Refuse(kind) == Answer(kind, "none", <<>>)

\* q.works: how many of the handler's domain calls succeed; q.fits: the result
\* matches the tool's output schema, which is only asked after the handler.
CallTool(q) ==
  LET runs == RunsOf(q.tool, q.args)
      parses == Entry(q.tool).args \subseteq q.args
  IN IF q.tool \notin VisibleTools(q.scope) \/ ~parses \/ ~AuthorizeMcpTool(q) \/ runs = <<>> THEN Answer("tool_error", q.id, <<>>)
     ELSE IF q.works < Len(runs) THEN Answer("tool_error", q.id, SubSeq(runs, 1, q.works))
     ELSE Answer(IF q.fits THEN "result" ELSE "tool_error", q.id, runs)

Methods == {"initialize", "ping", "tools/list", "tools/call"}

\* validArgs and task are of the params; no token sees an empty list of tools.
HandleRequest(q) ==
  IF q.method \notin Methods \/ q.task THEN Answer("rpc_error", q.id, <<>>)
  ELSE IF q.method = "tools/call" THEN CallTool(q)
  ELSE Answer("result", q.id, <<>>)

---------------------------------------------------------------------------
(* The endpoint.                                                           *)

\* An id that is neither a string nor an integer makes no message of the body.
IsMessage(q) == q.body = "message" /\ q.id # "bad"
HasId(q) == q.id # "none"
IsRequest(q) == HasId(q) /\ q.method # "none"
IsInitialize(q) == HasId(q) /\ q.method = "initialize" /\ q.wellformed

\* Fault: a message without an id is run like a request.
AnswerPost_RunsNotifications(q) ==
  IF ~IsMessage(q) THEN Refuse("invalid")
  ELSE IF HasId(q) /\ q.method = "tools/call" /\ (~q.wellformed \/ q.tool \notin Tools) THEN Answer("rpc_error", q.id, <<>>)
  ELSE IF ~IsInitialize(q) /\ q.version = "unknown" THEN Refuse("invalid")
  ELSE IF q.method = "none" THEN Refuse("accepted")
  ELSE HandleRequest(q)

\* AnswerPost, in its order.
AnswerPost(q) ==
  IF ~IsMessage(q) THEN Refuse("invalid")
  ELSE IF HasId(q) /\ (\/ q.method = "notifications/x"
                       \/ q.method \in Methods /\ ~q.wellformed
                       \/ q.method = "tools/list" /\ q.cursor
                       \/ q.method = "tools/call" /\ q.tool \notin Tools) THEN Answer("rpc_error", q.id, <<>>)
  ELSE IF ~IsInitialize(q) /\ q.version = "unknown" THEN Refuse("invalid")
  ELSE IF ~IsRequest(q) THEN Refuse("accepted")
  ELSE HandleRequest(q)

\* NewHandler and serveLimited.
Serve(q) ==
  IF ~q.host \/ q.origin = "foreign" THEN Refuse("403")
  ELSE IF q.http = "OPTIONS" /\ q.endpoint THEN Refuse("204")
  ELSE IF q.limited THEN Refuse("429")
  ELSE IF q.scope = "none" THEN Refuse("401")
  ELSE IF q.http = "POST" /\ ~q.media THEN Refuse("415")
  ELSE IF q.body \in {"unreadable", "large"} THEN Refuse("400")
  ELSE IF ~q.endpoint THEN Refuse("404")
  ELSE IF q.http # "POST" THEN Refuse("405")
  ELSE AnswerPost(q)

---------------------------------------------------------------------------
(* Reference.                                                              *)

WritesOfTools == {"RecordRefreshCheck", "SetRefreshSchedule", "CreateAndDeploy", "Deploy", "Publish", "Rollback", "SetPassword", "SetTitle",
                  "DeletePage", "UpdatePageData", "UpdatePageConfig", "CreateWorkspace", "RenameWorkspace", "AssignPage", "CreateFromPage",
                  "RemoveTemplate", "RerenderPage", "CreatePageFromTemplate", "StartUpload", "CreateTicket", "AppendUpload", "CancelUpload",
                  "DeployUpload", "RegisterUpload", "UpdateDataUpload"}
RanOf(a) == {a.calls[i] : i \in DOMAIN a.calls}

\* A tool that says it only reads never writes, and one that may write makes
\* one writing call, so a failure after it never leaves half of two; a message
\* that is not a request, or that is refused, runs nothing and its answer names
\* no other request; and a scoped token does only what it was granted.
CallFaithful(q) ==
  LET a == Serve(q)
      writes == {i \in DOMAIN a.calls : a.calls[i] \in WritesOfTools}
  IN /\ q.tool \in Tools /\ Entry(q.tool).readOnly => writes = {}
     /\ \A i, j \in writes : i = j
     /\ a.calls # <<>> => /\ IsRequest(q) /\ q.method = "tools/call" /\ q.wellformed /\ q.scope # "none" /\ q.host /\ q.origin # "foreign"
                          /\ a.kind \in {"result", "tool_error"}
     /\ a.kind = "result" /\ q.method = "tools/call" => a.calls # <<>>
     /\ a.id \in {"none", q.id} /\ (a.kind \in {"result", "tool_error", "rpc_error"} <=> a.id # "none")
     /\ q.scope = "data_update" /\ a.calls # <<>> =>
          q.granted /\ \A i \in writes : a.calls[i] \in {"UpdatePageData", "RecordRefreshCheck"}
     \* the catalog and the handlers name the same tools
     /\ Tools = {r.tool : r \in Runs(q.args)}
=============================================================================
