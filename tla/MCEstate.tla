------------------------------ MODULE MCEstate ------------------------------
(***************************************************************************)
(* Inputs for Estate: documents and releases; pages whose slugs come close *)
(* to the routes' own words, requests to every route with every credential *)
(* and answer of a gate, MCP messages and calls of every tool; and what is *)
(* asked of a page's schedule.                                             *)
(***************************************************************************)
EXTENDS Estate, TLC

\* No step tells one connection, or one migration runner, from another.
AnyOrder == Permutations(Conns)

Dashboard == INSTANCE Requests
Endpoint == INSTANCE ToolCalls

\* An upload of the first document.  Three releases of an installation: the
\* next one, and two that part after it.
Release(files, compatible) == [files |-> files, compatible |-> compatible, baseline |-> 1]
OneStaged == <<1>>
ThreeReleases == {Release({1, 2}, {2}), Release({1, 2, 3}, {2, 3}), Release({1, 3, 4}, {3})}

---------------------------------------------------------------------------
(* What reaches the surfaces.                                              *)

\* Slugs of one and two segments, with every reserved one, and some of three.
Words == {"acme", "7", "reveal-password", "refresh-schedule"}
Pages == [1..1 -> Words \cup Dashboard!ReservedSlugSegments] \cup [1..2 -> Words \cup {"versions", "publish", "raw"}]
         \cup [1..3 -> {"acme", "7", "versions", "publish"}]
MCAddresses == [slug : Pages, id : {"7", "acme", "publish"}]

RoutePaths(table, prefix) == {prefix \o Dashboard!Fill(table[i].path, <<"acme">>, id) : i \in DOMAIN table, id \in {"7", "x"}}
Paths == RoutePaths(Dashboard!AdminReads, <<"admin">>) \cup RoutePaths(Dashboard!AdminMutations, <<"admin">>) \cup RoutePaths(Dashboard!RestRoutes, <<>>)
         \cup {<<>>, <<"nothing">>, <<"admin">>, <<"admin", "pages", "acme", "theme", "">>}
Request == [path |-> <<"pages">>, method |-> "POST", cookie |-> "admin", origin |-> TRUE, csrf |-> TRUE, bearer |-> "none",
            large |-> FALSE, parses |-> TRUE, id |-> "id", key |-> TRUE, html |-> TRUE, report |-> "valid"]
Callers == {[Request EXCEPT !.path = p, !.method = m, !.cookie = c, !.origin = g[1], !.csrf = g[2], !.bearer = b] :
              p \in Paths, m \in {"GET", "POST", "DELETE", "OPTIONS"}, c \in {"none", "user", "admin"},
              g \in {<<TRUE, TRUE>>, <<FALSE, TRUE>>, <<TRUE, FALSE>>}, b \in {"none", "deploy", "data_update"}}
Bodies == {[Request EXCEPT !.path = p, !.method = m, !.id = i, !.key = k, !.html = k, !.report = r] :
             p \in Paths, m \in {"GET", "POST"}, i \in {"absent", "null", "bad", "id"}, k \in BOOLEAN, r \in {"valid", "bad", "preflight", "deck"}}
Sizes == {[Request EXCEPT !.path = p, !.cookie = c, !.bearer = b, !.large = l, !.parses = s] :
            p \in {<<"pages">>, <<"admin", "pages">>}, c \in {"none", "user", "admin"}, b \in {"none", "unknown", "data_update", "deploy"},
            l \in BOOLEAN, s \in BOOLEAN}
MCRequests == Callers \cup Bodies \cup Sizes

Call == [host |-> TRUE, origin |-> "none", http |-> "POST", endpoint |-> TRUE, limited |-> FALSE, scope |-> "deploy", media |-> TRUE,
         body |-> "message", id |-> "7", method |-> "tools/call", wellformed |-> TRUE, cursor |-> FALSE, tool |-> "publish_page",
         args |-> {"slug", "version_id"}, task |-> FALSE, version |-> "known", granted |-> TRUE, works |-> 4, fits |-> TRUE]
Arrivals == {[Call EXCEPT !.host = h, !.origin = o, !.http = m, !.endpoint = e, !.limited = l, !.scope = s, !.media = d, !.body = b] :
               h \in BOOLEAN, o \in {"none", "own", "foreign"}, m \in {"POST", "GET", "OPTIONS"}, e \in BOOLEAN, l \in BOOLEAN,
               s \in {"none", "deploy", "data_update"}, d \in BOOLEAN, b \in {"message", "unreadable", "large"}}
Messages == {[Call EXCEPT !.body = b, !.id = i, !.method = m, !.wellformed = w, !.cursor = c, !.task = k, !.version = v, !.tool = t] :
               b \in {"message", "batch"}, i \in {"7", "none", "bad"},
               m \in {"initialize", "tools/list", "tools/call", "notifications/x", "other", "none"},
               w \in BOOLEAN, c \in BOOLEAN, k \in BOOLEAN, v \in {"known", "unknown"}, t \in {"publish_page", "approve_version"}}
Calls == {[Call EXCEPT !.scope = s, !.tool = t, !.args = a, !.granted = g, !.works = n, !.fits = f] :
            s \in {"admin", "data_update"}, t \in Endpoint!Tools,
            a \in {{}} \cup {Endpoint!Entry(u).args \cup x : u \in {"publish_page", "update_page_data", "list_pages"},
                                                       x \in {{}, {"upload_id", "summary"}, {"instructions", "template", "config", "html"}}},
            g \in BOOLEAN, n \in 0..4, f \in BOOLEAN}
         \cup {[Call EXCEPT !.tool = t, !.args = Endpoint!Entry(t).args, !.works = n] : t \in Endpoint!Tools, n \in 0..4}
MCCalls == Arrivals \cup Messages \cup Calls

---------------------------------------------------------------------------
(* What is asked of a schedule.                                            *)

\* Schedules with every kind of item, and instants around a leap day and years
\* away from one.
Item(kind, lo, hi, step) == [kind |-> kind, lo |-> lo, hi |-> hi, step |-> step]
Star == <<Item("star", 0, 0, 0)>>
Num(n) == <<Item("number", n, n, 0)>>
MCSchedules ==
  {[fields |-> <<minute, hour, dom, month, dow>>, time |-> 6 * 59 + t] :
     minute \in {Star, Num(1), Num(0) \o Num(2), Num(9)}, hour \in {Star, Num(1)},
     dom \in {Star, Num(1), Num(29), Num(30), <<Item("range", 13, 29, 7)>>}, month \in {Star, Num(2), <<Item("star", 0, 0, 5)>>},
     dow \in {Star, Num(7), <<Item("range", 1, 5, 0)>>, <<Item("star", 0, 0, 2)>>, <<Item("number", 3, 3, 2)>>},
     t \in {0, 5, 350, 8 * 365}}
=============================================================================
