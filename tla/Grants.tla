------------------------------- MODULE Grants -------------------------------
(***************************************************************************)
(* The page grants of data_update tokens (internal/tokens) and the export  *)
(* links minted under them (internal/dataexport).  A grant names a slug    *)
(* and is bound to the page row that holds it, at the latest by the first  *)
(* request that finds one.  Every statement of a request is a step; the    *)
(* slug's page is deleted, created again and restored in between.  One     *)
(* slug; one grant per token.                                              *)
(***************************************************************************)
EXTENDS Integers

CONSTANTS Conns, Tokens,
          MaxPages     \* bound: rows of pages that hold the slug in turn

VARIABLES
  tokens,   \* api_tokens and api_token_page_grants
  pages,    \* rows of pages, by id
  links,    \* export links that have not expired
  request,  \* per connection
  effect    \* the last write or download: by which grant, of which page

grantVars == <<tokens, pages, links, request, effect>>

Unbound == 0
PageRows == 1..MaxPages
Links == [token : Tokens, page : PageRows]
Idle == [at |-> "idle", page |-> 0, moved |-> FALSE]

\* moved: the slug changed hands since the request's token was verified.
Requests == [at : {"idle", "bind", "run"}, token : Tokens, page : 0..MaxPages, moved : BOOLEAN]
            \cup {Idle}

GrantsTypeOK ==
  /\ tokens \in [Tokens -> [life : {"none", "live", "revoked"}, grant : 0..MaxPages]]
  /\ pages \in [PageRows -> {"none", "live", "deleted"}]
  /\ links \subseteq Links
  /\ request \in [Conns -> Requests]
  /\ effect \in [grant : 0..MaxPages, page : 0..MaxPages, moved : BOOLEAN]

LivePages == {p \in PageRows : pages[p] = "live"}
Go(c, r) == request' = [request EXCEPT ![c] = r]
End(c) == Go(c, Idle)

---------------------------------------------------------------------------
(* Operators mint and revoke tokens.                                       *)

Mint(t) ==
  /\ tokens[t].life = "none"
  /\ \/ \E p \in LivePages : tokens' = [tokens EXCEPT ![t] = [life |-> "live", grant |-> p]]
     \/ LivePages = {} /\ tokens' = [tokens EXCEPT ![t] = [life |-> "live", grant |-> Unbound]]
  /\ UNCHANGED <<pages, links, request, effect>>

Revoke(t) ==
  /\ tokens[t].life = "live"
  /\ tokens' = [tokens EXCEPT ![t].life = "revoked"]
  /\ UNCHANGED <<pages, links, request, effect>>

---------------------------------------------------------------------------
(* Verify: one SELECT of the token and what its grant allows now, then the *)
(* UPDATE that binds a grant that is still unbound.                        *)

Allowed(t) == tokens[t].grant = Unbound \/ LivePages = {} \/ tokens[t].grant \in LivePages
Bindable(t) == tokens[t].grant = Unbound /\ LivePages # {}

\* for: 0 for a tool call, else the page an export link names.
LoadActiveToken(c, t, for) ==
  /\ request[c] = Idle /\ tokens[t].life = "live"
  /\ Allowed(t)   \* otherwise 403, or the link's 401
  /\ Go(c, [at |-> IF Bindable(t) THEN "bind" ELSE "run", token |-> t, page |-> for, moved |-> FALSE])
  /\ UNCHANGED <<tokens, pages, links, effect>>

Bind_Again(c) ==
  /\ request[c].at = "bind"
  /\ \/ \E p \in LivePages : tokens' = [tokens EXCEPT ![request[c].token].grant = p]
     \/ LivePages = {} /\ UNCHANGED tokens
  /\ Go(c, [request[c] EXCEPT !.at = "run"])
  /\ UNCHANGED <<pages, links, effect>>

Bind(c) ==
  LET t == request[c].token
  IN /\ request[c].at = "bind"
     /\ \/ /\ tokens[t].grant = Unbound
           /\ \E p \in LivePages : tokens' = [tokens EXCEPT ![t].grant = p]
        \/ (tokens[t].grant # Unbound \/ LivePages = {}) /\ UNCHANGED tokens
     /\ Go(c, [request[c] EXCEPT !.at = "run"])
     /\ UNCHANGED <<pages, links, effect>>

Effect(c, p) == effect' = [grant |-> tokens[request[c].token].grant, page |-> p, moved |-> request[c].moved]

\* update_page_data and record_refresh_check: the page that holds the slug now.
WriteData(c) ==
  /\ request[c].at = "run" /\ request[c].page = 0
  /\ \/ \E p \in LivePages : Effect(c, p)
     \/ LivePages = {} /\ UNCHANGED effect     \* 404 page_not_found
  /\ End(c) /\ UNCHANGED <<tokens, pages, links>>

\* get_page_data with detail='export' names the page and version it read.
MintLink(c) ==
  /\ request[c].at = "run" /\ request[c].page = 0
  /\ \E p \in LivePages : links' = links \cup {[token |-> request[c].token, page |-> p]}
  /\ End(c) /\ UNCHANGED <<tokens, pages, effect>>

\* A download verifies the token by id first, then reads the page it names.
Download(c) ==
  /\ request[c].at = "run" /\ request[c].page # 0
  /\ IF request[c].page \in LivePages THEN Effect(c, request[c].page) ELSE UNCHANGED effect
  /\ End(c) /\ UNCHANGED <<tokens, pages, links>>

ExpireLink(l) ==
  /\ l \in links /\ links' = links \ {l}
  /\ UNCHANGED <<tokens, pages, request, effect>>

---------------------------------------------------------------------------
(* The slug changes hands.                                                 *)

Hand(p, life) ==
  /\ pages' = [pages EXCEPT ![p] = life]
  /\ request' = [c \in Conns |-> IF request[c] = Idle THEN Idle ELSE [request[c] EXCEPT !.moved = TRUE]]
  /\ UNCHANGED <<tokens, links, effect>>

CreatePage(p) == pages[p] = "none" /\ LivePages = {} /\ (\A q \in PageRows : q < p => pages[q] # "none") /\ Hand(p, "live")
DeletePage(p) == pages[p] = "live" /\ Hand(p, "deleted")
RestorePage(p) == pages[p] = "deleted" /\ LivePages = {} /\ Hand(p, "live")

---------------------------------------------------------------------------
GrantsInit ==
  /\ tokens = [t \in Tokens |-> [life |-> "none", grant |-> Unbound]]
  /\ pages = [p \in PageRows |-> "none"]
  /\ links = {}
  /\ request = [c \in Conns |-> Idle]
  /\ effect = [grant |-> 0, page |-> 0, moved |-> FALSE]

GrantsNext ==
  \/ \E t \in Tokens : Mint(t) \/ Revoke(t)
  \/ \E c \in Conns, t \in Tokens : LoadActiveToken(c, t, 0)
  \/ \E c \in Conns, l \in links : LoadActiveToken(c, l.token, l.page)
  \/ \E c \in Conns : Bind(c) \/ WriteData(c) \/ MintLink(c) \/ Download(c)
  \/ \E l \in links : ExpireLink(l)
  \/ \E p \in PageRows : CreatePage(p) \/ DeletePage(p) \/ RestorePage(p)

GrantsSpec == GrantsInit /\ [][GrantsNext]_grantVars

---------------------------------------------------------------------------
(* Properties.                                                             *)

\* "once bound, a grant NEVER re-binds" (migrations/011), whatever requests
\* raced to bind it while the slug changed hands; and what it writes or
\* downloads is the page it is bound to, unless the slug changed hands after
\* that request's token was verified.
GrantsHold ==
  [][/\ \A t \in Tokens : tokens[t].grant # Unbound => tokens'[t].grant = tokens[t].grant
     /\ effect'.page # 0 => effect'.grant = effect'.page \/ effect'.moved]_grantVars
=============================================================================
