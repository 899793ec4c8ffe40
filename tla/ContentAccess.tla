--------------------------- MODULE ContentAccess ---------------------------
(***************************************************************************)
(* Who reads a page on the content host (internal/contentview) and how    *)
(* staff decide it: page passwords (versions.SetPassword), partner        *)
(* portals (internal/portals), session cookies (internal/pagecookie), the *)
(* broker's tokens (internal/rawtoken), the staff-readable password       *)
(* copies (internal/passwordvault) and the pacing of password attempts    *)
(* (internal/passwordgate).                                               *)
(*                                                                         *)
(* One browser sends requests that interleave with each other and with    *)
(* the staff's transactions.  A request reads the page row and the        *)
(* portals in separate statements and acts on what it read.  A password   *)
(* digest is a salt: each hash is salted afresh, so the salt stands for   *)
(* the digest a cookie carries.  Delays are counted down, so time has no  *)
(* bound.  Cookies and tokens do not expire here: expiry only takes away  *)
(* what the browser holds.                                                *)
(***************************************************************************)
EXTENDS Integers, FiniteSets

CONSTANTS
  Pages, Portals,       \* their ids
  Secrets,              \* passwords
  Calls,                \* requests that may be in progress
  BaseDelay, MaxDelay,  \* passwordgate's backoff, in ticks
  MaxCount,             \* bound: where counters stop, past the curve's end
  Mixes                 \* bounds: see mix

ASSUME AccessAssumption ==
  /\ Pages \subseteq Nat \ {0} /\ Portals \subseteq Nat \ {0}
  /\ BaseDelay \in Nat \ {0} /\ MaxDelay \in Nat \ {0}
  /\ MaxCount \in Nat /\ BaseDelay * 2^(MaxCount - 1) >= MaxDelay
  /\ IsFiniteSet(Portals) /\ {"nobody", "timer"} \cap Calls = {}

VARIABLES
  mix,        \* the ops of this behaviour, how many requests at once, the rows it
              \* starts from, the salts it may draw, and MaxPortalsPerPage
  pages,      \* pages: state, published version, password hash and sealed copy
  portals,    \* page_portals and page_portal_members
  salts,      \* the last salt drawn
  tokens,     \* the URLs with a token that are about
  jar,        \* the browser's session cookies: digest per page and portal
  failures,   \* page_password_failures and portal_password_failures
  turns,      \* passwordgate.Turns: who holds each credential's turn
  calls,      \* requests in progress
  proven,     \* history: credentials the browser gave the password (or SSO) of
  owed,       \* history: what is left of the delay after the last failure
  charged     \* history: failures since the last success, per credential

staff   == <<mix, pages, portals, salts>>
history == <<proven, owed, charged>>
vars == <<staff, tokens, jar, failures, turns, calls, history>>

NoHash   == [salt |-> 0, secret |-> "none"]   \* staff-only: no password
NoCopy   == -1
NoCookie == -1

\* The rows a behaviour starts from are rows the code leaves behind.
Digests(last) == {NoHash} \cup [salt : 1..last, secret : Secrets]
Copies(last)  == {NoCopy} \cup 1..last
PageRows(last) ==
  [state : {"open", "disabled", "deleted"}, published : 0..2, hash : Digests(last), copy : Copies(last)]
PortalRows(last) ==
  [life : {"none", "live", "retired"}, hash : Digests(last), copy : Copies(last),
   home : Pages \cup {0}, members : SUBSET Pages]
InPortals(rows, p) == {q \in Portals : rows[q].life = "live" /\ p \in rows[q].members}

ASSUME MixesAssumption ==
  \A m \in Mixes :
    /\ m.fanout \in Nat /\ m.salts \in Nat
    /\ m.pages \in [Pages -> PageRows(3)] /\ m.portals \in [Portals -> PortalRows(3)]
    /\ \A p \in Pages : Cardinality(InPortals(m.portals, p)) <= m.fanout
    /\ \A q \in Portals : m.portals[q].home # 0 => m.portals[q].home \in m.portals[q].members

PageKey(p)   == <<"page", p>>
PortalKey(q) == <<"portal", q>>
Keys == {PageKey(p) : p \in Pages} \cup {PortalKey(q) : q \in Portals}

Free    == [by |-> "nobody", left |-> 0]
Held(c) == [by |-> c, left |-> 0]
Timer(d) == [by |-> "timer", left |-> d]      \* time.AfterFunc(left, release)

Idle == [op |-> "idle", pc |-> "idle"]
NoPortals == {}

Lesser(m, n) == IF m < n THEN m ELSE n
Greatest(S) == CHOOSE m \in S : \A n \in S : n <= m
Lowest(S)   == CHOOSE m \in S : \A n \in S : m <= n

At(c, pc) == calls[c].pc = pc
GoTo(c, pc) == calls' = [calls EXCEPT ![c].pc = pc]
Return(c) == calls' = [calls EXCEPT ![c] = Idle]

\* A row lock: AddPage alone holds rows over several statements.
Unlocked(k) == \A c \in Calls : calls[c].op = "add" => k \notin calls[c].locks

---------------------------------------------------------------------------
(* Reads.                                                                  *)

VerifyPassword(guess, hash) == hash # NoHash /\ hash.secret = guess

\* VerifySession, VerifyPortalSession: the cookie carries the current digest.
VerifySession(cookie, hash) == cookie = hash.salt

\* serve's and unlock's 404 conditions.
Servable(p) == pages[p].state = "open" /\ pages[p].published # 0

GetPublicPortal(q) == portals[q].life = "live"

GetPortalsForPage(p) ==
  {[id |-> q, hash |-> portals[q].hash] :
     q \in {x \in Portals : portals[x].life = "live" /\ p \in portals[x].members}}

GetPortalPages(q) == {p \in portals[q].members : Servable(p)}

\* AuthorizingPortal: the first of these portals.
Authorizing(cookies, ports) ==
  {r.id : r \in {x \in ports : VerifySession(cookies.portals[x.id], x.hash)}}

---------------------------------------------------------------------------
(* GET /<slug>.                                                            *)

Begins(c, op) == calls[c] = Idle /\ c \in mix.calls /\ op \in mix.ops

\* GetPublicPage, and the page session, which is decided on that row.  The
\* membership query is skipped when no portal cookie is in the jar.
Serve(c, p) ==
  /\ Begins(c, "get") /\ Servable(p)
  /\ LET session == VerifySession(jar.pages[p], pages[p].hash)
         holds   == \E q \in Portals : jar.portals[q] # NoCookie
     IN calls' = [calls EXCEPT ![c] =
          [op |-> "get", pc |-> IF session /\ ~holds THEN "render" ELSE "portals",
           page |-> p, hash |-> pages[p].hash, jar |-> jar, session |-> session]]
  /\ UNCHANGED <<staff, tokens, jar, failures, turns, history>>

\* portalsForPage: a failed lookup means no portals.
ServePortals(c) ==
  /\ At(c, "portals") /\ calls[c].op = "get"
  /\ \E ports \in {GetPortalsForPage(calls[c].page), NoPortals} :
       IF calls[c].session \/ Authorizing(calls[c].jar, ports) # {}
         THEN GoTo(c, "render") ELSE Return(c)
  /\ UNCHANGED <<staff, tokens, jar, failures, turns, history>>

\* renderLive.  A render sets no cookie.
Render(c) ==
  /\ At(c, "render")
  /\ Return(c)
  /\ UNCHANGED <<staff, tokens, jar, failures, turns, history>>

\* The broker (staff SSO) mints "session" tokens for the live version, the
\* admin "view" tokens for any; either URL may travel.
MintToken(purpose, p, v) ==
  /\ "exchange" \in mix.ops
  /\ pages[p].state # "deleted"
  /\ v # 0 /\ (purpose = "session" => v = pages[p].published)
  /\ tokens' = tokens \cup {[purpose |-> purpose, page |-> p, version |-> v]}
  /\ UNCHANGED <<staff, jar, failures, turns, calls, history>>

\* GET /<slug>?t=: only a session token of the live version buys a cookie.
ExchangeToken(p, t) ==
  /\ Servable(p)
  /\ t.purpose = "session" /\ t.page = p /\ t.version = pages[p].published
  /\ jar' = [jar EXCEPT !.pages[p] = pages[p].hash.salt]
  /\ proven' = proven \cup {<<PageKey(p), pages[p].hash.salt>>}
  /\ UNCHANGED <<staff, tokens, failures, turns, calls, owed, charged>>

---------------------------------------------------------------------------
(* POST /<slug> and POST /portal/<slug>: a password attempt.               *)

Attempt(c, op, p, hash, ports, guess, pc) ==
  calls' = [calls EXCEPT ![c] =
    [op |-> op, pc |-> pc, page |-> p, hash |-> hash, ports |-> ports, guess |-> guess, chosen |-> 0]]

\* unlock: the page row, then the portals that contain it.
Unlock(c, p, guess) ==
  /\ Begins(c, "unlock") /\ Servable(p)
  /\ Attempt(c, "unlock", p, pages[p].hash, NoPortals, guess, "portals")
  /\ UNCHANGED <<staff, tokens, jar, failures, turns, history>>

UnlockDoors(c) ==
  /\ At(c, "portals") /\ calls[c].op = "unlock"
  /\ \E ports \in {GetPortalsForPage(calls[c].page), NoPortals} :
       IF calls[c].hash # NoHash
         THEN calls' = [calls EXCEPT ![c].ports = ports, ![c].pc = "await page"]
         ELSE IF ports # {} THEN calls' = [calls EXCEPT ![c].ports = ports, ![c].pc = "await portals"]
         ELSE Return(c)
  /\ UNCHANGED <<staff, tokens, jar, failures, turns, history>>

UnlockPortal(c, q, guess) ==
  /\ Begins(c, "unlock portal") /\ GetPublicPortal(q)
  /\ Attempt(c, "unlock portal", 0, NoHash, {[id |-> q, hash |-> portals[q].hash]}, guess, "await portals")
  /\ UNCHANGED <<staff, tokens, jar, failures, turns, history>>

\* Turns.Acquire: every key at once, or none.
Take(c, ks, pc) ==
  /\ \A k \in ks : turns[k] = Free
  /\ turns' = [k \in Keys |-> IF k \in ks THEN Held(c) ELSE turns[k]]
  /\ GoTo(c, pc)
  /\ UNCHANGED <<staff, tokens, jar, failures, history>>

PortalKeys(c) == {PortalKey(r.id) : r \in calls[c].ports}

TakePageTurn(c)    == At(c, "await page") /\ Take(c, {PageKey(calls[c].page)}, "verify page")
TakePortalTurns(c) == At(c, "await portals") /\ Take(c, PortalKeys(c), "verify portals")

\* attemptBusy: the wait ended, or the client went away.
Busy(c) ==
  /\ calls[c].pc \in {"await page", "await portals"}
  /\ Return(c)
  /\ UNCHANGED <<staff, tokens, jar, failures, turns, history>>

Released(c, ks) == [k \in Keys |-> IF k \in ks /\ turns[k] = Held(c) THEN Free ELSE turns[k]]
HeldFor(c, ks, d) == [k \in Keys |-> IF k \in ks /\ turns[k] = Held(c) THEN Timer(d) ELSE turns[k]]

DelayForFailures(n) ==
  IF n <= 0 THEN 0 ELSE IF n > 5 THEN MaxDelay ELSE Lesser(MaxDelay, BaseDelay * 2^(n - 1))

\* One more failure on every credential of ks (RecordFailure); a quiet
\* window before it starts the count anew.
Counted(ks) == [k \in Keys |-> IF k \in ks THEN Lesser(failures[k] + 1, MaxCount) ELSE failures[k]]
Charge(ks) == charged' = [k \in Keys |-> IF k \in ks THEN Lesser(charged[k] + 1, MaxCount) ELSE charged[k]]
Owe(ks, d) == owed' = [k \in Keys |-> IF k \in ks THEN d ELSE owed[k]]

VerifyPage_EarlyRelease(c) ==
  /\ At(c, "verify page")
  /\ LET k == calls[c]
     IN IF VerifyPassword(k.guess, k.hash)
          THEN /\ GoTo(c, "clear page")
               /\ turns' = Released(c, {PageKey(k.page)})
               /\ proven' = proven \cup {<<PageKey(k.page), k.hash.salt>>}
               /\ charged' = [charged EXCEPT ![PageKey(k.page)] = 0]
          ELSE GoTo(c, "record page") /\ UNCHANGED <<proven, charged, turns>>
  /\ UNCHANGED <<staff, tokens, jar, failures, owed>>
VerifyPage(c) ==
  /\ At(c, "verify page")
  /\ LET k == calls[c]
     IN IF VerifyPassword(k.guess, k.hash)
          THEN /\ GoTo(c, "clear page")
               /\ proven' = proven \cup {<<PageKey(k.page), k.hash.salt>>}
               /\ charged' = [charged EXCEPT ![PageKey(k.page)] = 0]
          ELSE GoTo(c, "record page") /\ UNCHANGED <<proven, charged>>
  /\ UNCHANGED <<staff, tokens, jar, failures, turns, owed>>

\* ClearFailures is best effort; the turn goes back after it.
ClearPage(c) ==
  /\ At(c, "clear page")
  /\ failures' \in {failures, [failures EXCEPT ![PageKey(calls[c].page)] = 0]}
  /\ turns' = Released(c, {PageKey(calls[c].page)})
  /\ GoTo(c, "admit page")
  /\ UNCHANGED <<staff, tokens, jar, history>>

\* RecordFailure, detached from the client; its failure answers 500.
RecordPage_Disconnected(c) ==
  /\ At(c, "record page")
  /\ LET k  == PageKey(calls[c].page)
         d  == DelayForFailures(Counted({k})[k])
     IN /\ failures' = Counted({k})
        /\ turns' \in {HeldFor(c, {k}, d), Released(c, {k})}
        /\ Charge({k}) /\ Owe({k}, d)
        /\ IF calls[c].ports # {} THEN GoTo(c, "await portals") ELSE Return(c)
  /\ UNCHANGED <<staff, tokens, jar, proven>>
RecordPage(c) ==
  /\ At(c, "record page")
  /\ LET k  == PageKey(calls[c].page)
         d  == DelayForFailures(Counted({k})[k])
     IN \/ /\ failures' = Counted({k})
           /\ turns' = HeldFor(c, {k}, d)
           /\ Charge({k}) /\ Owe({k}, d)
           /\ IF calls[c].ports # {} THEN GoTo(c, "await portals") ELSE Return(c)
        \/ /\ turns' = Released(c, {k})
           /\ Return(c)
           /\ UNCHANGED <<failures, charged, owed>>
  /\ UNCHANGED <<staff, tokens, jar, proven>>

\* The same submission is tried against each portal, in id order.
VerifyPortals(c) ==
  /\ At(c, "verify portals")
  /\ LET opened == {r \in calls[c].ports : VerifyPassword(calls[c].guess, r.hash)}
     IN IF opened = {} THEN GoTo(c, "record portals") /\ UNCHANGED <<proven, charged>>
        ELSE LET r == CHOOSE x \in opened : x.id = Lowest({y.id : y \in opened})
             IN /\ calls' = [calls EXCEPT ![c].pc = "clear portal", ![c].chosen = r.id, ![c].hash = r.hash]
                /\ proven' = proven \cup {<<PortalKey(r.id), r.hash.salt>>}
                /\ charged' = [charged EXCEPT ![PortalKey(r.id)] = 0]
  /\ UNCHANGED <<staff, tokens, jar, failures, turns, owed>>

ClearPortal(c) ==
  /\ At(c, "clear portal")
  /\ failures' \in {failures, [failures EXCEPT ![PortalKey(calls[c].chosen)] = 0]}
  /\ turns' = Released(c, PortalKeys(c))
  /\ GoTo(c, "admit portal")
  /\ UNCHANGED <<staff, tokens, jar, history>>

\* Every portal tried is charged and the longest delay holds them all; an
\* error part of the way gives the turns back.
RecordPortals_Stuck(c) ==
  /\ At(c, "record portals")
  /\ LET ks == PortalKeys(c)
         d  == Greatest({DelayForFailures(Counted(ks)[k]) : k \in ks})
     IN \/ /\ failures' = Counted(ks)
           /\ turns' = HeldFor(c, ks, d)
           /\ Charge(ks) /\ Owe(ks, d)
        \/ \E done \in SUBSET ks : /\ done # ks /\ failures' = Counted(done)
           /\ Charge(done)
           /\ UNCHANGED <<owed, turns>>
  /\ Return(c)
  /\ UNCHANGED <<staff, tokens, jar, proven>>
RecordPortals(c) ==
  /\ At(c, "record portals")
  /\ LET ks == PortalKeys(c)
         d  == Greatest({DelayForFailures(Counted(ks)[k]) : k \in ks})
     IN \/ /\ failures' = Counted(ks)
           /\ turns' = HeldFor(c, ks, d)
           /\ Charge(ks) /\ Owe(ks, d)
        \/ \E done \in SUBSET ks : /\ done # ks /\ failures' = Counted(done)
           /\ turns' = Released(c, ks)
           /\ Charge(done)
           /\ UNCHANGED owed
  /\ Return(c)
  /\ UNCHANGED <<staff, tokens, jar, proven>>

\* RememberOnSignIn: keep a copy of the password that just verified if the
\* row still has that hash (best effort) ...
Remembered_AnyHash(row, hash) == [row EXCEPT !.copy = hash.salt]
Remembered(row, hash) == IF row.hash = hash THEN [row EXCEPT !.copy = hash.salt] ELSE row

\* ... and answer with a cookie bound to the hash that was verified.
AdmitPage_Reread(c) ==
  /\ At(c, "admit page")
  /\ LET k == calls[c]
     IN /\ pages' \in {pages, [pages EXCEPT ![k.page] = Remembered(@, k.hash)]}
        /\ jar' = [jar EXCEPT !.pages[k.page] = pages[k.page].hash.salt]
  /\ Return(c)
  /\ UNCHANGED <<mix, portals, salts, tokens, failures, turns, history>>
AdmitPage(c) ==
  /\ At(c, "admit page")
  /\ LET k == calls[c]
     IN /\ pages' \in {pages, [pages EXCEPT ![k.page] = Remembered(@, k.hash)]}
        /\ jar' = [jar EXCEPT !.pages[k.page] = k.hash.salt]
  /\ Return(c)
  /\ UNCHANGED <<mix, portals, salts, tokens, failures, turns, history>>

AdmitPortal(c) ==
  /\ At(c, "admit portal")
  /\ LET k == calls[c]
     IN /\ portals' \in {portals, [portals EXCEPT ![k.chosen] = Remembered(@, k.hash)]}
        /\ jar' = [jar EXCEPT !.portals[k.chosen] = k.hash.salt]
  /\ Return(c)
  /\ UNCHANGED <<mix, pages, salts, tokens, failures, turns, history>>

\* POST /portal/<slug>/lock: the portal's cookie and its members' go; the
\* membership read may fail.
LockPortal(q) ==
  /\ "lock portal" \in mix.ops /\ GetPublicPortal(q) /\ jar.portals[q] # NoCookie
  /\ \E gone \in {GetPortalPages(q), {}} :
       jar' = [pages |-> [p \in Pages |-> IF p \in gone THEN NoCookie ELSE jar.pages[p]],
               portals |-> [jar.portals EXCEPT ![q] = NoCookie]]
  /\ UNCHANGED <<staff, tokens, failures, turns, calls, history>>

---------------------------------------------------------------------------
(* Staff.  Each is one transaction on the locked rows.                     *)

Staff(op) == op \in mix.ops /\ UNCHANGED <<mix, tokens, jar, failures, turns, calls, history>>

\* HashPassword draws a salt; the sealed copy (if a key is set) is of this hash.
Fresh(secret) == [salt |-> salts + 1, secret |-> secret]

SetPassword(p, secret) ==
  /\ Staff("password") /\ salts < mix.salts
  /\ pages[p].state # "deleted" /\ Unlocked(PageKey(p))
  /\ salts' = salts + 1
  /\ \E copy \in {salts + 1, NoCopy} :
       pages' = [pages EXCEPT ![p].hash = Fresh(secret), ![p].copy = copy]
  /\ UNCHANGED portals

ClearPassword(p) ==
  /\ Staff("password")
  /\ pages[p].state # "deleted" /\ Unlocked(PageKey(p))
  /\ pages' = [pages EXCEPT ![p].hash = NoHash, ![p].copy = NoCopy]
  /\ UNCHANGED <<portals, salts>>

\* Takedown and its end, deletion and restore, publish and rollback.
SetState(p, s) ==
  /\ Staff("pages")
  /\ s # pages[p].state /\ Unlocked(PageKey(p))
  /\ pages' = [pages EXCEPT ![p].state = s]
  /\ UNCHANGED <<portals, salts>>

SetPublished(p, v) ==
  /\ Staff("pages")
  /\ pages[p].state # "deleted" /\ Unlocked(PageKey(p)) /\ v # pages[p].published
  /\ pages' = [pages EXCEPT ![p].published = v]
  /\ UNCHANGED <<portals, salts>>

CreatePortal(q, secret) ==
  /\ Staff("portals") /\ salts < mix.salts
  /\ portals[q].life = "none"
  /\ salts' = salts + 1
  /\ \E copy \in {salts + 1, NoCopy} :
       portals' = [portals EXCEPT ![q] =
         [life |-> "live", hash |-> Fresh(secret), copy |-> copy, home |-> 0, members |-> {}]]
  /\ UNCHANGED pages

\* lockPortal.
Locked(q) == portals[q].life = "live" /\ Unlocked(PortalKey(q))

SetPortalPassword(q, secret) ==
  /\ Staff("password") /\ salts < mix.salts /\ Locked(q)
  /\ salts' = salts + 1
  /\ \E copy \in {salts + 1, NoCopy} :
       portals' = [portals EXCEPT ![q].hash = Fresh(secret), ![q].copy = copy]
  /\ UNCHANGED pages

\* By slug the page must be live, by id it need not be.
RemovePage(q, p) ==
  /\ Staff("portals") /\ Locked(q) /\ Unlocked(PageKey(p))
  /\ p \in portals[q].members
  /\ portals' = [portals EXCEPT ![q].members = @ \ {p}, ![q].home = IF @ = p THEN 0 ELSE @]
  /\ UNCHANGED <<pages, salts>>

SetHome(q, p) ==
  /\ Staff("portals") /\ Locked(q)
  /\ p # 0 => p \in portals[q].members /\ pages[p].state # "deleted" /\ Unlocked(PageKey(p))
  /\ p # portals[q].home
  /\ portals' = [portals EXCEPT ![q].home = p]
  /\ UNCHANGED <<pages, salts>>

\* Remove: soft; the members stay on the retired row.
RetirePortal(q) ==
  /\ Staff("portals") /\ Locked(q)
  /\ portals' = [portals EXCEPT ![q].life = "retired"]
  /\ UNCHANGED <<pages, salts>>

Fanout(p) == Cardinality(InPortals(portals, p))

\* AddPage: portal row, page row, the count under both locks, the insert.
AddPageLock_PortalOnly(c, q, p) ==
  /\ Begins(c, "add") /\ Locked(q)
  /\ pages[p].state # "deleted" /\ p \notin portals[q].members
  /\ Fanout(p) < mix.fanout
  /\ calls' = [calls EXCEPT ![c] =
       [op |-> "add", pc |-> "insert", page |-> p, portal |-> q, locks |-> {PortalKey(q)}]]
  /\ UNCHANGED <<staff, tokens, jar, failures, turns, history>>
AddPageLock(c, q, p) ==
  /\ Begins(c, "add") /\ Locked(q)
  /\ pages[p].state # "deleted" /\ Unlocked(PageKey(p)) /\ p \notin portals[q].members
  /\ Fanout(p) < mix.fanout
  /\ calls' = [calls EXCEPT ![c] =
       [op |-> "add", pc |-> "insert", page |-> p, portal |-> q, locks |-> {PortalKey(q), PageKey(p)}]]
  /\ UNCHANGED <<staff, tokens, jar, failures, turns, history>>

AddPageInsert(c) ==
  /\ At(c, "insert")
  /\ portals' \in {portals, [portals EXCEPT ![calls[c].portal].members = @ \cup {calls[c].page}]}
  /\ Return(c)
  /\ UNCHANGED <<mix, pages, salts, tokens, jar, failures, turns, history>>

---------------------------------------------------------------------------
(* Time.                                                                   *)

\* Timers run down together; a turn whose hold is over goes back.
Tick ==
  /\ \E k \in Keys : turns[k].by = "timer" \/ owed[k] > 0
  /\ turns' = [k \in Keys |-> IF turns[k].by # "timer" THEN turns[k]
                              ELSE IF turns[k].left <= 1 THEN Free ELSE Timer(turns[k].left - 1)]
  /\ owed' = [k \in Keys |-> IF owed[k] = 0 THEN 0 ELSE owed[k] - 1]
  /\ UNCHANGED <<staff, tokens, jar, failures, calls, proven, charged>>

\* WindowMinutes without a failure: the next one counts as the first.
WindowPasses(k) ==
  /\ failures[k] > 0 /\ owed[k] = 0 /\ turns[k] = Free
  /\ failures' = [failures EXCEPT ![k] = 0]
  /\ charged' = [charged EXCEPT ![k] = 0]
  /\ UNCHANGED <<staff, tokens, jar, turns, calls, proven, owed>>

---------------------------------------------------------------------------
Init ==
  /\ mix \in Mixes
  /\ pages = mix.pages /\ portals = mix.portals
  /\ salts = 3
  /\ tokens = {}
  /\ jar = [pages |-> [p \in Pages |-> NoCookie], portals |-> [q \in Portals |-> NoCookie]]
  /\ failures = [k \in Keys |-> 0]
  /\ turns = [k \in Keys |-> Free]
  /\ calls = [c \in Calls |-> Idle]
  /\ proven = {} /\ owed = [k \in Keys |-> 0] /\ charged = [k \in Keys |-> 0]

GetStep(c) == ServePortals(c) \/ Render(c)

AttemptStep(c) ==
  \/ UnlockDoors(c) \/ TakePageTurn(c) \/ TakePortalTurns(c) \/ Busy(c)
  \/ VerifyPage(c) \/ ClearPage(c) \/ RecordPage(c) \/ AdmitPage(c)
  \/ VerifyPortals(c) \/ ClearPortal(c) \/ RecordPortals(c) \/ AdmitPortal(c)

CallStep(c) == GetStep(c) \/ AttemptStep(c) \/ AddPageInsert(c)

Arrive(c) ==
  \/ \E p \in Pages : Serve(c, p)
  \/ \E p \in Pages, g \in Secrets : Unlock(c, p, g)
  \/ \E q \in Portals, g \in Secrets : UnlockPortal(c, q, g)
  \/ \E q \in Portals, p \in Pages : AddPageLock(c, q, p)

TokenStep ==
  \/ \E purpose \in {"session", "view"}, p \in Pages, v \in 1..2 : MintToken(purpose, p, v)
  \/ \E p \in Pages, t \in tokens : ExchangeToken(p, t)

PageStep ==
  \E p \in Pages :
    \/ \E s \in Secrets : SetPassword(p, s)
    \/ ClearPassword(p)
    \/ \E s \in {"open", "disabled", "deleted"} : SetState(p, s)
    \/ \E v \in 0..2 : SetPublished(p, v)

PortalStep ==
  \E q \in Portals :
    \/ \E s \in Secrets : CreatePortal(q, s) \/ SetPortalPassword(q, s)
    \/ \E p \in Pages : RemovePage(q, p)
    \/ \E p \in Pages \cup {0} : SetHome(q, p)
    \/ RetirePortal(q)

Next ==
  \/ \E c \in Calls : Arrive(c) \/ CallStep(c)
  \/ TokenStep
  \/ PageStep
  \/ PortalStep
  \/ Tick
  \/ \E q \in Portals : LockPortal(q)
  \/ \E k \in Keys : WindowPasses(k)

\* A request's handler runs until it answers, its statements and writes are
\* bounded by timeouts (recordCtx), and time passes.
Fairness == WF_vars(Tick) /\ \A c \in Calls : WF_vars(CallStep(c))

Spec == Init /\ [][Next]_vars /\ Fairness

---------------------------------------------------------------------------
(* Properties.                                                             *)

Turns == [by : Calls \cup {"nobody", "timer"}, left : 0..MaxDelay]

\* Rows, cookies, counters and turns keep their types.
TypeOK ==
  /\ pages \in [Pages -> PageRows(mix.salts)] /\ portals \in [Portals -> PortalRows(mix.salts)]
  /\ salts \in 3..mix.salts
  /\ \A p \in Pages : jar.pages[p] \in {NoCookie} \cup 0..salts
  /\ \A q \in Portals : jar.portals[q] \in {NoCookie} \cup 1..salts
  /\ failures \in [Keys -> 0..MaxCount] /\ turns \in [Keys -> Turns]
  /\ owed \in [Keys -> 0..MaxDelay] /\ charged \in [Keys -> 0..MaxCount]

Opens(p, salt) ==
  \/ <<PageKey(p), salt>> \in proven
  \/ \E q \in Portals : /\ portals[q].life = "live" /\ p \in portals[q].members
                         /\ <<PortalKey(q), portals[q].hash.salt>> \in proven

\* A page is rendered only to a browser that gave the password the page has as
\* its row is read (or came through the broker), or the current password of a
\* live portal the page is in right then: no rotation, removal or retirement
\* racing a sign-in, no portal sign-in and no preview link buys more.
Entitled ==
  [][\A c \in Calls : calls'[c].pc = "render" /\ calls[c].pc # "render" =>
       Opens(calls'[c].page, calls'[c].hash.salt)]_vars

Verifies(c, k) ==
  \/ At(c, "verify page") /\ k = PageKey(calls[c].page)
  \/ At(c, "verify portals") /\ k \in PortalKeys(c)

\* However many connections guess, and whether or not they wait for their
\* answers, no password is tried again before the delay of its last recorded
\* failure is over.
PacedGuesses ==
  [][\A c \in Calls, k \in Keys : Verifies(c, k) /\ calls'[c] # calls[c] => owed[k] = 0]_vars

\* The counter never forgets a failure that came after the last success: "a
\* failure the next attempt records cannot be erased by this clearing write".
FailuresCounted == \A k \in Keys : charged[k] <= failures[k]

\* A request never waits for portal turns with the page's turn in hand:
\* "someone holding a portal's turn must not be able to keep the page's
\* direct-password viewers out".
NoHoldAndWait ==
  \A c \in Calls : At(c, "await portals") => \A k \in Keys : turns[k] # Held(c)

\* Every wrong password is paid for by the one who typed it and by nobody else.
ChargesKept == FailuresCounted /\ NoHoldAndWait

\* Every turn comes back, whatever fails: no page is ever locked out.
TurnsReturn == \A k \in Keys : (turns[k] # Free) ~> (turns[k] = Free)

\* No page is in more live portals than a submission may be tried against,
\* however additions by two people interleave, and a portal's home page is one
\* of its members.
PortalsSound ==
  /\ \A p \in Pages : Fanout(p) <= mix.fanout
  /\ \A q \in Portals : portals[q].home # 0 => portals[q].home \in portals[q].members

\* A staff-readable copy that opens stays until the password changes: a
\* sign-in with an old password never replaces it (RememberOnSignIn).
CopyKept ==
  [][/\ \A p \in Pages : pages[p].copy = pages[p].hash.salt /\ pages'[p].hash = pages[p].hash =>
            pages'[p].copy = pages[p].copy
     /\ \A q \in Portals : portals[q].copy = portals[q].hash.salt /\ portals'[q].hash = portals[q].hash =>
            portals'[q].copy = portals[q].copy]_vars
=============================================================================
