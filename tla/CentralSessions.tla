-------------------------- MODULE CentralSessions --------------------------
(***************************************************************************)
(* Sign-in through Auth (internal/auth/central): the access list, the     *)
(* sessions, the consumed logout events and the last access event of each *)
(* subject, with every call that reads or writes them.                    *)
(*                                                                         *)
(* A call runs its statements one by one under READ COMMITTED, and the    *)
(* calls interleave.  The locks a call has taken are in its record, so    *)
(* they go with it; its writes are applied when it commits, and the rows  *)
(* its sweeps matched (doomed) are fixed when the sweep runs.  Rollback   *)
(* is every refusal, error and lost connection.  Auth is external: it     *)
(* opens and ends central sessions, refuses codes of ended ones, and      *)
(* delivers its signed events late, repeatedly and in any order.          *)
(***************************************************************************)
EXTENDS Integers, Sequences

CONSTANTS
  Calls,        \* connections
  Mixes,        \* bounds: which calls are made, and how far, see mix
  Subjects,     \* Auth accounts
  Emails,       \* addresses
  EmailsOf,     \* subject -> the addresses it may have
  Centrals,     \* central sessions at Auth; also the jti of their logout token
  Owner,        \* central session -> subject
  IdleLimit,    \* IdleSeconds
  Absolute,     \* AbsoluteSeconds
  TouchEvery,   \* SessionTouchSeconds
  Retention,    \* RevocationEventRetentionSeconds
  TokenLife,    \* how long a logout token verifies (exp and clock skew)
  Span,         \* how long timeouts let a call live
  MaxVersion    \* bound: access events Auth issues per subject

AllOps == {"signin", "logout", "grant", "revoke", "access", "validate", "signout"}

ASSUME SessionsAssumption ==
  /\ \A m \in Mixes : /\ m.ops \subseteq AllOps /\ m.emails \subseteq Emails
                     /\ m.centrals \subseteq Centrals /\ m.sessions \in Nat /\ m.time \in Nat
  /\ Owner \in [Centrals -> Subjects] /\ EmailsOf \in [Subjects -> SUBSET Emails]
  /\ IdleLimit \in Nat /\ Absolute \in Nat /\ TouchEvery \in Nat /\ Retention \in Nat
  /\ TokenLife \in Nat /\ Span \in Nat /\ MaxVersion \in Nat

\* Replay protection outlives a token, and Auth never moves an address from
\* one account to another.
ASSUME AuthAssumption ==
  /\ TokenLife + Span <= Retention
  /\ \A s, t \in Subjects : s # t => EmailsOf[s] \cap EmailsOf[t] = {}

VARIABLES
  mix,           \* the calls made, the addresses and central sessions in play, and the
                 \* bounds on sessions ever created and on the clock
  clock,         \* Unix time, of Pages and Auth alike
  central,       \* Auth: each central session's state, and when it ended
  issued,        \* Auth: per subject, the access events so far, by version
  access,        \* central_access
  sessions,      \* central_sessions
  minted,        \* the last session id handed out
  events,        \* central_revocation_events
  provisioning,  \* central_access_provisioning
  calls,         \* the call each connection is in
  applied,       \* history: how often each logout token ended sessions
  newest,        \* history: the newest access event applied per subject
  manual         \* history: the addresses `pages access` has touched

auth    == <<mix, central, issued>>
history == <<applied, newest, manual>>
vars == <<clock, auth, access, sessions, minted, events, provisioning, calls, history>>

Ids == 1..mix.sessions
NoCall == [op |-> "none", locks |-> {}]
NoSession == [live |-> FALSE, kept |-> FALSE]

Lesser(a, b) == IF a < b THEN a ELSE b

---------------------------------------------------------------------------
(* Calls, locks and commits.                                               *)

At(c, pc) == calls[c].op # "none" /\ calls[c].pc = pc

GoTo(c, pc) == calls' = [calls EXCEPT ![c].pc = pc]

\* A call on behalf of subject s; at is the time it read when it began.
Begin(c, op, pc, s, e, arg) ==
  /\ calls[c] = NoCall /\ op \in mix.ops
  /\ calls' = [calls EXCEPT ![c] =
        [op |-> op, pc |-> pc, subject |-> s, email |-> e, arg |-> arg,
         started |-> clock, at |-> clock, doomed |-> {}, locks |-> {}]]
  /\ UNCHANGED <<clock, auth, access, sessions, minted, events, provisioning, history>>

Unheld(c, k) == \A d \in Calls \ {c} : k \notin calls[d].locks

\* Row locks on central_access: FOR SHARE and the lock of an UPDATE.
MayShare(c, e)  == Unheld(c, <<"row", e>>)
MayUpdate(c, e) == Unheld(c, <<"row", e>>) /\ Unheld(c, <<"share", e>>)

Lock(c, k, pc) ==
  /\ calls' = [calls EXCEPT ![c].locks = @ \cup {k}, ![c].pc = pc]
  /\ UNCHANGED <<clock, auth, access, sessions, minted, events, provisioning, history>>

Return(c) == calls' = [calls EXCEPT ![c] = NoCall]

Rollback(c) ==
  /\ calls[c] # NoCall
  /\ Return(c)
  /\ UNCHANGED <<clock, auth, access, sessions, minted, events, provisioning, history>>

Live(x) == sessions[x].live
LiveOf(e) == {x \in Ids : Live(x) /\ sessions[x].email = e}

\* UPDATE central_sessions SET revoked_at.
Revoked(rows, why) ==
  [x \in Ids |-> IF x \in rows /\ Live(x)
                   THEN [sessions[x] EXCEPT !.live = FALSE, !.why = why] ELSE sessions[x]]

\* lockSubject.
lockSubject(c) ==
  /\ At(c, "lock")
  /\ Unheld(c, <<"subject", calls[c].subject>>)
  /\ Lock(c, <<"subject", calls[c].subject>>, IF calls[c].op = "signin" THEN "check" ELSE "consume")

---------------------------------------------------------------------------
(* Sign-in: the callback, then CreateSession.                              *)

\* exchangeStartedMs is read before the code goes to Auth.
Callback(c, g) ==
  /\ central[g].state # "none"
  /\ \E e \in EmailsOf[Owner[g]] \cap mix.emails : Begin(c, "signin", "exchange", Owner[g], e, g)

\* Auth answers /token while the central session is open.
Exchange(c) ==
  /\ At(c, "exchange")
  /\ central[calls[c].arg].state = "open"
  /\ calls' = [calls EXCEPT ![c].pc = "purge", ![c].at = clock]
  /\ UNCHANGED <<clock, auth, access, sessions, minted, events, provisioning, history>>

\* Drop the rows that can never validate again.
PurgeSessions(c) ==
  /\ At(c, "purge")
  /\ sessions' = [x \in Ids |->
        IF sessions[x].kept /\ (~Live(x) \/ sessions[x].absolute <= calls[c].at)
          THEN NoSession ELSE sessions[x]]
  /\ GoTo(c, "lock")
  /\ UNCHANGED <<clock, auth, access, minted, events, provisioning, history>>

\* Refused when a logout of the subject arrived since the exchange began.
CheckLogout_Skipped(c) ==
  /\ At(c, "check")
  /\ GoTo(c, "share")
  /\ UNCHANGED <<clock, auth, access, sessions, minted, events, provisioning, history>>
CheckLogout(c) ==
  /\ At(c, "check")
  /\ \A ev \in events : Owner[ev.central] = calls[c].subject => ev.received < calls[c].started
  /\ GoTo(c, "share")
  /\ UNCHANGED <<clock, auth, access, sessions, minted, events, provisioning, history>>

\* SELECT ... WHERE email = $1 AND enabled FOR SHARE.
ShareAccess_NoLock(c) ==
  /\ At(c, "share")
  /\ access[calls[c].email] = "enabled"
  /\ GoTo(c, "insert")
  /\ UNCHANGED <<clock, auth, access, sessions, minted, events, provisioning, history>>
ShareAccess(c) ==
  /\ At(c, "share")
  /\ MayShare(c, calls[c].email)
  /\ access[calls[c].email] = "enabled"
  /\ Lock(c, <<"share", calls[c].email>>, "insert")

InsertSession(c) ==
  /\ At(c, "insert") /\ minted < mix.sessions
  /\ minted' = minted + 1
  /\ LET k == calls[c]
     IN sessions' = [sessions EXCEPT ![minted + 1] =
          [live |-> TRUE, kept |-> TRUE, subject |-> k.subject, email |-> k.email,
           central |-> k.arg, lastSeen |-> k.at, absolute |-> k.at + Absolute,
           idle |-> Lesser(k.at + IdleLimit, k.at + Absolute), used |-> k.at, why |-> "live"]]
  /\ Return(c)
  /\ UNCHANGED <<clock, auth, access, events, provisioning, history>>

---------------------------------------------------------------------------
(* Back-channel logout.                                                    *)

\* VerifyLogoutToken: the token of an ended central session, not yet expired.
ReceiveLogout(c, g) ==
  /\ central[g].state = "ended" /\ clock <= central[g].at + TokenLife
  /\ \E e \in EmailsOf[Owner[g]] \cap mix.emails : Begin(c, "logout", "lock", Owner[g], e, g)

\* The statements of ConsumeLogoutEvent after lockSubject: forget old events,
\* record this one, and if it is new end the subject's sessions.  The subject
\* lock keeps new sessions of the subject out between them.
ConsumeLogoutEvent_NoReplayCheck(c) ==
  /\ At(c, "consume")
  /\ LET g    == calls[c].arg
         kept == {ev \in events : ev.received >= calls[c].at - Retention}
     IN /\ events' = kept \cup {[central |-> g, received |-> calls[c].at]}
        /\ sessions' = Revoked({x \in Ids : Live(x) /\ sessions[x].subject = calls[c].subject}, "logout")
        /\ applied' = [applied EXCEPT ![g] = @ + 1]
  /\ Return(c)
  /\ UNCHANGED <<clock, auth, access, minted, provisioning, newest, manual>>
ConsumeLogoutEvent(c) ==
  /\ At(c, "consume")
  /\ LET g    == calls[c].arg
         kept == {ev \in events : ev.received >= calls[c].at - Retention}
     IN \/ /\ \E ev \in kept : ev.central = g
           /\ events' = kept
           /\ UNCHANGED <<sessions, applied>>
        \/ /\ \A ev \in kept : ev.central # g
           /\ events' = kept \cup {[central |-> g, received |-> calls[c].at]}
           /\ sessions' = Revoked({x \in Ids : Live(x) /\ sessions[x].subject = calls[c].subject}, "logout")
           /\ applied' = [applied EXCEPT ![g] = @ + 1]
  /\ Return(c)
  /\ UNCHANGED <<clock, auth, access, minted, provisioning, newest, manual>>

---------------------------------------------------------------------------
(* The access list: `pages access grant|revoke`, and Auth's events.        *)

\* One upsert.
GrantAccess(e) ==
  /\ "grant" \in mix.ops
  /\ \A c \in Calls : MayUpdate(c, e)
  /\ access' = [access EXCEPT ![e] = "enabled"]
  /\ manual' = manual \cup {e}
  /\ UNCHANGED <<clock, auth, sessions, minted, events, provisioning, calls, applied, newest>>

\* UPDATE ... WHERE email = $1 AND enabled: a row that is not enabled is not
\* locked either.
DisableRow(c) ==
  /\ At(c, "disable")
  /\ IF access[calls[c].email] = "enabled"
       THEN /\ MayUpdate(c, calls[c].email)
            /\ Lock(c, <<"row", calls[c].email>>, "sweep")
       ELSE /\ GoTo(c, "sweep")
            /\ UNCHANGED <<clock, auth, access, sessions, minted, events, provisioning, history>>

RevokeAccess(c) ==
  /\ At(c, "sweep")
  /\ LET e == calls[c].email
     IN /\ access' = IF <<"row", e>> \in calls[c].locks THEN [access EXCEPT ![e] = "disabled"] ELSE access
        /\ sessions' = Revoked(LiveOf(e), "access")
        /\ manual' = manual \cup {e}
  /\ Return(c)
  /\ UNCHANGED <<clock, auth, minted, events, provisioning, applied, newest>>

\* VerifyAccessToken refuses an expired token and Auth signs the event anew,
\* so an event may arrive at any time.
\* ApplyAccessEvent: the advisory lock of the subject's access ...
ReceiveAccess(c, s, v) ==
  /\ v \in 1..Len(issued[s])
  /\ Begin(c, "access", "lock access", s, issued[s][v].email, v)

LockProvisioning(c) ==
  /\ At(c, "lock access")
  /\ Unheld(c, <<"access", calls[c].subject>>)
  /\ Lock(c, <<"access", calls[c].subject>>, "version")

\* ... then the version: the same or an older one is ignored ...
CheckVersion_Any(c) ==
  /\ At(c, "version")
  /\ LET p == provisioning[calls[c].subject]
     IN GoTo(c, IF p.version # 0 /\ p.email # calls[c].email THEN "old" ELSE "upsert")
  /\ UNCHANGED <<clock, auth, access, sessions, minted, events, provisioning, history>>
CheckVersion(c) ==
  /\ At(c, "version")
  /\ LET p == provisioning[calls[c].subject]
     IN IF p.version >= calls[c].arg THEN Return(c)
        ELSE GoTo(c, IF p.version # 0 /\ p.email # calls[c].email THEN "old" ELSE "upsert")
  /\ UNCHANGED <<clock, auth, access, sessions, minted, events, provisioning, history>>

\* ... a changed address disables the old one and dooms its sessions ...
DisableOld(c) ==
  /\ At(c, "old")
  /\ LET old == provisioning[calls[c].subject].email
     IN /\ MayUpdate(c, old)
        /\ calls' = [calls EXCEPT ![c].locks = @ \cup {<<"row", old>>}, ![c].doomed = LiveOf(old),
                                  ![c].pc = "upsert"]
  /\ UNCHANGED <<clock, auth, access, sessions, minted, events, provisioning, history>>

UpsertAccess(c) ==
  /\ At(c, "upsert")
  /\ MayUpdate(c, calls[c].email)
  /\ Lock(c, <<"row", calls[c].email>>, "finish")

\* ... and the event's state is recorded, with a sweep when it revokes.
ApplyAccessEvent(c) ==
  /\ At(c, "finish")
  /\ LET k   == calls[c]
         ev  == issued[k.subject][k.arg]
         p   == provisioning[k.subject]
     IN /\ access' = [e \in Emails |->
              IF e = k.email THEN (IF ev.allowed THEN "enabled" ELSE "disabled")
              ELSE IF p.version # 0 /\ e = p.email THEN "disabled" ELSE access[e]]
        /\ sessions' = Revoked(k.doomed \cup (IF ev.allowed THEN {} ELSE LiveOf(k.email)), "access")
        /\ provisioning' = [provisioning EXCEPT ![k.subject] =
              [version |-> k.arg, email |-> k.email, allowed |-> ev.allowed]]
        /\ newest' = [newest EXCEPT ![k.subject] = IF @ < k.arg THEN k.arg ELSE @]
  /\ Return(c)
  /\ UNCHANGED <<clock, auth, minted, events, applied, manual>>

---------------------------------------------------------------------------
(* Requests that carry a session: IdentityAt and RevokeSession.            *)

Validate(c, x) ==
  /\ Live(x)
  /\ Begin(c, "validate", "read", sessions[x].subject, sessions[x].email, x)

\* The row is read without a lock; what the read calls for is written after.
\* A session that needs no write is answered at once.
ReadSession(c) ==
  /\ At(c, "read")
  /\ LET k == calls[c]
         r == sessions[k.arg]
         dead == access[r.email] # "enabled" \/ k.at >= r.idle \/ k.at >= r.absolute
     IN \/ /\ ~Live(k.arg)
           /\ Return(c) /\ UNCHANGED sessions
        \/ /\ Live(k.arg) /\ dead
           /\ GoTo(c, "expire") /\ UNCHANGED sessions
        \/ /\ Live(k.arg) /\ ~dead /\ k.at - r.lastSeen >= TouchEvery
           /\ GoTo(c, "touch") /\ UNCHANGED sessions
        \/ /\ Live(k.arg) /\ ~dead /\ k.at - r.lastSeen < TouchEvery
           /\ Return(c)
           /\ sessions' = [sessions EXCEPT ![k.arg].used = IF @ < k.at THEN k.at ELSE @]
  /\ UNCHANGED <<clock, auth, access, minted, events, provisioning, history>>

ExpireSession(c) ==
  /\ At(c, "expire")
  /\ sessions' = Revoked({calls[c].arg}, "expired")
  /\ Return(c)
  /\ UNCHANGED <<clock, auth, access, minted, events, provisioning, history>>

\* The touch is conditional on the row still being stale.
TouchSession(c) ==
  /\ At(c, "touch")
  /\ LET k == calls[c]
         r == sessions[k.arg]
     IN sessions' = IF ~r.kept THEN sessions
          ELSE [sessions EXCEPT ![k.arg] =
                 [r EXCEPT !.used = IF @ < k.at THEN k.at ELSE @,
                           !.lastSeen = IF r.live /\ @ <= k.at - TouchEvery THEN k.at ELSE @,
                           !.idle = IF r.live /\ r.lastSeen <= k.at - TouchEvery
                                      THEN Lesser(k.at + IdleLimit, r.absolute) ELSE @]]
  /\ Return(c)
  /\ UNCHANGED <<clock, auth, access, minted, events, provisioning, history>>

\* Sign-out of one session.
RevokeSession(x) ==
  /\ "signout" \in mix.ops /\ Live(x)
  /\ sessions' = Revoked({x}, "signout")
  /\ UNCHANGED <<clock, auth, access, minted, events, provisioning, calls, history>>

---------------------------------------------------------------------------
(* Auth, and time.                                                         *)

OpenCentral(g) ==
  /\ central[g].state = "none" /\ g \in mix.centrals
  /\ central' = [central EXCEPT ![g] = [state |-> "open", at |-> clock]]
  /\ UNCHANGED <<mix, clock, issued, access, sessions, minted, events, provisioning, calls, history>>

EndCentral(g) ==
  /\ central[g].state = "open" /\ "logout" \in mix.ops
  /\ central' = [central EXCEPT ![g] = [state |-> "ended", at |-> clock]]
  /\ UNCHANGED <<mix, clock, issued, access, sessions, minted, events, provisioning, calls, history>>

IssueAccess(s, e, allowed) ==
  /\ "access" \in mix.ops /\ e \in EmailsOf[s] \cap mix.emails /\ Len(issued[s]) < MaxVersion
  /\ issued' = [issued EXCEPT ![s] = Append(@, [email |-> e, allowed |-> allowed])]
  /\ UNCHANGED <<mix, clock, central, access, sessions, minted, events, provisioning, calls, history>>

\* Every call ends within Span of its start: HTTP and statement timeouts.
Tick ==
  /\ clock < mix.time
  /\ \A c \in Calls : calls[c] # NoCall => clock < calls[c].started + Span
  /\ clock' = clock + 1
  /\ UNCHANGED <<auth, access, sessions, minted, events, provisioning, calls, history>>

---------------------------------------------------------------------------
Init ==
  /\ mix \in Mixes
  /\ clock = 0
  /\ central = [g \in Centrals |-> [state |-> "none", at |-> 0]]
  /\ issued = [s \in Subjects |-> <<>>]
  /\ access \in [Emails -> IF "grant" \in mix.ops \/ "access" \in mix.ops THEN {"none"} ELSE {"enabled"}]
  /\ sessions = [x \in Ids |-> NoSession] /\ minted = 0
  /\ events = {}
  /\ provisioning = [s \in Subjects |->
        [version |-> 0, email |-> CHOOSE e \in Emails : TRUE, allowed |-> FALSE]]
  /\ calls = [c \in Calls |-> NoCall]
  /\ applied = [g \in Centrals |-> 0] /\ newest = [s \in Subjects |-> 0] /\ manual = {}

SignInStep(c) ==
  \/ \E g \in Centrals : Callback(c, g)
  \/ Exchange(c) \/ PurgeSessions(c) \/ CheckLogout(c) \/ ShareAccess(c) \/ InsertSession(c)

LogoutStep(c) ==
  \/ \E g \in Centrals : ReceiveLogout(c, g)
  \/ ConsumeLogoutEvent(c)

AccessStep(c) ==
  \/ \E s \in Subjects : \E e \in EmailsOf[s] \cap mix.emails : Begin(c, "revoke", "disable", s, e, 0)
  \/ DisableRow(c) \/ RevokeAccess(c)
  \/ \E s \in Subjects, v \in 1..MaxVersion : ReceiveAccess(c, s, v)
  \/ LockProvisioning(c) \/ CheckVersion(c) \/ DisableOld(c) \/ UpsertAccess(c) \/ ApplyAccessEvent(c)

RequestStep(c) ==
  \/ \E x \in Ids : Validate(c, x)
  \/ ReadSession(c) \/ ExpireSession(c) \/ TouchSession(c)

AuthStep ==
  \/ \E g \in Centrals : OpenCentral(g) \/ EndCentral(g)
  \/ \E s \in Subjects, e \in Emails, b \in BOOLEAN : IssueAccess(s, e, b)

Next ==
  \/ \E c \in Calls : SignInStep(c) \/ LogoutStep(c) \/ lockSubject(c) \/ AccessStep(c)
                      \/ RequestStep(c) \/ Rollback(c)
  \/ \E e \in mix.emails : GrantAccess(e)
  \/ \E x \in Ids : RevokeSession(x)
  \/ AuthStep
  \/ Tick

Spec == Init /\ [][Next]_vars

---------------------------------------------------------------------------
(* Properties.                                                             *)

Times == 0..(mix.time + Absolute + IdleLimit)
SessionRows ==
  {NoSession} \cup
  [live : BOOLEAN, kept : {TRUE}, subject : Subjects, email : Emails, central : Centrals,
   lastSeen : Times, absolute : Times, idle : Times, used : Times,
   why : {"live", "logout", "access", "expired", "signout"}]

\* Rows, events and calls keep their types.
TypeOK ==
  /\ clock \in 0..mix.time /\ minted \in 0..mix.sessions
  /\ \A g \in Centrals : central[g].state \in {"none", "open", "ended"} /\ central[g].at \in 0..clock
  /\ \A s \in Subjects : Len(issued[s]) <= MaxVersion /\ provisioning[s].version <= Len(issued[s])
  /\ access \in [Emails -> {"none", "enabled", "disabled"}]
  /\ \A x \in Ids : sessions[x] \in SessionRows /\ (x > minted => sessions[x] = NoSession)
  /\ \A ev \in events : ev.central \in Centrals /\ ev.received \in 0..clock
  /\ \A c \in Calls : calls[c] # NoCall => calls[c].op \in mix.ops /\ calls[c].at \in 0..clock

\* Once Pages has applied the logout of a central session, no session that was
\* minted from it is live: neither an old one, nor one whose code exchange had
\* succeeded before the logout and whose insert came after (CreateSession).
LogoutFinal ==
  \A x \in Ids : Live(x) => applied[sessions[x].central] = 0

\* A logout token ends sessions once, however often and however late Auth
\* delivers it: a replay never ends the sessions of a later sign-in.
ReplayHarmless ==
  \A g \in Centrals : applied[g] <= 1

\* No live session belongs to an address that is off the access list: no
\* sign-in slips its row past the sweep of a concurrent revocation.
SessionsEnabled ==
  \A x \in Ids : Live(x) => access[sessions[x].email] = "enabled"

\* Whatever the order of delivery, the access list says of the addresses of a
\* subject what the newest event received said, and an address the subject has
\* left is off.  Addresses changed with `pages access` are the operator's.
LatestAccess ==
  \A s \in Subjects : newest[s] # 0 =>
    LET ev == issued[s][newest[s]]
    IN \A e \in EmailsOf[s] \ manual : access[e] = "enabled" <=> (ev.allowed /\ e = ev.email)

\* "the idle limit behaves as 12 hours minus at most one minute": no session
\* expires sooner than that after the last request it was accepted for.
IdleAsStated ==
  [][\A x \in Ids : Live(x) /\ sessions'[x].kept /\ ~sessions'[x].live
                    /\ sessions'[x].why = "expired" /\ access[sessions[x].email] = "enabled" =>
       \/ clock >= sessions[x].used + IdleLimit - TouchEvery
       \/ clock >= sessions[x].absolute]_vars
=============================================================================
