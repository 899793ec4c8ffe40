----------------------- MODULE CentralSessionsProofs -----------------------
(***************************************************************************)
(* Proofs about CentralSessions, for every value of its constants: the     *)
(* inductive invariant IInv, and with it the four safety properties.       *)
(***************************************************************************)
EXTENDS CentralSessions, TLAPS

---------------------------------------------------------------------------
(* Types.                                                                  *)

AnyEmail == CHOOSE e \in Emails : TRUE

AccessEvents == [email : Emails, allowed : BOOLEAN]
Events       == [central : Centrals, received : Nat]
Standings    == {"none", "enabled", "disabled"}
Reasons      == {"live", "logout", "access", "expired", "signout"}
Rows == [live : BOOLEAN, kept : {TRUE}, subject : Subjects, email : Emails,
         central : Centrals, lastSeen : Nat, absolute : Nat, idle : Nat, used : Nat,
         why : Reasons]
Provisions == [version : Nat, email : Emails \cup {AnyEmail}, allowed : BOOLEAN]
LockKeys == {"subject", "access"} \X Subjects \cup {"row", "share"} \X (Emails \cup {AnyEmail})
Pcs == {"exchange", "purge", "lock", "check", "share", "insert", "consume", "disable", "sweep",
        "lock access", "version", "old", "upsert", "finish", "read", "expire", "touch"}
CallRecords == [op : AllOps, pc : Pcs, subject : Subjects, email : Emails,
                arg : Centrals \cup Nat, started : Nat, at : Nat,
                doomed : SUBSET Nat, locks : SUBSET LockKeys]

Typed ==
  /\ mix \in Mixes /\ clock \in Nat /\ minted \in Nat
  /\ central \in [Centrals -> [state : {"none", "open", "ended"}, at : Nat]]
  /\ issued \in [Subjects -> Seq(AccessEvents)]
  /\ access \in [Emails -> Standings]
  /\ sessions \in [Ids -> {NoSession} \cup Rows]
  /\ events \in SUBSET Events
  /\ provisioning \in [Subjects -> Provisions]
  /\ calls \in [Calls -> {NoCall} \cup CallRecords]
  /\ applied \in [Centrals -> Nat] /\ newest \in [Subjects -> Nat] /\ manual \in SUBSET Emails

---------------------------------------------------------------------------
(* The inductive invariant.                                                *)

\* Two calls never hold conflicting locks.
LocksExclusive ==
  \A c, d \in Calls : c # d =>
    /\ \A s \in Subjects : /\ ~(<<"subject", s>> \in calls[c].locks /\ <<"subject", s>> \in calls[d].locks)
                           /\ ~(<<"access", s>> \in calls[c].locks /\ <<"access", s>> \in calls[d].locks)
    /\ \A e \in Emails : <<"row", e>> \in calls[c].locks =>
         <<"row", e>> \notin calls[d].locks /\ <<"share", e>> \notin calls[d].locks

\* A sign-in past its exchange came before the end of its central session; past
\* its check it holds the subject, and no logout of that session was applied;
\* at its insert the address is on the list and shared.
SignInOK(k) ==
  /\ k.op = "signin" /\ k.arg \in Centrals /\ k.subject = Owner[k.arg]
  /\ k.pc \in {"exchange", "purge", "lock", "check", "share", "insert"}
  /\ k.pc # "exchange" => \/ central[k.arg].state = "open"
                          \/ central[k.arg].state = "ended" /\ k.at <= central[k.arg].at
  /\ k.pc \in {"check", "share", "insert"} => <<"subject", k.subject>> \in k.locks
  /\ k.pc \in {"share", "insert"} => applied[k.arg] = 0
  /\ k.pc = "insert" => <<"share", k.email>> \in k.locks /\ access[k.email] = "enabled"

\* A logout began while its token verified.
LogoutOK(k) ==
  /\ k.op = "logout" /\ k.arg \in Centrals /\ k.subject = Owner[k.arg]
  /\ k.pc \in {"lock", "consume"}
  /\ central[k.arg].state = "ended" /\ central[k.arg].at <= k.at
  /\ k.at = k.started /\ k.at <= central[k.arg].at + TokenLife
  /\ k.pc = "consume" => <<"subject", k.subject>> \in k.locks

\* An access event past its version check is newer than what was applied, and
\* holds the rows it is going to write; every live session of the address the
\* subject leaves is doomed.
Leaving(k, old) ==
  <<"row", old>> \in k.locks /\ \A x \in Ids : Live(x) /\ sessions[x].email = old => x \in k.doomed
AccessOK(k) ==
  /\ k.op = "access" /\ "access" \in mix.ops
  /\ k.arg \in Nat \ {0} /\ k.arg <= Len(issued[k.subject])
  /\ k.email = issued[k.subject][k.arg].email
  /\ k.pc \in {"lock access", "version", "old", "upsert", "finish"}
  /\ k.pc # "lock access" => <<"access", k.subject>> \in k.locks
  /\ LET p == provisioning[k.subject]
         moved == p.version # 0 /\ p.email # k.email
     IN /\ k.pc \in {"old", "upsert", "finish"} => p.version < k.arg
        /\ k.pc = "old" => moved
        /\ k.pc \in {"upsert", "finish"} /\ moved => Leaving(k, p.email)
  /\ k.pc = "finish" => <<"row", k.email>> \in k.locks

OtherOK(k) ==
  \/ k.op = "revoke" /\ k.pc \in {"disable", "sweep"}
  \/ k.op = "validate" /\ k.arg \in Ids /\ k.pc \in {"read", "expire", "touch"}

CallOK(k) == SignInOK(k) \/ LogoutOK(k) \/ AccessOK(k) \/ OtherOK(k)
CallsOK == \A c \in Calls : calls[c] # NoCall => CallOK(calls[c])

\* Calls end in time.
Timely ==
  \A c \in Calls : calls[c] # NoCall =>
    /\ calls[c].started <= calls[c].at /\ calls[c].at <= clock
    /\ clock <= calls[c].started + Span

\* An applied logout is remembered for as long as its token can come back.
Remembered ==
  \A g \in Centrals : applied[g] # 0 =>
    /\ central[g].state = "ended"
    /\ \/ \E ev \in events : ev.central = g /\ central[g].at <= ev.received
       \/ central[g].at + TokenLife + Span < clock

\* Auth ended its sessions in the past.
EndedBefore == \A g \in Centrals : central[g].at <= clock

SessionsOwned == \A x \in Ids : Live(x) => sessions[x].subject = Owner[sessions[x].central]

\* Auth's events are about the subject's own addresses, and what is provisioned
\* is the newest one applied.
Provisioned ==
  \A s \in Subjects :
    /\ \A i \in 1..Len(issued[s]) : issued[s][i].email \in EmailsOf[s]
    /\ newest[s] = provisioning[s].version /\ newest[s] <= Len(issued[s])
    /\ newest[s] # 0 =>
         /\ "access" \in mix.ops
         /\ provisioning[s].email = issued[s][newest[s]].email
         /\ provisioning[s].allowed = issued[s][newest[s]].allowed

\* The list says of a subject's addresses what is provisioned.
Listed ==
  "access" \in mix.ops =>
    \A s \in Subjects : \A e \in EmailsOf[s] \ manual :
      access[e] = "enabled" <=>
        /\ provisioning[s].version # 0 /\ provisioning[s].allowed
        /\ e = provisioning[s].email

IInv == /\ Typed /\ LocksExclusive /\ CallsOK /\ Timely /\ Remembered /\ EndedBefore /\ SessionsOwned
        /\ Provisioned /\ Listed /\ LogoutFinal /\ ReplayHarmless /\ SessionsEnabled

---------------------------------------------------------------------------
(* The shape of the calls.                                                 *)

\* A call is a record; NoCall is not one.
LEMMA AtType ==
  ASSUME Typed, NEW c \in Calls, NEW p, At(c, p)
  PROVE  calls[c] \in CallRecords /\ calls[c] # NoCall /\ calls[c].pc = p
<1>1. NoCall.op = "none" BY DEF NoCall
<1> QED BY <1>1 DEF Typed, At

LEMMA RunningType ==
  ASSUME Typed, NEW c \in Calls, calls[c] # NoCall
  PROVE  calls[c] \in CallRecords
BY DEF Typed

\* Began, Advanced, Ended: what a step does to the calls.
Began(c) ==
  /\ calls[c] = NoCall /\ calls'[c] \in CallRecords /\ calls'[c] # NoCall
  /\ calls'[c].locks = {} /\ calls'[c].started = clock /\ calls'[c].at = clock
  /\ \A d \in Calls \ {c} : calls'[d] = calls[d]

Free(c, k) ==
  \/ \E s \in Subjects : k \in {<<"subject", s>>, <<"access", s>>} /\ Unheld(c, k)
  \/ \E e \in Emails \cup {AnyEmail} : k = <<"share", e>> /\ MayShare(c, e)
  \/ \E e \in Emails \cup {AnyEmail} : k = <<"row", e>> /\ MayUpdate(c, e)

Advanced(c) ==
  /\ calls[c] # NoCall /\ calls'[c] \in CallRecords /\ calls'[c] # NoCall
  /\ calls'[c].started = calls[c].started /\ calls'[c].at \in {calls[c].at, clock}
  /\ \/ calls'[c].locks = calls[c].locks
     \/ \E k \in LockKeys : calls'[c].locks = calls[c].locks \cup {k} /\ Free(c, k)
  /\ \A d \in Calls \ {c} : calls'[d] = calls[d]

Ended(c) == /\ calls[c] # NoCall /\ calls'[c] = NoCall
            /\ \A d \in Calls \ {c} : calls'[d] = calls[d]

Same(c) == /\ calls'[c].op = calls[c].op /\ calls'[c].subject = calls[c].subject
           /\ calls'[c].email = calls[c].email /\ calls'[c].arg = calls[c].arg

LEMMA RecordsRun == \A k \in CallRecords : k # NoCall
<1>1. NoCall.op = "none" BY DEF NoCall
<1>2. \A k \in CallRecords : k.op \in AllOps BY DEF CallRecords
<1> QED BY <1>1, <1>2 DEF AllOps

LEMMA BeginEffect ==
  ASSUME Typed, NEW c \in Calls, NEW op \in AllOps, NEW pc \in Pcs, NEW s \in Subjects,
         NEW e \in Emails, NEW arg \in Centrals \cup Nat, Begin(c, op, pc, s, e, arg)
  PROVE  /\ Began(c) /\ calls' \in [Calls -> {NoCall} \cup CallRecords]
         /\ calls'[c].op = op /\ calls'[c].pc = pc /\ calls'[c].subject = s
         /\ calls'[c].email = e /\ calls'[c].arg = arg /\ op \in mix.ops
         /\ UNCHANGED <<clock, auth, access, sessions, minted, events, provisioning, history>>
<1> DEFINE k == [op |-> op, pc |-> pc, subject |-> s, email |-> e, arg |-> arg,
                 started |-> clock, at |-> clock, doomed |-> {}, locks |-> {}]
<1>1. k \in CallRecords BY DEF CallRecords, Typed
<1>2. /\ k.op = op /\ k.pc = pc /\ k.subject = s /\ k.email = e /\ k.arg = arg
      /\ k.locks = {} /\ k.started = clock /\ k.at = clock
  OBVIOUS
<1>3. calls' = [calls EXCEPT ![c] = k] /\ calls[c] = NoCall BY DEF Begin
<1> HIDE DEF k
<1>4. calls'[c] = k /\ \A d \in Calls \ {c} : calls'[d] = calls[d] BY <1>3 DEF Typed
<1>5. calls' \in [Calls -> {NoCall} \cup CallRecords] BY <1>1, <1>3 DEF Typed
<1>6. op \in mix.ops /\ UNCHANGED <<clock, auth, access, sessions, minted, events, provisioning, history>>
  BY DEF Begin
<1> QED BY <1>1, <1>2, <1>3, <1>4, <1>5, <1>6, RecordsRun DEF Began

LEMMA GoToEffect ==
  ASSUME Typed, NEW c \in Calls, calls[c] # NoCall, NEW pc \in Pcs, GoTo(c, pc)
  PROVE  /\ Advanced(c) /\ Same(c) /\ calls' \in [Calls -> {NoCall} \cup CallRecords]
         /\ calls'[c].pc = pc /\ calls'[c].at = calls[c].at /\ calls'[c].doomed = calls[c].doomed
         /\ calls'[c].locks = calls[c].locks
<1> DEFINE k == [calls[c] EXCEPT !.pc = pc]
<1>0. calls[c] \in CallRecords BY RunningType
<1>1. k \in CallRecords BY <1>0 DEF CallRecords
<1>2. /\ k.op = calls[c].op /\ k.subject = calls[c].subject /\ k.email = calls[c].email
      /\ k.arg = calls[c].arg /\ k.started = calls[c].started /\ k.at = calls[c].at
      /\ k.doomed = calls[c].doomed /\ k.locks = calls[c].locks /\ k.pc = pc
  BY <1>0 DEF CallRecords
<1>3. calls' = [calls EXCEPT ![c] = k] BY DEF GoTo
<1> HIDE DEF k
<1>4. calls'[c] = k /\ \A d \in Calls \ {c} : calls'[d] = calls[d] BY <1>3 DEF Typed
<1>5. calls' \in [Calls -> {NoCall} \cup CallRecords] BY <1>1, <1>3 DEF Typed
<1> QED BY <1>1, <1>2, <1>3, <1>4, <1>5, RecordsRun DEF Advanced, Same

LEMMA LockEffect ==
  ASSUME Typed, NEW c \in Calls, calls[c] # NoCall, NEW pc \in Pcs, NEW key \in LockKeys,
         Free(c, key), Lock(c, key, pc)
  PROVE  /\ Advanced(c) /\ Same(c) /\ calls' \in [Calls -> {NoCall} \cup CallRecords]
         /\ calls'[c].pc = pc /\ calls'[c].at = calls[c].at /\ calls'[c].doomed = calls[c].doomed
         /\ calls'[c].locks = calls[c].locks \cup {key}
         /\ UNCHANGED <<clock, auth, access, sessions, minted, events, provisioning, history>>
<1> DEFINE k == [calls[c] EXCEPT !.locks = calls[c].locks \cup {key}, !.pc = pc]
<1>0. calls[c] \in CallRecords BY RunningType
<1>a. calls[c].locks \cup {key} \in SUBSET LockKeys BY <1>0 DEF CallRecords
<1>1. k \in CallRecords BY <1>0, <1>a DEF CallRecords
<1>2. /\ k.op = calls[c].op /\ k.subject = calls[c].subject /\ k.email = calls[c].email
      /\ k.arg = calls[c].arg /\ k.started = calls[c].started /\ k.at = calls[c].at
      /\ k.doomed = calls[c].doomed /\ k.locks = calls[c].locks \cup {key} /\ k.pc = pc
  BY <1>0 DEF CallRecords
<1>3. calls' = [calls EXCEPT ![c] = k] BY DEF Lock, Typed
<1> HIDE DEF k
<1>4. calls'[c] = k /\ \A d \in Calls \ {c} : calls'[d] = calls[d] BY <1>3 DEF Typed
<1>5. calls' \in [Calls -> {NoCall} \cup CallRecords] BY <1>1, <1>3 DEF Typed
<1>6. UNCHANGED <<clock, auth, access, sessions, minted, events, provisioning, history>> BY DEF Lock
<1> QED BY <1>1, <1>2, <1>3, <1>4, <1>5, <1>6, RecordsRun DEF Advanced, Same

LEMMA ReturnEffect ==
  ASSUME Typed, NEW c \in Calls, calls[c] # NoCall, Return(c)
  PROVE  Ended(c) /\ calls' \in [Calls -> {NoCall} \cup CallRecords]
BY DEF Return, Ended, Typed

---------------------------------------------------------------------------
(* The sessions.                                                           *)

\* No session comes to life, and the live ones keep their owner.
Shrunk ==
  \A x \in Ids : sessions'[x].live =>
    /\ Live(x) /\ sessions'[x].subject = sessions[x].subject
    /\ sessions'[x].email = sessions[x].email /\ sessions'[x].central = sessions[x].central

LEMMA LiveRow ==
  ASSUME Typed, NEW x \in Ids, Live(x)
  PROVE  sessions[x] \in Rows
BY DEF Typed, Live, NoSession

LEMMA RevokedShrinks ==
  ASSUME Typed, NEW rows, NEW why \in Reasons, sessions' = Revoked(rows, why)
  PROVE  /\ sessions' \in [Ids -> {NoSession} \cup Rows] /\ Shrunk
         /\ \A x \in Ids : x \in rows => ~sessions'[x].live
<1>1. ASSUME NEW x \in Ids
      PROVE  /\ sessions'[x] \in {NoSession} \cup Rows
             /\ sessions'[x].live => /\ Live(x) /\ sessions'[x].subject = sessions[x].subject
                                     /\ sessions'[x].email = sessions[x].email
                                     /\ sessions'[x].central = sessions[x].central
             /\ x \in rows => ~sessions'[x].live
  <2>1. CASE x \in rows /\ Live(x)
    <3> DEFINE r == [sessions[x] EXCEPT !.live = FALSE, !.why = why]
    <3>1. sessions'[x] = r BY <2>1 DEF Revoked
    <3>2. sessions[x] \in Rows BY <2>1, LiveRow
    <3>3. r \in Rows /\ r.live = FALSE BY <3>2 DEF Rows
    <3> QED BY <2>1, <3>1, <3>3
  <2>2. CASE ~(x \in rows /\ Live(x))
    <3>1. sessions'[x] = sessions[x] BY <2>2 DEF Revoked
    <3> QED BY <2>2, <3>1 DEF Typed, Live
  <2> QED BY <2>1, <2>2
<1>2. sessions' = [x \in Ids |-> sessions'[x]] BY DEF Revoked
<1>3. sessions' \in [Ids -> {NoSession} \cup Rows] BY <1>1, <1>2
<1> QED BY <1>1, <1>3 DEF Shrunk

LEMMA SameShrinks ==
  ASSUME Typed, UNCHANGED sessions
  PROVE  sessions' \in [Ids -> {NoSession} \cup Rows] /\ Shrunk
BY DEF Typed, Shrunk, Live

\* The purge, the read and the touch of a request.
LEMMA PurgeShrinks ==
  ASSUME Typed, NEW c \in Calls, PurgeSessions(c)
  PROVE  sessions' \in [Ids -> {NoSession} \cup Rows] /\ Shrunk
<1>1. sessions' = [x \in Ids |-> IF sessions[x].kept /\ (~Live(x) \/ sessions[x].absolute <= calls[c].at)
                                   THEN NoSession ELSE sessions[x]]
  BY DEF PurgeSessions
<1>2. \A x \in Ids : sessions'[x] = NoSession \/ sessions'[x] = sessions[x] BY <1>1
<1>3. ~NoSession.live BY DEF NoSession
<1>4. sessions' \in [Ids -> {NoSession} \cup Rows] BY <1>1, <1>2 DEF Typed
<1> QED BY <1>2, <1>3, <1>4 DEF Shrunk, Live

LEMMA OneRowShrinks ==
  ASSUME Typed, NEW x \in Ids, NEW r, sessions' = [sessions EXCEPT ![x] = r],
         r \in Rows, r.live = sessions[x].live, r.subject = sessions[x].subject,
         r.email = sessions[x].email, r.central = sessions[x].central
  PROVE  sessions' \in [Ids -> {NoSession} \cup Rows] /\ Shrunk
<1>1. sessions'[x] = r /\ \A y \in Ids : y # x => sessions'[y] = sessions[y] BY DEF Typed
<1>2. sessions' \in [Ids -> {NoSession} \cup Rows] BY DEF Typed
<1> QED BY <1>1, <1>2 DEF Shrunk, Live

LEMMA ReadShrinks ==
  ASSUME Typed, NEW c \in Calls, CallsOK, ReadSession(c)
  PROVE  sessions' \in [Ids -> {NoSession} \cup Rows] /\ Shrunk
<1>1. CASE UNCHANGED sessions BY <1>1, SameShrinks
<1>2. CASE /\ Live(calls[c].arg)
           /\ sessions' = [sessions EXCEPT ![calls[c].arg].used = IF @ < calls[c].at THEN calls[c].at ELSE @]
  <2>0. At(c, "read") BY DEF ReadSession
  <2>1. calls[c] \in CallRecords /\ calls[c] # NoCall /\ calls[c].pc = "read" BY <2>0, AtType
  <2>2. calls[c].arg \in Ids
    BY <2>1 DEF CallsOK, CallOK, SignInOK, LogoutOK, AccessOK, OtherOK
  <2>3. sessions[calls[c].arg] \in Rows BY <1>2, <2>2, LiveRow
  <2> DEFINE x == calls[c].arg
             u == IF sessions[x].used < calls[c].at THEN calls[c].at ELSE sessions[x].used
             r == [sessions[x] EXCEPT !.used = u]
  <2>4. u \in Nat BY <2>1, <2>3 DEF CallRecords, Rows
  <2>5. sessions' = [sessions EXCEPT ![x] = r] BY <1>2
  <2> HIDE DEF x, u
  <2>6. r \in Rows /\ r.live = sessions[x].live /\ r.subject = sessions[x].subject
        /\ r.email = sessions[x].email /\ r.central = sessions[x].central
    BY <2>3, <2>4 DEF Rows, x
  <2>7. x \in Ids BY <2>2 DEF x
  <2> QED BY <2>5, <2>6, <2>7, OneRowShrinks
<1> QED BY <1>1, <1>2 DEF ReadSession

LEMMA TouchShrinks ==
  ASSUME Typed, NEW c \in Calls, CallsOK, TouchSession(c)
  PROVE  sessions' \in [Ids -> {NoSession} \cup Rows] /\ Shrunk
<1>0. At(c, "touch") BY DEF TouchSession
<1>1. calls[c] \in CallRecords /\ calls[c] # NoCall /\ calls[c].pc = "touch" BY <1>0, AtType
<1>2. calls[c].arg \in Ids
  BY <1>1 DEF CallsOK, CallOK, SignInOK, LogoutOK, AccessOK, OtherOK
<1> DEFINE k == calls[c]
           x == k.arg
           s == sessions[x]
           u == IF s.used < k.at THEN k.at ELSE s.used
           l == IF s.live /\ s.lastSeen <= k.at - TouchEvery THEN k.at ELSE s.lastSeen
           i == IF s.live /\ s.lastSeen <= k.at - TouchEvery
                  THEN Lesser(k.at + IdleLimit, s.absolute) ELSE s.idle
           r == [s EXCEPT !.used = u, !.lastSeen = l, !.idle = i]
<1>3. CASE ~s.kept BY <1>3, SameShrinks DEF TouchSession
<1>4. CASE s.kept
  <2>1. s \in Rows BY <1>2, <1>4 DEF Typed, NoSession
  <2>2. k.at \in Nat BY <1>1 DEF CallRecords
  <2>3. u \in Nat /\ l \in Nat /\ i \in Nat
    <3>1. s.used \in Nat /\ s.lastSeen \in Nat /\ s.absolute \in Nat /\ s.idle \in Nat
      BY <2>1 DEF Rows
    <3>2. k.at + IdleLimit \in Nat BY <2>2, SessionsAssumption
    <3>3. Lesser(k.at + IdleLimit, s.absolute) \in Nat BY <3>1, <3>2 DEF Lesser
    <3> HIDE DEF k, s
    <3> QED BY <2>2, <3>1, <3>3
  <2>4. sessions' = [sessions EXCEPT ![x] = r] BY <1>4 DEF TouchSession
  <2> HIDE DEF s, u, l, i
  <2>5. r \in Rows /\ r.live = s.live /\ r.subject = s.subject /\ r.email = s.email
        /\ r.central = s.central
    BY <2>1, <2>3 DEF Rows
  <2> QED BY <1>2, <2>4, <2>5, OneRowShrinks DEF s
<1> QED BY <1>3, <1>4

---------------------------------------------------------------------------
(* Steps of one call that leave the shared tables alone.                   *)

Starts(c) ==
  \/ \E g \in Centrals : Callback(c, g) \/ ReceiveLogout(c, g)
  \/ \E s \in Subjects : \E e \in EmailsOf[s] \cap mix.emails : Begin(c, "revoke", "disable", s, e, 0)
  \/ \E s \in Subjects, v \in 1..MaxVersion : ReceiveAccess(c, s, v)
  \/ \E x \in Ids : Validate(c, x)

Walks(c) ==
  \/ Exchange(c) \/ PurgeSessions(c) \/ lockSubject(c) \/ CheckLogout(c) \/ ShareAccess(c)
  \/ DisableRow(c)
  \/ LockProvisioning(c) \/ CheckVersion(c) \/ DisableOld(c) \/ UpsertAccess(c)
  \/ ReadSession(c) \/ ExpireSession(c) \/ TouchSession(c) \/ Rollback(c)

\* The step of one call, and what it leaves that call as.
OneCall(c) ==
  /\ calls' \in [Calls -> {NoCall} \cup CallRecords]
  /\ sessions' \in [Ids -> {NoSession} \cup Rows] /\ Shrunk
  /\ Began(c) \/ Advanced(c) \/ Ended(c)
  /\ calls'[c] # NoCall => CallOK(calls[c])'
  /\ UNCHANGED <<clock, auth, access, minted, events, provisioning, history>>

LEMMA SeqItem ==
  ASSUME NEW S, NEW q \in Seq(S), NEW i \in 1..Len(q)
  PROVE  q[i] \in S /\ Len(q) \in Nat /\ i \in Nat \ {0} /\ i <= Len(q)
OBVIOUS

\* A new call finds what it was begun for.
LEMMA StartsOK ==
  ASSUME IInv, NEW c \in Calls, Starts(c)
  PROVE  OneCall(c)
<1>0. Typed BY DEF IInv
<1>e. \A s \in Subjects : \A e \in EmailsOf[s] : e \in Emails BY SessionsAssumption
<1>o. \A g \in Centrals : Owner[g] \in Subjects /\ g \in Centrals \cup Nat BY SessionsAssumption
<1>p. "signin" \in AllOps /\ "logout" \in AllOps /\ "revoke" \in AllOps /\ "access" \in AllOps /\ "validate" \in AllOps
  BY DEF AllOps
<1>q. "exchange" \in Pcs /\ "lock" \in Pcs /\ "disable" \in Pcs /\ "lock access" \in Pcs /\ "read" \in Pcs
  BY DEF Pcs
<1>n. 0 \in Centrals \cup Nat OBVIOUS
<1>1. ASSUME NEW g \in Centrals, Callback(c, g) PROVE OneCall(c)
  <2> DEFINE s == Owner[g]
  <2>1. PICK e \in EmailsOf[s] \cap mix.emails : Begin(c, "signin", "exchange", s, e, g)
    BY <1>1 DEF Callback
  <2>2. s \in Subjects /\ g \in Centrals \cup Nat BY <1>o
  <2>e. e \in Emails BY <1>e, <2>2
  <2> HIDE DEF s
  <2>3. /\ Began(c) /\ calls' \in [Calls -> {NoCall} \cup CallRecords]
        /\ calls'[c].op = "signin" /\ calls'[c].pc = "exchange" /\ calls'[c].subject = s
        /\ calls'[c].email = e /\ calls'[c].arg = g
        /\ UNCHANGED <<clock, auth, access, sessions, minted, events, provisioning, history>>
    BY <1>0, <1>p, <1>q, <2>1, <2>2, <2>e, BeginEffect
  <2>4. CallOK(calls[c])' BY <2>3 DEF CallOK, SignInOK, s
  <2> QED BY <1>0, <2>3, <2>4, SameShrinks DEF OneCall
<1>2. ASSUME NEW g \in Centrals, ReceiveLogout(c, g) PROVE OneCall(c)
  <2> DEFINE s == Owner[g]
  <2>1. PICK e \in EmailsOf[s] \cap mix.emails : Begin(c, "logout", "lock", s, e, g)
    BY <1>2 DEF ReceiveLogout
  <2>2. s \in Subjects /\ g \in Centrals \cup Nat BY <1>o
  <2>e. e \in Emails BY <1>e, <2>2
  <2> HIDE DEF s
  <2>3. /\ Began(c) /\ calls' \in [Calls -> {NoCall} \cup CallRecords]
        /\ calls'[c].op = "logout" /\ calls'[c].pc = "lock" /\ calls'[c].subject = s
        /\ calls'[c].email = e /\ calls'[c].arg = g
        /\ UNCHANGED <<clock, auth, access, sessions, minted, events, provisioning, history>>
    BY <1>0, <1>p, <1>q, <2>1, <2>2, <2>e, BeginEffect
  <2>4. central[g].state = "ended" /\ clock <= central[g].at + TokenLife
    BY <1>2 DEF ReceiveLogout
  <2>5. central[g].at <= clock BY DEF IInv, EndedBefore
  <2>6. CallOK(calls[c])' BY <2>3, <2>4, <2>5 DEF CallOK, LogoutOK, Began, auth, s
  <2> QED BY <1>0, <2>3, <2>6, SameShrinks DEF OneCall
<1>3. ASSUME NEW s \in Subjects, NEW e \in EmailsOf[s] \cap mix.emails,
             Begin(c, "revoke", "disable", s, e, 0)
      PROVE  OneCall(c)
  <2>1. /\ Began(c) /\ calls' \in [Calls -> {NoCall} \cup CallRecords]
        /\ calls'[c].op = "revoke" /\ calls'[c].pc = "disable"
        /\ UNCHANGED <<clock, auth, access, sessions, minted, events, provisioning, history>>
    BY <1>0, <1>e, <1>n, <1>p, <1>q, <1>3, BeginEffect
  <2>2. CallOK(calls[c])' BY <2>1 DEF CallOK, OtherOK
  <2> QED BY <1>0, <2>1, <2>2, SameShrinks DEF OneCall
<1>4. ASSUME NEW s \in Subjects, NEW v \in 1..MaxVersion, ReceiveAccess(c, s, v) PROVE OneCall(c)
  <2>1. v \in 1..Len(issued[s]) /\ Begin(c, "access", "lock access", s, issued[s][v].email, v)
    BY <1>4 DEF ReceiveAccess
  <2>2. issued[s] \in Seq(AccessEvents) BY <1>0 DEF Typed
  <2>5. v \in Nat \ {0} /\ v <= Len(issued[s])
    BY <2>1, <2>2, SeqItem
  <2>3. issued[s][v].email \in Emails /\ v \in Centrals \cup Nat
    <3>1. issued[s][v] \in AccessEvents BY <2>1, <2>2, SeqItem
    <3> QED BY <3>1, <2>5 DEF AccessEvents
  <2>4. /\ Began(c) /\ calls' \in [Calls -> {NoCall} \cup CallRecords]
        /\ calls'[c].op = "access" /\ calls'[c].pc = "lock access" /\ calls'[c].subject = s
        /\ calls'[c].email = issued[s][v].email /\ calls'[c].arg = v /\ "access" \in mix.ops
        /\ UNCHANGED <<clock, auth, access, sessions, minted, events, provisioning, history>>
    BY <1>0, <1>p, <1>q, <2>1, <2>3, BeginEffect
  <2>6. CallOK(calls[c])' BY <2>4, <2>5 DEF CallOK, AccessOK, auth
  <2> QED BY <1>0, <2>4, <2>6, SameShrinks DEF OneCall
<1>5. ASSUME NEW x \in Ids, Validate(c, x) PROVE OneCall(c)
  <2> DEFINE s == sessions[x].subject
             e == sessions[x].email
  <2>1. Live(x) /\ Begin(c, "validate", "read", s, e, x)
    BY <1>5 DEF Validate
  <2>2. sessions[x] \in Rows BY <1>0, <2>1, LiveRow
  <2>3. s \in Subjects /\ e \in Emails BY <2>2 DEF Rows
  <2> HIDE DEF s, e
  <2>4. x \in Centrals \cup Nat BY DEF Ids
  <2>5. /\ Began(c) /\ calls' \in [Calls -> {NoCall} \cup CallRecords]
        /\ calls'[c].op = "validate" /\ calls'[c].pc = "read" /\ calls'[c].arg = x
        /\ UNCHANGED <<clock, auth, access, sessions, minted, events, provisioning, history>>
    BY <1>0, <1>p, <1>q, <2>1, <2>3, <2>4, BeginEffect
  <2>6. CallOK(calls[c])' BY <2>5 DEF CallOK, OtherOK, auth, Ids
  <2> QED BY <1>0, <2>5, <2>6, SameShrinks DEF OneCall
<1> QED BY <1>1, <1>2, <1>3, <1>4, <1>5 DEF Starts

\* Which invariant a program counter calls for.
LEMMA Which ==
  ASSUME IInv, NEW c \in Calls, NEW p, At(c, p)
  PROVE  /\ Typed /\ calls[c] \in CallRecords /\ calls[c] # NoCall /\ calls[c].pc = p
         /\ p \in {"exchange", "purge", "check", "share", "insert"} => SignInOK(calls[c])
         /\ p = "lock" => SignInOK(calls[c]) \/ LogoutOK(calls[c])
         /\ p = "consume" => LogoutOK(calls[c])
         /\ p \in {"disable", "sweep", "read", "expire", "touch"} => OtherOK(calls[c])
         /\ p \in {"lock access", "version", "old", "upsert", "finish"} => AccessOK(calls[c])
<1>1. Typed BY DEF IInv
<1>2. calls[c] \in CallRecords /\ calls[c] # NoCall /\ calls[c].pc = p BY <1>1, AtType
<1>3. CallOK(calls[c]) BY <1>2 DEF IInv, CallsOK
<1> DEFINE k == calls[c]
<1>4. k.pc \notin {"exchange", "purge", "lock", "check", "share", "insert"} => ~SignInOK(k)
  BY DEF SignInOK
<1>5. k.pc \notin {"lock", "consume"} => ~LogoutOK(k) BY DEF LogoutOK
<1>6. k.pc \notin {"lock access", "version", "old", "upsert", "finish"} => ~AccessOK(k)
  BY DEF AccessOK
<1>7. k.pc \notin {"disable", "sweep", "read", "expire", "touch"} => ~OtherOK(k)
  BY DEF OtherOK
<1> QED BY <1>1, <1>2, <1>3, <1>4, <1>5, <1>6, <1>7 DEF CallOK

\* A sign-in that passes its check comes before any logout of its session: an
\* applied logout would still be remembered, and is no older than the exchange.
LEMMA CheckFinds ==
  ASSUME IInv, NEW c \in Calls, CheckLogout(c)
  PROVE  applied[calls[c].arg] = 0
<1> DEFINE k == calls[c]
           g == k.arg
<1>1. At(c, "check") BY DEF CheckLogout
<1>2. /\ k \in CallRecords /\ k # NoCall /\ k.pc = "check" /\ SignInOK(k) /\ Typed
  BY <1>1, Which
<1>3. /\ g \in Centrals /\ k.subject = Owner[g]
      /\ \/ central[g].state = "open"
         \/ central[g].state = "ended" /\ k.at <= central[g].at
  BY <1>2 DEF SignInOK
<1>4. k.started <= k.at /\ clock <= k.started + Span BY <1>2 DEF IInv, Timely
<1>5. /\ k.started \in Nat /\ k.at \in Nat /\ clock \in Nat /\ central[g].at \in Nat
      /\ TokenLife \in Nat /\ Span \in Nat
  BY <1>2, <1>3, SessionsAssumption DEF CallRecords, Typed
<1>6. ASSUME applied[g] # 0 PROVE FALSE
  <2>1. /\ central[g].state = "ended"
        /\ \/ \E ev \in events : ev.central = g /\ central[g].at <= ev.received
           \/ central[g].at + TokenLife + Span < clock
    BY <1>3, <1>6 DEF IInv, Remembered
  <2>2. k.at <= central[g].at BY <1>3, <2>1
  <2>3. CASE \E ev \in events : ev.central = g /\ central[g].at <= ev.received
    <3>1. PICK ev \in events : ev.central = g /\ central[g].at <= ev.received BY <2>3
    <3>2. ev.received < k.started BY <1>3, <3>1 DEF CheckLogout
    <3>3. ev.received \in Nat BY <1>2 DEF Typed, Events
    <3> HIDE DEF k, g
    <3> QED BY <1>4, <1>5, <2>2, <3>1, <3>2, <3>3
  <2>4. CASE central[g].at + TokenLife + Span < clock
    <3> HIDE DEF k, g
    <3> QED BY <1>4, <1>5, <2>2, <2>4
  <2> QED BY <2>1, <2>3, <2>4
<1> QED BY <1>6

\* Every later step of a call keeps what its program counter promises.
LEMMA WalksOK ==
  ASSUME IInv, NEW c \in Calls, Walks(c)
  PROVE  OneCall(c)
<1> DEFINE k == calls[c]
<1>0. Typed BY DEF IInv
<1>p. /\ "purge" \in Pcs /\ "lock" \in Pcs /\ "check" \in Pcs /\ "share" \in Pcs /\ "insert" \in Pcs
      /\ "consume" \in Pcs /\ "sweep" \in Pcs /\ "version" \in Pcs /\ "old" \in Pcs
      /\ "upsert" \in Pcs /\ "finish" \in Pcs /\ "expire" \in Pcs /\ "touch" \in Pcs
  BY DEF Pcs
<1>t. ASSUME NEW p, At(c, p)
      PROVE  /\ k \in CallRecords /\ k # NoCall /\ k.pc = p
             /\ k.subject \in Subjects /\ k.email \in Emails
             /\ <<"subject", k.subject>> \in LockKeys /\ <<"access", k.subject>> \in LockKeys
             /\ <<"share", k.email>> \in LockKeys /\ <<"row", k.email>> \in LockKeys
  <2>1. k \in CallRecords /\ k # NoCall /\ k.pc = p BY <1>t, Which
  <2>2. k.subject \in Subjects /\ k.email \in Emails BY <2>1 DEF CallRecords
  <2> HIDE DEF k
  <2> QED BY <2>1, <2>2 DEF LockKeys
<1>r. ASSUME Return(c), k # NoCall
      PROVE  /\ calls' \in [Calls -> {NoCall} \cup CallRecords] /\ Ended(c) /\ calls'[c] = NoCall
  BY <1>0, <1>r, ReturnEffect DEF Ended
<1>1. ASSUME Exchange(c) PROVE OneCall(c)
  <2>1. At(c, "exchange") BY <1>1 DEF Exchange
  <2>2. k \in CallRecords /\ k # NoCall /\ k.pc = "exchange" /\ SignInOK(k) BY <2>1, Which
  <2> DEFINE n == [k EXCEPT !.pc = "purge", !.at = clock]
  <2>3. n \in CallRecords BY <1>0, <1>p, <2>2 DEF CallRecords, Typed
  <2>4. /\ n.op = k.op /\ n.pc = "purge" /\ n.subject = k.subject /\ n.arg = k.arg
        /\ n.locks = k.locks /\ n.started = k.started /\ n.at = clock
    BY <2>2 DEF CallRecords
  <2>5. calls' = [calls EXCEPT ![c] = n] BY <1>1 DEF Exchange
  <2>6. UNCHANGED <<clock, auth, access, sessions, minted, events, provisioning, history>>
        /\ central[k.arg].state = "open"
    BY <1>1 DEF Exchange
  <2> HIDE DEF n
  <2>7. calls'[c] = n /\ \A d \in Calls \ {c} : calls'[d] = calls[d] BY <1>0, <2>5 DEF Typed
  <2>8. calls' \in [Calls -> {NoCall} \cup CallRecords] BY <1>0, <2>3, <2>5 DEF Typed
  <2>9. n # NoCall BY <2>3, RecordsRun
  <2>10. Advanced(c) BY <2>2, <2>3, <2>4, <2>7, <2>9 DEF Advanced
  <2>11. CallOK(calls[c])' BY <2>2, <2>4, <2>6, <2>7 DEF CallOK, SignInOK, auth
  <2> QED BY <1>0, <2>6, <2>8, <2>10, <2>11, SameShrinks DEF OneCall
<1>2. ASSUME PurgeSessions(c) PROVE OneCall(c)
  <2>1. At(c, "purge") /\ GoTo(c, "lock")
        /\ UNCHANGED <<clock, auth, access, minted, events, provisioning, history>>
    BY <1>2 DEF PurgeSessions
  <2>2. k \in CallRecords /\ k # NoCall /\ k.pc = "purge" /\ SignInOK(k) BY <2>1, Which
  <2>3. /\ Advanced(c) /\ Same(c) /\ calls' \in [Calls -> {NoCall} \cup CallRecords]
        /\ calls'[c].pc = "lock" /\ calls'[c].at = k.at
    BY <1>0, <1>p, <2>1, <2>2, GoToEffect
  <2>4. CallOK(calls[c])' BY <2>1, <2>2, <2>3 DEF CallOK, SignInOK, Same, auth
  <2> QED BY <1>0, <1>2, <2>1, <2>3, <2>4, PurgeShrinks DEF OneCall
<1>3. ASSUME lockSubject(c) PROVE OneCall(c)
  <2> DEFINE next == IF k.op = "signin" THEN "check" ELSE "consume"
             key  == <<"subject", k.subject>>
  <2>1. At(c, "lock") /\ Unheld(c, key) /\ Lock(c, key, next) BY <1>3 DEF lockSubject
  <2>2. k \in CallRecords /\ k # NoCall /\ k.pc = "lock" /\ (SignInOK(k) \/ LogoutOK(k)) BY <2>1, Which
  <2>3. key \in LockKeys /\ next \in Pcs /\ k.subject \in Subjects BY <1>p, <1>t, <2>1
  <2>4. Free(c, key) BY <2>1, <2>3 DEF Free
  <2>5. /\ Advanced(c) /\ Same(c) /\ calls' \in [Calls -> {NoCall} \cup CallRecords]
        /\ calls'[c].pc = next /\ calls'[c].at = k.at /\ calls'[c].locks = k.locks \cup {key}
        /\ UNCHANGED <<clock, auth, access, sessions, minted, events, provisioning, history>>
    <3> HIDE DEF next, key
    <3> QED BY <1>0, <2>1, <2>2, <2>3, <2>4, LockEffect
  <2>6. CASE SignInOK(k)
    <3>1. next = "check" BY <2>6 DEF SignInOK
    <3>2. SignInOK(calls[c])' BY <2>2, <2>5, <2>6, <3>1 DEF SignInOK, Same, auth
    <3> QED BY <1>0, <2>5, <3>2, SameShrinks DEF OneCall, CallOK
  <2>7. CASE LogoutOK(k)
    <3>1. next = "consume" BY <2>7 DEF LogoutOK
    <3>2. LogoutOK(calls[c])' BY <2>2, <2>5, <2>7, <3>1 DEF LogoutOK, Same, auth, Advanced
    <3> QED BY <1>0, <2>5, <3>2, SameShrinks DEF OneCall, CallOK
  <2> QED BY <2>2, <2>6, <2>7
<1>4. ASSUME CheckLogout(c) PROVE OneCall(c)
  <2>1. At(c, "check") /\ GoTo(c, "share")
        /\ UNCHANGED <<clock, auth, access, sessions, minted, events, provisioning, history>>
    BY <1>4 DEF CheckLogout
  <2>2. k \in CallRecords /\ k # NoCall /\ k.pc = "check" /\ SignInOK(k) BY <2>1, Which
  <2>3. /\ Advanced(c) /\ Same(c) /\ calls' \in [Calls -> {NoCall} \cup CallRecords]
        /\ calls'[c].pc = "share" /\ calls'[c].at = k.at /\ calls'[c].locks = k.locks
    BY <1>0, <1>p, <2>1, <2>2, GoToEffect
  <2>4. applied[k.arg] = 0 BY <1>4, CheckFinds
  <2>5. CallOK(calls[c])' BY <2>1, <2>2, <2>3, <2>4 DEF CallOK, SignInOK, Same, auth, history
  <2> QED BY <1>0, <2>1, <2>3, <2>5, SameShrinks DEF OneCall
<1>5. ASSUME ShareAccess(c) PROVE OneCall(c)
  <2> DEFINE key == <<"share", k.email>>
  <2>1. /\ At(c, "share") /\ MayShare(c, k.email) /\ access[k.email] = "enabled"
        /\ Lock(c, key, "insert")
    BY <1>5 DEF ShareAccess
  <2>2. k \in CallRecords /\ k # NoCall /\ k.pc = "share" /\ SignInOK(k) BY <2>1, Which
  <2>3. key \in LockKeys /\ k.email \in Emails BY <1>t, <2>1
  <2>4. Free(c, key) BY <2>1, <2>3 DEF Free
  <2>5. /\ Advanced(c) /\ Same(c) /\ calls' \in [Calls -> {NoCall} \cup CallRecords]
        /\ calls'[c].pc = "insert" /\ calls'[c].at = k.at /\ calls'[c].locks = k.locks \cup {key}
        /\ UNCHANGED <<clock, auth, access, sessions, minted, events, provisioning, history>>
    <3> HIDE DEF key
    <3> QED BY <1>0, <1>p, <2>1, <2>2, <2>3, <2>4, LockEffect
  <2>6. SignInOK(calls[c])' BY <2>1, <2>2, <2>5 DEF SignInOK, Same, auth, history
  <2> QED BY <1>0, <2>5, <2>6, SameShrinks DEF OneCall, CallOK
<1>6. ASSUME DisableRow(c) PROVE OneCall(c)
  <2> DEFINE key == <<"row", k.email>>
  <2>1. At(c, "disable") BY <1>6 DEF DisableRow
  <2>2. k \in CallRecords /\ k # NoCall /\ k.pc = "disable" /\ OtherOK(k) BY <2>1, Which
  <2>3. key \in LockKeys /\ k.email \in Emails BY <1>t, <2>1
  <2>4. CASE MayUpdate(c, k.email) /\ Lock(c, key, "sweep")
    <3>1. Free(c, key) BY <2>3, <2>4 DEF Free
    <3>2. /\ Advanced(c) /\ Same(c) /\ calls' \in [Calls -> {NoCall} \cup CallRecords]
          /\ calls'[c].pc = "sweep"
          /\ UNCHANGED <<clock, auth, access, sessions, minted, events, provisioning, history>>
      <4> HIDE DEF key
      <4> QED BY <1>0, <1>p, <2>2, <2>3, <2>4, <3>1, LockEffect
    <3>3. OtherOK(calls[c])' BY <2>2, <3>2 DEF OtherOK, Same
    <3> QED BY <1>0, <3>2, <3>3, SameShrinks DEF OneCall, CallOK
  <2>5. CASE /\ GoTo(c, "sweep")
             /\ UNCHANGED <<clock, auth, access, sessions, minted, events, provisioning, history>>
    <3>1. /\ Advanced(c) /\ Same(c) /\ calls' \in [Calls -> {NoCall} \cup CallRecords]
          /\ calls'[c].pc = "sweep"
      BY <1>0, <1>p, <2>2, <2>5, GoToEffect
    <3>2. OtherOK(calls[c])' BY <2>2, <3>1 DEF OtherOK, Same
    <3> QED BY <1>0, <2>5, <3>1, <3>2, SameShrinks DEF OneCall, CallOK
  <2> QED BY <1>6, <2>4, <2>5 DEF DisableRow
<1>7. ASSUME LockProvisioning(c) PROVE OneCall(c)
  <2> DEFINE key == <<"access", k.subject>>
  <2>1. At(c, "lock access") /\ Unheld(c, key) /\ Lock(c, key, "version")
    BY <1>7 DEF LockProvisioning
  <2>2. k \in CallRecords /\ k # NoCall /\ k.pc = "lock access" /\ AccessOK(k) BY <2>1, Which
  <2>3. key \in LockKeys /\ k.subject \in Subjects BY <1>t, <2>1
  <2>4. Free(c, key) BY <2>1, <2>3 DEF Free
  <2>5. /\ Advanced(c) /\ Same(c) /\ calls' \in [Calls -> {NoCall} \cup CallRecords]
        /\ calls'[c].pc = "version" /\ calls'[c].locks = k.locks \cup {key}
        /\ UNCHANGED <<clock, auth, access, sessions, minted, events, provisioning, history>>
    <3> HIDE DEF key
    <3> QED BY <1>0, <1>p, <2>1, <2>2, <2>3, <2>4, LockEffect
  <2>6. AccessOK(calls[c])' BY <2>2, <2>5 DEF AccessOK, Same, auth
  <2> QED BY <1>0, <2>5, <2>6, SameShrinks DEF OneCall, CallOK
<1>8. ASSUME CheckVersion(c) PROVE OneCall(c)
  <2> DEFINE p == provisioning[k.subject]
             next == IF p.version # 0 /\ p.email # k.email THEN "old" ELSE "upsert"
  <2>1. /\ At(c, "version")
        /\ UNCHANGED <<clock, auth, access, sessions, minted, events, provisioning, history>>
        /\ \/ Return(c)
           \/ ~(p.version >= k.arg) /\ GoTo(c, next)
    BY <1>8 DEF CheckVersion
  <2>2. k \in CallRecords /\ k # NoCall /\ k.pc = "version" /\ AccessOK(k) BY <2>1, Which
  <2>3. CASE Return(c) BY <1>0, <1>r, <2>1, <2>2, <2>3, SameShrinks DEF OneCall
  <2>4. CASE ~(p.version >= k.arg) /\ GoTo(c, next)
    <3>1. next \in Pcs BY <1>p
    <3>2. /\ Advanced(c) /\ Same(c) /\ calls' \in [Calls -> {NoCall} \cup CallRecords]
          /\ calls'[c].pc = next /\ calls'[c].locks = k.locks
      <4> HIDE DEF next
      <4> QED BY <1>0, <2>2, <2>4, <3>1, GoToEffect
    <3>3. p.version < k.arg
      <4>1. k.subject \in Subjects /\ k.arg \in Nat BY <1>t, <2>1, <2>2 DEF AccessOK
      <4>2. p.version \in Nat BY <1>0, <4>1 DEF Typed, Provisions
      <4> QED BY <2>4, <4>1, <4>2
    <3>4. AccessOK(calls[c])' BY <2>1, <2>2, <3>2, <3>3 DEF AccessOK, Same, auth
    <3> QED BY <1>0, <2>1, <3>2, <3>4, SameShrinks DEF OneCall, CallOK
  <2> QED BY <2>1, <2>3, <2>4
<1>9. ASSUME DisableOld(c) PROVE OneCall(c)
  <2> DEFINE old == provisioning[k.subject].email
             key == <<"row", old>>
             n == [k EXCEPT !.locks = k.locks \cup {key}, !.doomed = LiveOf(old), !.pc = "upsert"]
  <2>1. /\ At(c, "old") /\ MayUpdate(c, old)
        /\ UNCHANGED <<clock, auth, access, sessions, minted, events, provisioning, history>>
    BY <1>9 DEF DisableOld
  <2>2. k \in CallRecords /\ k # NoCall /\ k.pc = "old" /\ AccessOK(k) BY <2>1, Which
  <2>3. calls' = [calls EXCEPT ![c] = n] BY <1>0, <1>9 DEF DisableOld, Typed
  <2>4. old \in Emails \cup {AnyEmail}
    <3>1. k.subject \in Subjects BY <1>t, <2>1
    <3> QED BY <1>0, <3>1 DEF Typed, Provisions
  <2>5. key \in LockKeys BY <2>4 DEF LockKeys
  <2>6. k.locks \cup {key} \in SUBSET LockKeys BY <2>2, <2>5 DEF CallRecords
  <2>7. LiveOf(old) \in SUBSET Nat BY DEF LiveOf, Ids
  <2> DEFINE ks == k.locks \cup {key}
             dm == LiveOf(old)
  <2> HIDE DEF key, old
  <2>8. n \in CallRecords /\ n.op = k.op /\ n.pc = "upsert" /\ n.subject = k.subject
        /\ n.email = k.email /\ n.arg = k.arg /\ n.started = k.started /\ n.at = k.at
        /\ n.locks = ks /\ n.doomed = dm
    <3>1. ks \in SUBSET LockKeys /\ dm \in SUBSET Nat /\ n = [k EXCEPT !.locks = ks, !.doomed = dm, !.pc = "upsert"]
      BY <2>6, <2>7
    <3> HIDE DEF ks, dm, n, k
    <3> QED BY <1>p, <2>2, <3>1 DEF CallRecords
  <2> HIDE DEF n
  <2>9. calls'[c] = n /\ \A d \in Calls \ {c} : calls'[d] = calls[d] BY <1>0, <2>3 DEF Typed
  <2>10. calls' \in [Calls -> {NoCall} \cup CallRecords] BY <1>0, <2>3, <2>8 DEF Typed
  <2>11. Free(c, key) BY <2>1, <2>4 DEF Free, key
  <2>12. Advanced(c) BY <2>2, <2>5, <2>8, <2>9, <2>11, RecordsRun DEF Advanced
  <2>13. Leaving(n, old)
    BY <2>8 DEF Leaving, LiveOf, key
  <2>14. AccessOK(calls[c])' BY <2>1, <2>2, <2>8, <2>9, <2>13, ZenonT(60) DEF AccessOK, Leaving, auth, old, Live, Ids
  <2> QED BY <1>0, <2>1, <2>10, <2>12, <2>14, SameShrinks DEF OneCall, CallOK
<1>10. ASSUME UpsertAccess(c) PROVE OneCall(c)
  <2> DEFINE key == <<"row", k.email>>
  <2>1. At(c, "upsert") /\ MayUpdate(c, k.email) /\ Lock(c, key, "finish")
    BY <1>10 DEF UpsertAccess
  <2>2. k \in CallRecords /\ k # NoCall /\ k.pc = "upsert" /\ AccessOK(k) BY <2>1, Which
  <2>3. key \in LockKeys /\ k.email \in Emails BY <1>t, <2>1
  <2>4. Free(c, key) BY <2>1, <2>3 DEF Free
  <2>5. /\ Advanced(c) /\ Same(c) /\ calls' \in [Calls -> {NoCall} \cup CallRecords]
        /\ calls'[c].pc = "finish" /\ calls'[c].locks = k.locks \cup {key}
        /\ calls'[c].doomed = k.doomed
        /\ UNCHANGED <<clock, auth, access, sessions, minted, events, provisioning, history>>
    <3> HIDE DEF key
    <3> QED BY <1>0, <1>p, <2>1, <2>2, <2>3, <2>4, LockEffect
  <2>6. AccessOK(calls[c])' BY <2>2, <2>5 DEF AccessOK, Leaving, Same, auth, Live, Ids
  <2> QED BY <1>0, <2>5, <2>6, SameShrinks DEF OneCall, CallOK
<1>11. ASSUME ReadSession(c) PROVE OneCall(c)
  <2>1. /\ At(c, "read")
        /\ UNCHANGED <<clock, auth, access, minted, events, provisioning, history>>
        /\ Return(c) \/ GoTo(c, "expire") \/ GoTo(c, "touch")
    BY <1>11 DEF ReadSession
  <2>2. k \in CallRecords /\ k # NoCall /\ k.pc = "read" /\ OtherOK(k) BY <2>1, Which
  <2>3. sessions' \in [Ids -> {NoSession} \cup Rows] /\ Shrunk BY <1>0, <1>11, ReadShrinks DEF IInv
  <2>4. CASE Return(c) BY <1>r, <2>1, <2>2, <2>3, <2>4 DEF OneCall
  <2>5. ASSUME NEW p \in {"expire", "touch"}, GoTo(c, p) PROVE OneCall(c)
    <3>1. /\ Advanced(c) /\ Same(c) /\ calls' \in [Calls -> {NoCall} \cup CallRecords]
          /\ calls'[c].pc = p
      BY <1>0, <1>p, <2>2, <2>5, GoToEffect
    <3>2. OtherOK(calls[c])' BY <2>1, <2>2, <3>1 DEF OtherOK, Same, auth, Ids
    <3> QED BY <2>1, <2>3, <3>1, <3>2 DEF OneCall, CallOK
  <2> QED BY <2>1, <2>4, <2>5
<1>12. ASSUME ExpireSession(c) PROVE OneCall(c)
  <2>1. /\ At(c, "expire") /\ Return(c) /\ sessions' = Revoked({k.arg}, "expired")
        /\ UNCHANGED <<clock, auth, access, minted, events, provisioning, history>>
    BY <1>12 DEF ExpireSession
  <2>2. k # NoCall BY <2>1, Which
  <2>3. sessions' \in [Ids -> {NoSession} \cup Rows] /\ Shrunk
    BY <1>0, <2>1, RevokedShrinks DEF Reasons
  <2> QED BY <1>r, <2>1, <2>2, <2>3 DEF OneCall
<1>13. ASSUME TouchSession(c) PROVE OneCall(c)
  <2>1. /\ At(c, "touch") /\ Return(c)
        /\ UNCHANGED <<clock, auth, access, minted, events, provisioning, history>>
    BY <1>13 DEF TouchSession
  <2>2. k # NoCall BY <2>1, Which
  <2>3. sessions' \in [Ids -> {NoSession} \cup Rows] /\ Shrunk BY <1>0, <1>13, TouchShrinks DEF IInv
  <2> QED BY <1>r, <2>1, <2>2, <2>3 DEF OneCall
<1>14. ASSUME Rollback(c) PROVE OneCall(c)
  <2>1. /\ k # NoCall /\ Return(c)
        /\ UNCHANGED <<clock, auth, access, sessions, minted, events, provisioning, history>>
    BY <1>14 DEF Rollback
  <2> QED BY <1>0, <1>r, <2>1, SameShrinks DEF OneCall
<1> QED BY <1>1, <1>2, <1>3, <1>4, <1>5, <1>6, <1>7, <1>8, <1>9, <1>10, <1>11, <1>12, <1>13, <1>14
    DEF Walks

---------------------------------------------------------------------------
(* The invariant under the steps of one call.                              *)

LEMMA LocksStep ==
  ASSUME Typed, LocksExclusive, NEW c \in Calls, Began(c) \/ Advanced(c) \/ Ended(c)
  PROVE  LocksExclusive'
<1>1. \A d \in Calls \ {c} : calls'[d].locks = calls[d].locks BY DEF Began, Advanced, Ended
<1>2. CASE calls'[c].locks = {}
  BY <1>1, <1>2 DEF LocksExclusive
<1>3. CASE calls'[c].locks = calls[c].locks
  BY <1>1, <1>3 DEF LocksExclusive
<1>4. CASE \E k \in LockKeys : calls'[c].locks = calls[c].locks \cup {k} /\ Free(c, k)
  <2>1. PICK k \in LockKeys : calls'[c].locks = calls[c].locks \cup {k} /\ Free(c, k) BY <1>4
  <2>2. CASE \E s \in Subjects : k \in {<<"subject", s>>, <<"access", s>>} /\ Unheld(c, k)
    BY <1>1, <2>1, <2>2 DEF LocksExclusive, Unheld
  <2>3. CASE \E e \in Emails \cup {AnyEmail} : k = <<"share", e>> /\ MayShare(c, e)
    BY <1>1, <2>1, <2>3 DEF LocksExclusive, Unheld, MayShare
  <2>4. CASE \E e \in Emails \cup {AnyEmail} : k = <<"row", e>> /\ MayUpdate(c, e)
    BY <1>1, <2>1, <2>4 DEF LocksExclusive, Unheld, MayUpdate
  <2> QED BY <2>1, <2>2, <2>3, <2>4 DEF Free
<1>5. CASE Ended(c) BY <1>2, <1>5 DEF Ended, NoCall
<1> QED BY <1>2, <1>3, <1>4, <1>5 DEF Began, Advanced

\* Calls keep their times while the clock stands.
LEMMA TimelyStep ==
  ASSUME Typed, Timely, UNCHANGED clock, NEW c \in Calls, Began(c) \/ Advanced(c) \/ Ended(c)
  PROVE  Timely'
<1>1. Span \in Nat /\ clock \in Nat BY SessionsAssumption DEF Typed
<1>2. SUFFICES ASSUME NEW d \in Calls, calls'[d] # NoCall
               PROVE  /\ calls'[d].started <= calls'[d].at /\ calls'[d].at <= clock
                      /\ clock <= calls'[d].started + Span
  BY DEF Timely
<1>3. CASE d # c BY <1>2, <1>3 DEF Timely, Began, Advanced, Ended
<1>4. CASE d = c /\ Began(c) BY <1>1, <1>4 DEF Began
<1>5. CASE d = c /\ Advanced(c)
  <2>1. /\ calls[c].started <= calls[c].at /\ calls[c].at <= clock
        /\ clock <= calls[c].started + Span
    BY <1>5 DEF Timely, Advanced
  <2>2. calls[c] \in CallRecords BY <1>5, RunningType DEF Advanced
  <2>3. calls[c].started \in Nat /\ calls[c].at \in Nat BY <2>2 DEF CallRecords
  <2> QED BY <1>1, <1>5, <2>1, <2>3 DEF Advanced
<1>6. CASE d = c /\ Ended(c) BY <1>2, <1>6 DEF Ended
<1> QED BY <1>3, <1>4, <1>5, <1>6

\* A call that is not concerned keeps its invariant while only sessions end.
LEMMA OtherCalls ==
  ASSUME Typed, NEW d \in Calls, CallOK(calls[d]), calls'[d] = calls[d], Shrunk,
         UNCHANGED <<mix, central, issued, access, provisioning, applied>>
  PROVE  CallOK(calls[d])'
<1>1. CASE SignInOK(calls[d]) BY <1>1 DEF CallOK, SignInOK
<1>2. CASE LogoutOK(calls[d]) BY <1>2 DEF CallOK, LogoutOK
<1>3. CASE AccessOK(calls[d])
  <2>1. \A old : Leaving(calls[d], old) => Leaving(calls[d], old)'
    BY DEF Leaving, Shrunk, Live, Ids
  <2> QED BY <1>3, <2>1 DEF CallOK, AccessOK
<1>4. CASE OtherOK(calls[d]) BY <1>4 DEF CallOK, OtherOK, Ids
<1> QED BY <1>1, <1>2, <1>3, <1>4 DEF CallOK

\* Ending sessions keeps what is said of the live ones.
LEMMA ShrunkKeeps ==
  ASSUME Shrunk, UNCHANGED mix, SessionsOwned, LogoutFinal, SessionsEnabled
  PROVE  /\ SessionsOwned'
         /\ UNCHANGED applied => LogoutFinal'
         /\ UNCHANGED access => SessionsEnabled'
BY DEF Shrunk, Live, Ids, SessionsOwned, LogoutFinal, SessionsEnabled

LEMMA OneCallKeeps ==
  ASSUME IInv, NEW c \in Calls, OneCall(c)
  PROVE  IInv'
<1>0. Typed BY DEF IInv
<1>1. UNCHANGED <<clock, mix, central, issued, access, minted, events, provisioning, applied, newest, manual>>
  BY DEF OneCall, auth, history
<1>2. Typed' BY <1>0, <1>1 DEF OneCall, Typed, Ids
<1>3. LocksExclusive' BY <1>0, LocksStep DEF IInv, OneCall
<1>4. Timely' BY <1>0, <1>1, TimelyStep DEF IInv, OneCall
<1>5. CallsOK'
  <2>1. SUFFICES ASSUME NEW d \in Calls, calls'[d] # NoCall PROVE CallOK(calls[d])'
    BY DEF CallsOK
  <2>2. CASE d = c BY <2>1, <2>2 DEF OneCall
  <2>3. CASE d # c
    <3>1. calls'[d] = calls[d] BY <2>3 DEF OneCall, Began, Advanced, Ended
    <3>2. CallOK(calls[d]) BY <2>1, <3>1 DEF IInv, CallsOK
    <3> QED BY <1>0, <1>1, <3>1, <3>2, OtherCalls DEF OneCall
  <2> QED BY <2>2, <2>3
<1>6. Remembered' /\ EndedBefore' /\ Provisioned' /\ Listed' /\ ReplayHarmless'
  BY <1>1 DEF IInv, Remembered, EndedBefore, Provisioned, Listed, ReplayHarmless
<1>7. SessionsOwned' /\ LogoutFinal' /\ SessionsEnabled'
  BY <1>1, ShrunkKeeps DEF IInv, OneCall
<1> QED BY <1>2, <1>3, <1>4, <1>5, <1>6, <1>7 DEF IInv

---------------------------------------------------------------------------
(* The invariant under the steps that write the shared tables.             *)

\* The insert of a session: its address is shared and on the list, and no logout
\* of its central session was applied.
LEMMA InsertKeeps ==
  ASSUME IInv, NEW c \in Calls, InsertSession(c)
  PROVE  IInv'
<1> DEFINE k == calls[c]
           n == minted + 1
           row == [live |-> TRUE, kept |-> TRUE, subject |-> k.subject, email |-> k.email,
                   central |-> k.arg, lastSeen |-> k.at, absolute |-> k.at + Absolute,
                   idle |-> Lesser(k.at + IdleLimit, k.at + Absolute), used |-> k.at, why |-> "live"]
<1>1. /\ At(c, "insert") /\ minted < mix.sessions /\ minted' = n
      /\ sessions' = [sessions EXCEPT ![n] = row] /\ Return(c)
      /\ UNCHANGED <<clock, auth, access, events, provisioning, history>>
  BY DEF InsertSession
<1>2. Typed /\ k \in CallRecords /\ k # NoCall /\ k.pc = "insert" /\ SignInOK(k) BY <1>1, Which
<1>3. UNCHANGED <<clock, mix, central, issued, access, events, provisioning, applied, newest, manual>>
  BY <1>1 DEF auth, history
<1>4. /\ k.arg \in Centrals /\ k.subject = Owner[k.arg] /\ applied[k.arg] = 0
      /\ <<"share", k.email>> \in k.locks /\ access[k.email] = "enabled"
      /\ k.op = "signin"
  BY <1>2 DEF SignInOK
<1>5. row \in Rows
  <2>1. k.at \in Nat /\ k.subject \in Subjects /\ k.email \in Emails BY <1>2 DEF CallRecords
  <2>2. k.at + Absolute \in Nat /\ k.at + IdleLimit \in Nat BY <2>1, SessionsAssumption
  <2>3. Lesser(k.at + IdleLimit, k.at + Absolute) \in Nat BY <2>2 DEF Lesser
  <2> HIDE DEF k
  <2> QED BY <1>4, <2>1, <2>2, <2>3 DEF Rows, Reasons
<1>6. row.live = TRUE /\ row.subject = k.subject /\ row.email = k.email /\ row.central = k.arg
  OBVIOUS
<1> HIDE DEF row
<1>7. Ended(c) /\ calls' \in [Calls -> {NoCall} \cup CallRecords] BY <1>1, <1>2, ReturnEffect
<1>8. n \in Ids /\ n \in Nat
  <2>1. minted \in Nat /\ mix.sessions \in Nat BY <1>2, SessionsAssumption DEF Typed
  <2> QED BY <1>1, <2>1 DEF Ids
<1>9. /\ sessions' \in [Ids -> {NoSession} \cup Rows] /\ sessions'[n] = row
      /\ \A x \in Ids : x # n => sessions'[x] = sessions[x]
  BY <1>1, <1>2, <1>5, <1>8 DEF Typed
<1> HIDE DEF k
<1>10. Typed' BY <1>1, <1>2, <1>3, <1>7, <1>8, <1>9 DEF Typed, Ids
<1>11. LocksExclusive' /\ Timely' BY <1>2, <1>3, <1>7, LocksStep, TimelyStep DEF IInv
<1>12. CallsOK'
  <2>1. SUFFICES ASSUME NEW d \in Calls, calls'[d] # NoCall PROVE CallOK(calls[d])'
    BY DEF CallsOK
  <2>2. d # c /\ calls'[d] = calls[d] BY <1>7, <2>1 DEF Ended
  <2>3. CallOK(calls[d]) BY <2>1, <2>2 DEF IInv, CallsOK
  <2>4. CASE SignInOK(calls[d]) BY <1>3, <2>2, <2>4 DEF CallOK, SignInOK
  <2>5. CASE LogoutOK(calls[d]) BY <1>3, <2>2, <2>5 DEF CallOK, LogoutOK
  <2>6. CASE AccessOK(calls[d])
    \* A row being left is locked, so the inserted session is not of its address.
    <3>1. \A old : Leaving(calls[d], old) => old # k.email
      <4>1. k.email \in Emails BY <1>2 DEF CallRecords
      <4> QED BY <1>4, <2>2, <4>1 DEF IInv, LocksExclusive, Leaving, k
    <3>2. ASSUME NEW old, Leaving(calls[d], old) PROVE Leaving(calls[d], old)'
      <4>1. old # k.email BY <3>1, <3>2
      <4> QED BY <1>3, <1>6, <1>9, <2>2, <3>2, <4>1 DEF Leaving, Live, Ids
    <3> QED BY <1>3, <2>2, <2>6, <3>2 DEF CallOK, AccessOK
  <2>7. CASE OtherOK(calls[d]) BY <1>3, <2>2, <2>7 DEF CallOK, OtherOK, Ids
  <2> QED BY <2>3, <2>4, <2>5, <2>6, <2>7 DEF CallOK
<1>13. Remembered' /\ EndedBefore' /\ Provisioned' /\ Listed' /\ ReplayHarmless'
  BY <1>3 DEF IInv, Remembered, EndedBefore, Provisioned, Listed, ReplayHarmless
<1>14. SessionsOwned' /\ LogoutFinal' /\ SessionsEnabled'
  BY <1>3, <1>4, <1>6, <1>9 DEF IInv, SessionsOwned, LogoutFinal, SessionsEnabled, Live, Ids
<1> QED BY <1>10, <1>11, <1>12, <1>13, <1>14 DEF IInv

\* A logout: replayed, it is still remembered; new, it ends the sessions of its
\* subject, whose lock keeps checked sign-ins out.
LEMMA ConsumeKeeps ==
  ASSUME IInv, NEW c \in Calls, ConsumeLogoutEvent(c)
  PROVE  IInv'
<1> DEFINE k == calls[c]
           g == k.arg
           kept == {ev \in events : ev.received >= k.at - Retention}
           gone == {x \in Ids : Live(x) /\ sessions[x].subject = k.subject}
           new == [central |-> g, received |-> k.at]
<1>1. /\ At(c, "consume") /\ Return(c)
      /\ UNCHANGED <<clock, auth, access, minted, provisioning, newest, manual>>
      /\ \/ /\ \E ev \in kept : ev.central = g
            /\ events' = kept /\ UNCHANGED <<sessions, applied>>
         \/ /\ \A ev \in kept : ev.central # g
            /\ events' = kept \cup {new}
            /\ sessions' = Revoked(gone, "logout")
            /\ applied' = [applied EXCEPT ![g] = @ + 1]
  BY DEF ConsumeLogoutEvent
<1>2. Typed /\ k \in CallRecords /\ k # NoCall /\ k.pc = "consume" /\ LogoutOK(k) BY <1>1, Which
<1>3. UNCHANGED <<clock, mix, central, issued, access, minted, provisioning, newest, manual>>
  BY <1>1 DEF auth
<1>4. /\ g \in Centrals /\ k.subject = Owner[g] /\ k.subject \in Subjects
      /\ central[g].state = "ended" /\ central[g].at <= k.at
      /\ k.at <= central[g].at + TokenLife /\ k.at = k.started
      /\ <<"subject", k.subject>> \in k.locks
  BY <1>2 DEF LogoutOK, CallRecords
<1>5. k.at <= clock /\ clock <= k.at + Span BY <1>2, <1>4 DEF IInv, Timely
<1>6. /\ k.at \in Nat /\ clock \in Nat /\ central[g].at \in Nat
      /\ TokenLife \in Nat /\ Span \in Nat /\ Retention \in Nat /\ TokenLife + Span <= Retention
  BY <1>2, <1>4, SessionsAssumption, AuthAssumption DEF CallRecords, Typed
<1>7. Ended(c) /\ calls' \in [Calls -> {NoCall} \cup CallRecords] BY <1>1, <1>2, ReturnEffect
<1>8. sessions' \in [Ids -> {NoSession} \cup Rows] /\ Shrunk
  BY <1>1, <1>2, RevokedShrinks, SameShrinks DEF Reasons
<1>9. new \in Events BY <1>4, <1>6 DEF Events
<1>10. kept \subseteq Events BY <1>2 DEF Typed
<1>11. new.central = g /\ new.received = k.at OBVIOUS
<1> HIDE DEF new, k, g
<1>12. applied' \in [Centrals -> Nat] BY <1>1, <1>2, <1>4 DEF Typed
<1>13. events' \in SUBSET Events BY <1>1, <1>9, <1>10
<1>14. Typed' BY <1>2, <1>3, <1>7, <1>8, <1>12, <1>13 DEF Typed, Ids
<1>15. LocksExclusive' /\ Timely' BY <1>2, <1>3, <1>7, LocksStep, TimelyStep DEF IInv
\* A logout that is new to the table is new: its event would not have been dropped.
<1>16. (\A ev \in kept : ev.central # g) => applied[g] = 0
  <2>1. SUFFICES ASSUME \A ev \in kept : ev.central # g, applied[g] # 0 PROVE FALSE
    OBVIOUS
  <2>2. CASE \E ev \in events : ev.central = g /\ central[g].at <= ev.received
    <3>1. PICK ev \in events : ev.central = g /\ central[g].at <= ev.received BY <2>2
    <3>2. ev.received \in Nat BY <1>2 DEF Typed, Events
    <3>3. ev.received >= k.at - Retention BY <1>4, <1>6, <3>1, <3>2
    <3> QED BY <2>1, <3>1, <3>3
  <2>3. CASE central[g].at + TokenLife + Span < clock BY <1>4, <1>5, <1>6, <2>3
  <2> QED BY <1>4, <2>1, <2>2, <2>3 DEF IInv, Remembered
<1>17. \A h \in Centrals : h # g => applied'[h] = applied[h] BY <1>1, <1>2 DEF Typed
<1>18. ReplayHarmless'
  <2>1. applied'[g] <= 1
    <3>1. CASE \A ev \in kept : ev.central # g BY <1>1, <1>2, <1>4, <1>16, <3>1 DEF Typed
    <3>2. CASE UNCHANGED applied BY <1>4, <3>2 DEF IInv, ReplayHarmless
    <3> QED BY <1>1, <3>1, <3>2
  <2> QED BY <1>17, <2>1 DEF IInv, ReplayHarmless
<1>19. Remembered'
  <2>1. SUFFICES ASSUME NEW h \in Centrals, applied'[h] # 0
                 PROVE  /\ central[h].state = "ended"
                        /\ \/ \E ev \in events' : ev.central = h /\ central[h].at <= ev.received
                           \/ central[h].at + TokenLife + Span < clock
    BY <1>3 DEF Remembered
  <2>2. CASE h = g
    <3>1. CASE \E ev \in kept : ev.central = g /\ events' = kept
      <4>1. applied[g] # 0 \/ \A ev \in kept : ev.central # g
        BY <1>1, <2>1, <2>2
      <4>2. applied[g] # 0 BY <3>1, <4>1
      <4>3. \/ \E ev \in events : ev.central = g /\ central[g].at <= ev.received
            \/ central[g].at + TokenLife + Span < clock
        BY <1>4, <4>2 DEF IInv, Remembered
      <4>4. ~(central[g].at + TokenLife + Span < clock) BY <1>4, <1>5, <1>6
      <4>5. PICK ev \in events : ev.central = g /\ central[g].at <= ev.received BY <4>3, <4>4
      <4>6. ev.received \in Nat BY <1>2 DEF Typed, Events
      <4>7. ev \in kept BY <1>4, <1>6, <4>5, <4>6
      <4> QED BY <1>4, <2>2, <3>1, <4>5, <4>7
    <3>2. CASE new \in events' BY <1>4, <1>11, <2>2, <3>2
    <3> QED BY <1>1, <3>1, <3>2
  <2>3. CASE h # g
    <3>1. applied[h] # 0 BY <1>17, <2>1, <2>3
    <3>2. central[h].state = "ended" BY <3>1 DEF IInv, Remembered
    <3>3. CASE \E ev \in events : ev.central = h /\ central[h].at <= ev.received
      <4>1. PICK ev \in events : ev.central = h /\ central[h].at <= ev.received BY <3>3
      <4>2. ev.received \in Nat /\ central[h].at \in Nat BY <1>2 DEF Typed, Events
      <4>3. CASE ev \in kept BY <1>1, <3>2, <4>1, <4>3
      <4>4. CASE ev \notin kept
        <5>1. ev.received < k.at - Retention BY <1>6, <4>1, <4>2, <4>4
        <5>2. central[h].at + TokenLife + Span < clock BY <1>5, <1>6, <4>1, <4>2, <5>1
        <5> QED BY <3>2, <5>2
      <4> QED BY <4>3, <4>4
    <3>4. CASE central[h].at + TokenLife + Span < clock BY <3>2, <3>4
    <3> QED BY <3>1, <3>3, <3>4 DEF IInv, Remembered
  <2> QED BY <2>2, <2>3
<1>20. CallsOK'
  <2>1. SUFFICES ASSUME NEW d \in Calls, calls'[d] # NoCall PROVE CallOK(calls[d])'
    BY DEF CallsOK
  <2>2. d # c /\ calls'[d] = calls[d] BY <1>7, <2>1 DEF Ended
  <2>3. CallOK(calls[d]) BY <2>1, <2>2 DEF IInv, CallsOK
  <2>4. CASE SignInOK(calls[d])
    \* A sign-in past its check holds the subject, and so does this logout.
    <3>1. calls[d].pc \in {"share", "insert"} => calls[d].arg # g
      <4>1. SUFFICES ASSUME calls[d].pc \in {"share", "insert"}, calls[d].arg = g PROVE FALSE
        OBVIOUS
      <4>2. <<"subject", k.subject>> \in calls[d].locks BY <1>4, <2>4, <4>1 DEF SignInOK
      <4> QED BY <1>4, <2>2, <4>2 DEF IInv, LocksExclusive, k
    <3>2. calls[d].pc \in {"share", "insert"} => applied'[calls[d].arg] = 0
      BY <1>17, <2>4, <3>1 DEF SignInOK
    <3> QED BY <1>3, <2>2, <2>4, <3>2 DEF CallOK, SignInOK
  <2>5. CASE LogoutOK(calls[d]) BY <1>3, <2>2, <2>5 DEF CallOK, LogoutOK
  <2>6. CASE AccessOK(calls[d])
    <3>1. \A old : Leaving(calls[d], old) => Leaving(calls[d], old)'
      BY <1>3, <1>8, <2>2 DEF Leaving, Shrunk, Live, Ids
    <3> QED BY <1>3, <2>2, <2>6, <3>1 DEF CallOK, AccessOK
  <2>7. CASE OtherOK(calls[d]) BY <1>3, <2>2, <2>7 DEF CallOK, OtherOK, Ids
  <2> QED BY <2>3, <2>4, <2>5, <2>6, <2>7 DEF CallOK
<1>21. EndedBefore' /\ Provisioned' /\ Listed'
  BY <1>3 DEF IInv, EndedBefore, Provisioned, Listed
<1>22. SessionsOwned' /\ SessionsEnabled' BY <1>3, <1>8, ShrunkKeeps DEF IInv
<1>23. LogoutFinal'
  <2>1. SUFFICES ASSUME NEW x \in Ids, sessions'[x].live PROVE applied'[sessions'[x].central] = 0
    BY <1>3 DEF LogoutFinal, Live, Ids
  <2>2. /\ Live(x) /\ sessions'[x].central = sessions[x].central
        /\ applied[sessions[x].central] = 0 /\ sessions[x].subject = Owner[sessions[x].central]
    BY <1>8, <2>1 DEF Shrunk, IInv, LogoutFinal, SessionsOwned
  <2>3. sessions[x].central \in Centrals BY <1>2, <2>2, LiveRow DEF Rows
  <2>4. CASE sessions' = Revoked(gone, "logout")
    <3>1. x \notin gone BY <1>2, <2>1, <2>4, RevokedShrinks DEF Reasons
    <3>2. sessions[x].central # g BY <1>4, <2>2, <3>1
    <3> QED BY <1>17, <2>2, <2>3, <3>2
  <2>5. CASE UNCHANGED applied BY <2>2, <2>5
  <2> QED BY <1>1, <2>4, <2>5
<1> QED BY <1>14, <1>15, <1>18, <1>19, <1>20, <1>21, <1>22, <1>23 DEF IInv

\* `pages access revoke`: the address goes off the list only with its row held,
\* and its sessions end with it.
LEMMA RevokeAccessKeeps ==
  ASSUME IInv, NEW c \in Calls, RevokeAccess(c)
  PROVE  IInv'
<1> DEFINE k == calls[c]
           e == k.email
           rows == LiveOf(e)
<1>1. /\ At(c, "sweep") /\ Return(c)
      /\ access' = IF <<"row", e>> \in k.locks THEN [access EXCEPT ![e] = "disabled"] ELSE access
      /\ sessions' = Revoked(rows, "access") /\ manual' = manual \cup {e}
      /\ UNCHANGED <<clock, auth, minted, events, provisioning, applied, newest>>
  BY DEF RevokeAccess
<1>2. Typed /\ k \in CallRecords /\ k # NoCall BY <1>1, Which
<1>3. UNCHANGED <<clock, mix, central, issued, minted, events, provisioning, applied, newest>>
  BY <1>1 DEF auth
<1>4. e \in Emails BY <1>2 DEF CallRecords
<1>5. Ended(c) /\ calls' \in [Calls -> {NoCall} \cup CallRecords] BY <1>1, <1>2, ReturnEffect
<1>6. /\ sessions' \in [Ids -> {NoSession} \cup Rows] /\ Shrunk
      /\ \A x \in Ids : x \in rows => ~sessions'[x].live
  BY <1>1, <1>2, RevokedShrinks DEF Reasons
<1> HIDE DEF rows, k
<1>7. access' \in [Emails -> Standings] BY <1>1, <1>2, <1>4 DEF Typed, Standings
<1>8. \A a \in Emails : a # e => access'[a] = access[a] BY <1>1, <1>2 DEF Typed
<1>9. manual' \in SUBSET Emails BY <1>1, <1>2, <1>4 DEF Typed
<1>10. Typed' BY <1>2, <1>3, <1>5, <1>6, <1>7, <1>9 DEF Typed, Ids
<1>11. LocksExclusive' /\ Timely' BY <1>2, <1>3, <1>5, LocksStep, TimelyStep DEF IInv
<1>12. CallsOK'
  <2>1. SUFFICES ASSUME NEW d \in Calls, calls'[d] # NoCall PROVE CallOK(calls[d])'
    BY DEF CallsOK
  <2>2. d # c /\ calls'[d] = calls[d] BY <1>5, <2>1 DEF Ended
  <2>3. CallOK(calls[d]) BY <2>1, <2>2 DEF IInv, CallsOK
  <2>4. CASE SignInOK(calls[d])
    <3>1. calls[d].email \in Emails BY <1>2, <2>1, <2>2, RunningType DEF CallRecords
    <3>2. CASE <<"row", e>> \in k.locks
      <4>1. calls[d].pc = "insert" => calls[d].email # e
        BY <1>4, <2>2, <2>4, <3>2 DEF IInv, LocksExclusive, SignInOK, k
      <4>2. calls[d].pc = "insert" => access'[calls[d].email] = "enabled"
        BY <1>8, <2>4, <3>1, <4>1 DEF SignInOK
      <4> QED BY <1>3, <2>2, <2>4, <4>2 DEF CallOK, SignInOK
    <3>3. CASE <<"row", e>> \notin k.locks
      <4>1. UNCHANGED access BY <1>1, <3>3
      <4> QED BY <1>3, <2>2, <2>4, <4>1 DEF CallOK, SignInOK
    <3> QED BY <3>2, <3>3
  <2>5. CASE LogoutOK(calls[d]) BY <1>3, <2>2, <2>5 DEF CallOK, LogoutOK
  <2>6. CASE AccessOK(calls[d])
    <3>1. \A old : Leaving(calls[d], old) => Leaving(calls[d], old)'
      BY <1>3, <1>6, <2>2 DEF Leaving, Shrunk, Live, Ids
    <3> QED BY <1>3, <2>2, <2>6, <3>1 DEF CallOK, AccessOK
  <2>7. CASE OtherOK(calls[d]) BY <1>3, <2>2, <2>7 DEF CallOK, OtherOK, Ids
  <2> QED BY <2>3, <2>4, <2>5, <2>6, <2>7 DEF CallOK
<1>13. Remembered' /\ EndedBefore' /\ Provisioned' /\ ReplayHarmless'
  BY <1>3 DEF IInv, Remembered, EndedBefore, Provisioned, ReplayHarmless
<1>14. Listed'
  <2>1. \A s \in Subjects : EmailsOf[s] \subseteq Emails BY SessionsAssumption
  <2>2. \A s \in Subjects : \A a \in EmailsOf[s] \ manual' : a \in EmailsOf[s] \ manual /\ access'[a] = access[a]
    BY <1>1, <1>8, <2>1
  <2> QED BY <1>3, <2>2 DEF IInv, Listed
<1>15. SessionsOwned' /\ LogoutFinal' BY <1>3, <1>6, ShrunkKeeps DEF IInv
<1>16. SessionsEnabled'
  <2>1. SUFFICES ASSUME NEW x \in Ids, sessions'[x].live PROVE access'[sessions'[x].email] = "enabled"
    BY <1>3 DEF SessionsEnabled, Live, Ids
  <2>2. /\ Live(x) /\ sessions'[x].email = sessions[x].email
        /\ access[sessions[x].email] = "enabled"
    BY <1>6, <2>1 DEF Shrunk, IInv, SessionsEnabled
  <2>3. sessions[x].email # e BY <1>6, <2>1, <2>2 DEF rows, LiveOf
  <2>4. sessions[x].email \in Emails BY <1>2, <2>2, LiveRow DEF Rows
  <2> QED BY <1>8, <2>2, <2>3, <2>4
<1> QED BY <1>10, <1>11, <1>12, <1>13, <1>14, <1>15, <1>16 DEF IInv

\* An access event of Auth: newer than what is provisioned, it writes rows it
\* holds, the address the subject leaves among them.
LEMMA ApplyKeeps ==
  ASSUME IInv, NEW c \in Calls, ApplyAccessEvent(c)
  PROVE  IInv'
<1> DEFINE k == calls[c]
           s == k.subject
           e == k.email
           v == k.arg
           ev == issued[s][v]
           p == provisioning[s]
           gone == k.doomed \cup (IF ev.allowed THEN {} ELSE LiveOf(e))
           state == [version |-> v, email |-> e, allowed |-> ev.allowed]
<1>1. /\ At(c, "finish") /\ Return(c)
      /\ access' = [a \in Emails |->
              IF a = e THEN (IF ev.allowed THEN "enabled" ELSE "disabled")
              ELSE IF p.version # 0 /\ a = p.email THEN "disabled" ELSE access[a]]
      /\ sessions' = Revoked(gone, "access")
      /\ provisioning' = [provisioning EXCEPT ![s] = state]
      /\ newest' = [newest EXCEPT ![s] = IF @ < v THEN v ELSE @]
      /\ UNCHANGED <<clock, auth, minted, events, applied, manual>>
  BY DEF ApplyAccessEvent
<1>2. Typed /\ k \in CallRecords /\ k # NoCall /\ k.pc = "finish" /\ AccessOK(k) BY <1>1, Which
<1>3. UNCHANGED <<clock, mix, central, issued, minted, events, applied, manual>>
  BY <1>1 DEF auth
<1>4. e \in Emails /\ s \in Subjects BY <1>2 DEF CallRecords
<1>5. /\ v \in Nat \ {0} /\ v <= Len(issued[s]) /\ e = ev.email /\ "access" \in mix.ops
      /\ <<"access", s>> \in k.locks /\ <<"row", e>> \in k.locks /\ p.version < v
      /\ p.version # 0 /\ p.email # e => Leaving(k, p.email)
  BY <1>2 DEF AccessOK
<1>6. ev \in AccessEvents
  <2>1. issued[s] \in Seq(AccessEvents) BY <1>2, <1>4 DEF Typed
  <2>2. v \in 1..Len(issued[s]) BY <1>5, <2>1
  <2> QED BY <2>1, <2>2, SeqItem
<1>7. ev.allowed \in BOOLEAN BY <1>6 DEF AccessEvents
<1>8. state \in Provisions /\ state.version = v /\ state.email = e /\ state.allowed = ev.allowed
  BY <1>4, <1>5, <1>7 DEF Provisions
<1>9. e \in EmailsOf[s] /\ newest[s] = p.version
  <2>1. v \in 1..Len(issued[s])
    <3>1. issued[s] \in Seq(AccessEvents) BY <1>2, <1>4 DEF Typed
    <3> QED BY <1>5, <3>1
  <2> QED BY <1>4, <1>5, <2>1 DEF IInv, Provisioned
<1>10. p.version # 0 => p.email \in EmailsOf[s]
  <2>1. p.version \in Nat /\ newest[s] <= Len(issued[s]) /\ issued[s] \in Seq(AccessEvents)
    BY <1>2, <1>4 DEF IInv, Provisioned, Typed, Provisions
  <2>2. p.version # 0 => newest[s] \in 1..Len(issued[s]) BY <1>9, <2>1
  <2> QED BY <1>4, <1>9, <2>2 DEF IInv, Provisioned
<1>11. Ended(c) /\ calls' \in [Calls -> {NoCall} \cup CallRecords] BY <1>1, <1>2, ReturnEffect
<1>12. /\ sessions' \in [Ids -> {NoSession} \cup Rows] /\ Shrunk
       /\ \A x \in Ids : x \in gone => ~sessions'[x].live
  BY <1>1, <1>2, RevokedShrinks DEF Reasons
<1> HIDE DEF state, gone, p, ev, v, e, s
<1>13. /\ provisioning' \in [Subjects -> Provisions] /\ provisioning'[s] = state
       /\ \A t \in Subjects : t # s => provisioning'[t] = provisioning[t]
  BY <1>1, <1>2, <1>4, <1>8 DEF Typed
<1>14. /\ newest' \in [Subjects -> Nat] /\ newest'[s] = v
       /\ \A t \in Subjects : t # s => newest'[t] = newest[t]
  BY <1>1, <1>2, <1>4, <1>5, <1>9 DEF Typed
<1>15. /\ access' \in [Emails -> Standings]
       /\ access'[e] = "enabled" <=> ev.allowed
       /\ \A a \in Emails : a # e /\ p.version # 0 /\ a = p.email => access'[a] = "disabled"
       /\ \A a \in Emails : a # e /\ ~(p.version # 0 /\ a = p.email) => access'[a] = access[a]
  BY <1>1, <1>2, <1>4, <1>7 DEF Typed, Standings
<1>16. Typed' BY <1>2, <1>3, <1>11, <1>12, <1>13, <1>14, <1>15 DEF Typed, Ids
<1>17. LocksExclusive' /\ Timely' BY <1>2, <1>3, <1>11, LocksStep, TimelyStep DEF IInv
<1>e. \A t \in Subjects : EmailsOf[t] \subseteq Emails BY SessionsAssumption
<1>18. CallsOK'
  <2>1. SUFFICES ASSUME NEW d \in Calls, calls'[d] # NoCall PROVE CallOK(calls[d])'
    BY DEF CallsOK
  <2>2. d # c /\ calls'[d] = calls[d] BY <1>11, <2>1 DEF Ended
  <2>3. CallOK(calls[d]) BY <2>1, <2>2 DEF IInv, CallsOK
  <2>4. CASE SignInOK(calls[d])
    <3> DEFINE a == calls[d].email
    <3>1. a \in Emails BY <1>2, <2>1, <2>2, RunningType DEF CallRecords
    <3>2. \A b \in Emails : <<"row", b>> \in k.locks => <<"share", b>> \notin calls[d].locks
      BY <2>2 DEF IInv, LocksExclusive, k
    <3>3. calls[d].pc = "insert" => access'[a] = "enabled"
      <4>1. SUFFICES ASSUME calls[d].pc = "insert" PROVE access'[a] = "enabled" OBVIOUS
      <4>2. <<"share", a>> \in calls[d].locks /\ access[a] = "enabled" BY <2>4, <4>1 DEF SignInOK
      <4>3. <<"row", a>> \notin k.locks BY <3>1, <3>2, <4>2
      <4>4. a # e BY <1>5, <4>3
      <4>5. ~(p.version # 0 /\ a = p.email)
        <5>1. Leaving(k, p.email) => <<"row", p.email>> \in k.locks BY DEF Leaving
        <5> HIDE DEF a
        <5> QED BY <1>5, <4>3, <4>4, <5>1
      <4> QED BY <1>15, <3>1, <4>2, <4>4, <4>5
    <3> QED BY <1>3, <2>2, <2>4, <3>3 DEF CallOK, SignInOK
  <2>5. CASE LogoutOK(calls[d]) BY <1>3, <2>2, <2>5 DEF CallOK, LogoutOK
  <2>6. CASE AccessOK(calls[d])
    <3>1. \A old : Leaving(calls[d], old) => Leaving(calls[d], old)'
      BY <1>3, <1>12, <2>2 DEF Leaving, Shrunk, Live, Ids
    <3>2. calls[d].subject \in Subjects BY <1>2, <2>1, <2>2, RunningType DEF CallRecords
    <3>3. CASE calls[d].subject = s
      \* The subject's access lock is this event's.
      <4>1. <<"access", s>> \notin calls[d].locks
        BY <1>4, <1>5, <2>2 DEF IInv, LocksExclusive, k
      <4>2. calls[d].pc = "lock access" BY <2>6, <3>3, <4>1 DEF AccessOK
      <4> QED BY <1>3, <2>2, <2>6, <4>2 DEF CallOK, AccessOK
    <3>4. CASE calls[d].subject # s
      <4>1. provisioning'[calls[d].subject] = provisioning[calls[d].subject]
        BY <1>13, <3>2, <3>4
      <4> QED BY <1>3, <2>2, <2>6, <3>1, <4>1 DEF CallOK, AccessOK
    <3> QED BY <3>3, <3>4
  <2>7. CASE OtherOK(calls[d]) BY <1>3, <2>2, <2>7 DEF CallOK, OtherOK, Ids
  <2> QED BY <2>3, <2>4, <2>5, <2>6, <2>7 DEF CallOK
<1>19. Remembered' /\ EndedBefore' /\ ReplayHarmless'
  BY <1>3 DEF IInv, Remembered, EndedBefore, ReplayHarmless
<1>20. Provisioned'
  <2>1. SUFFICES ASSUME NEW t \in Subjects
        PROVE  /\ \A i \in 1..Len(issued[t]) : issued[t][i].email \in EmailsOf[t]
               /\ newest'[t] = provisioning'[t].version /\ newest'[t] <= Len(issued[t])
               /\ newest'[t] # 0 =>
                    /\ "access" \in mix.ops
                    /\ provisioning'[t].email = issued[t][newest'[t]].email
                    /\ provisioning'[t].allowed = issued[t][newest'[t]].allowed
    BY <1>3 DEF Provisioned
  <2>2. \A i \in 1..Len(issued[t]) : issued[t][i].email \in EmailsOf[t]
    BY DEF IInv, Provisioned
  <2>3. CASE t = s BY <1>5, <1>8, <1>13, <1>14, <2>2, <2>3 DEF ev
  <2>4. CASE t # s BY <1>13, <1>14, <2>4 DEF IInv, Provisioned
  <2> QED BY <2>3, <2>4
<1>21. Listed'
  <2>1. SUFFICES ASSUME NEW t \in Subjects, NEW a \in EmailsOf[t] \ manual
        PROVE  access'[a] = "enabled" <=>
                 /\ provisioning'[t].version # 0 /\ provisioning'[t].allowed
                 /\ a = provisioning'[t].email
    BY <1>3 DEF Listed
  <2>2. /\ access[a] = "enabled" <=>
             /\ provisioning[t].version # 0 /\ provisioning[t].allowed
             /\ a = provisioning[t].email
        /\ a \in Emails
    BY <1>5, <1>e DEF IInv, Listed
  <2>3. CASE t = s
    <3>1. CASE a = e BY <1>5, <1>8, <1>13, <1>15, <2>3, <3>1
    <3>2. CASE a # e
      <4>1. access'[a] # "enabled"
        <5>1. CASE p.version # 0 /\ a = p.email BY <1>15, <2>2, <3>2, <5>1
        <5>2. CASE ~(p.version # 0 /\ a = p.email) BY <1>15, <2>2, <2>3, <3>2, <5>2 DEF p
        <5> QED BY <5>1, <5>2
      <4> QED BY <1>8, <1>13, <2>3, <3>2, <4>1
    <3> QED BY <3>1, <3>2
  <2>4. CASE t # s
    <3>1. EmailsOf[s] \cap EmailsOf[t] = {} BY <1>4, <2>4, AuthAssumption
    <3>2. a # e /\ ~(p.version # 0 /\ a = p.email) BY <1>9, <1>10, <3>1
    <3> QED BY <1>13, <1>15, <2>2, <2>4, <3>2
  <2> QED BY <2>3, <2>4
<1>22. SessionsOwned' /\ LogoutFinal' BY <1>3, <1>12, ShrunkKeeps DEF IInv
<1>23. SessionsEnabled'
  <2>1. SUFFICES ASSUME NEW x \in Ids, sessions'[x].live PROVE access'[sessions'[x].email] = "enabled"
    BY <1>3 DEF SessionsEnabled, Live, Ids
  <2> DEFINE a == sessions[x].email
  <2>2. /\ Live(x) /\ sessions'[x].email = a /\ access[a] = "enabled" /\ x \notin gone
    BY <1>12, <2>1 DEF Shrunk, IInv, SessionsEnabled
  <2>3. a \in Emails BY <1>2, <2>2, LiveRow DEF Rows
  <2>4. CASE a = e
    <3>1. ev.allowed BY <2>2, <2>4 DEF gone, LiveOf
    <3> QED BY <1>15, <2>2, <2>4, <3>1
  <2>5. CASE a # e
    <3>1. ~(p.version # 0 /\ a = p.email)
      <4>1. Leaving(k, p.email) /\ a = p.email => x \in k.doomed BY <2>2 DEF Leaving
      <4>2. x \notin k.doomed BY <2>2 DEF gone
      <4> QED BY <1>5, <2>5, <4>1, <4>2
    <3> QED BY <1>15, <2>2, <2>3, <2>5, <3>1
  <2> QED BY <2>4, <2>5
<1> QED BY <1>16, <1>17, <1>18, <1>19, <1>20, <1>21, <1>22, <1>23 DEF IInv

---------------------------------------------------------------------------
(* The invariant under the steps no call makes.                            *)

LEMMA SignOutKeeps ==
  ASSUME IInv, NEW x \in Ids, RevokeSession(x)
  PROVE  IInv'
<1>1. /\ sessions' = Revoked({x}, "signout")
      /\ UNCHANGED <<clock, mix, central, issued, access, minted, events, provisioning, calls,
                     applied, newest, manual>>
  BY DEF RevokeSession, auth, history
<1>2. Typed BY DEF IInv
<1>3. sessions' \in [Ids -> {NoSession} \cup Rows] /\ Shrunk BY <1>1, <1>2, RevokedShrinks DEF Reasons
<1>4. Typed' BY <1>1, <1>2, <1>3 DEF Typed, Ids
<1>5. LocksExclusive' /\ Timely' BY <1>1 DEF IInv, LocksExclusive, Timely
<1>6. CallsOK'
  <2>1. SUFFICES ASSUME NEW d \in Calls, calls'[d] # NoCall PROVE CallOK(calls[d])'
    BY DEF CallsOK
  <2>2. CallOK(calls[d]) BY <1>1, <2>1 DEF IInv, CallsOK
  <2> QED BY <1>1, <1>2, <1>3, <2>2, OtherCalls
<1>7. Remembered' /\ EndedBefore' /\ Provisioned' /\ Listed' /\ ReplayHarmless'
  BY <1>1 DEF IInv, Remembered, EndedBefore, Provisioned, Listed, ReplayHarmless
<1>8. SessionsOwned' /\ LogoutFinal' /\ SessionsEnabled' BY <1>1, <1>3, ShrunkKeeps DEF IInv
<1> QED BY <1>4, <1>5, <1>6, <1>7, <1>8 DEF IInv

\* `pages access grant`: an upsert waits for every lock on the row.
LEMMA GrantKeeps ==
  ASSUME IInv, NEW e \in mix.emails, GrantAccess(e)
  PROVE  IInv'
<1>1. /\ access' = [access EXCEPT ![e] = "enabled"] /\ manual' = manual \cup {e}
      /\ UNCHANGED <<clock, mix, central, issued, sessions, minted, events, provisioning, calls,
                     applied, newest>>
  BY DEF GrantAccess, auth
<1>2. Typed BY DEF IInv
<1>3. e \in Emails BY <1>2, SessionsAssumption DEF Typed
<1>4. /\ access' \in [Emails -> Standings] /\ access'[e] = "enabled"
      /\ \A a \in Emails : a # e => access'[a] = access[a]
  BY <1>1, <1>2, <1>3 DEF Typed, Standings
<1>5. \A a \in Emails : access[a] = "enabled" => access'[a] = "enabled" BY <1>4
<1>6. Typed' BY <1>1, <1>2, <1>3, <1>4 DEF Typed, Ids
<1>7. LocksExclusive' /\ Timely' BY <1>1 DEF IInv, LocksExclusive, Timely
<1>8. CallsOK'
  <2>1. SUFFICES ASSUME NEW d \in Calls, calls'[d] # NoCall PROVE CallOK(calls[d])'
    BY DEF CallsOK
  <2>2. CallOK(calls[d]) /\ calls'[d] = calls[d] BY <1>1, <2>1 DEF IInv, CallsOK
  <2>3. CASE SignInOK(calls[d])
    <3>1. calls[d].email \in Emails BY <1>2, <2>1, <2>2, RunningType DEF CallRecords
    <3> QED BY <1>1, <1>5, <2>2, <2>3, <3>1 DEF CallOK, SignInOK
  <2>4. CASE LogoutOK(calls[d]) BY <1>1, <2>2, <2>4 DEF CallOK, LogoutOK
  <2>5. CASE AccessOK(calls[d]) BY <1>1, <2>2, <2>5 DEF CallOK, AccessOK, Leaving, Live, Ids
  <2>6. CASE OtherOK(calls[d]) BY <1>1, <2>2, <2>6 DEF CallOK, OtherOK, Ids
  <2> QED BY <2>2, <2>3, <2>4, <2>5, <2>6 DEF CallOK
<1>9. Remembered' /\ EndedBefore' /\ SessionsOwned' /\ Provisioned' /\ LogoutFinal' /\ ReplayHarmless'
  BY <1>1 DEF IInv, Remembered, EndedBefore, SessionsOwned, Provisioned, LogoutFinal, ReplayHarmless,
              Live, Ids
<1>10. Listed'
  <2>1. \A s \in Subjects : EmailsOf[s] \subseteq Emails BY SessionsAssumption
  <2>2. \A s \in Subjects : \A a \in EmailsOf[s] \ manual' : a \in EmailsOf[s] \ manual /\ access'[a] = access[a]
    BY <1>1, <1>4, <2>1
  <2> QED BY <1>1, <2>2 DEF IInv, Listed
<1>11. SessionsEnabled'
  <2>1. \A x \in Ids : Live(x) => sessions[x].email \in Emails BY <1>2, LiveRow DEF Rows
  <2> QED BY <1>1, <1>5, <2>1 DEF IInv, SessionsEnabled, Live, Ids
<1> QED BY <1>6, <1>7, <1>8, <1>9, <1>10, <1>11 DEF IInv

\* Auth opens and ends central sessions at the present time, which is no
\* earlier than any exchange in progress.
LEMMA CentralKeeps ==
  ASSUME IInv, NEW g \in Centrals, OpenCentral(g) \/ EndCentral(g)
  PROVE  IInv'
<1>1. /\ \/ central[g].state = "none" /\ central' = [central EXCEPT ![g] = [state |-> "open", at |-> clock]]
         \/ central[g].state = "open" /\ central' = [central EXCEPT ![g] = [state |-> "ended", at |-> clock]]
      /\ UNCHANGED <<mix, clock, issued, access, sessions, minted, events, provisioning, calls,
                     applied, newest, manual>>
  BY DEF OpenCentral, EndCentral, history
<1>2. Typed /\ clock \in Nat BY DEF IInv, Typed
<1>3. /\ central' \in [Centrals -> [state : {"none", "open", "ended"}, at : Nat]]
      /\ central'[g].at = clock
      /\ \/ central[g].state = "none" /\ central'[g].state = "open"
         \/ central[g].state = "open" /\ central'[g].state = "ended"
      /\ \A h \in Centrals : h # g => central'[h] = central[h]
  <2>1. ASSUME NEW s \in {"open", "ended"}, central' = [central EXCEPT ![g] = [state |-> s, at |-> clock]]
        PROVE  /\ central' \in [Centrals -> [state : {"none", "open", "ended"}, at : Nat]]
               /\ central'[g].at = clock /\ central'[g].state = s
               /\ \A h \in Centrals : h # g => central'[h] = central[h]
    <3> DEFINE new == [state |-> s, at |-> clock]
    <3>1. new \in [state : {"none", "open", "ended"}, at : Nat] /\ new.at = clock /\ new.state = s
      BY <1>2
    <3>2. central' = [central EXCEPT ![g] = new] BY <2>1
    <3> HIDE DEF new
    <3> QED BY <1>2, <3>1, <3>2 DEF Typed
  <2> QED BY <1>1, <2>1
<1>4. Typed' BY <1>1, <1>2, <1>3 DEF Typed, Ids
<1>5. LocksExclusive' /\ Timely' BY <1>1 DEF IInv, LocksExclusive, Timely
<1>6. CallsOK'
  <2>1. SUFFICES ASSUME NEW d \in Calls, calls'[d] # NoCall PROVE CallOK(calls[d])'
    BY DEF CallsOK
  <2>2. CallOK(calls[d]) /\ calls'[d] = calls[d] BY <1>1, <2>1 DEF IInv, CallsOK
  <2>3. calls[d].at <= clock BY <1>1, <2>1 DEF IInv, Timely
  <2>4. CASE SignInOK(calls[d])
    <3> DEFINE h == calls[d].arg
    <3>1. h \in Centrals BY <2>4 DEF SignInOK
    <3>2. calls[d].pc # "exchange" =>
            \/ central'[h].state = "open"
            \/ central'[h].state = "ended" /\ calls[d].at <= central'[h].at
      <4>1. calls[d].pc # "exchange" =>
              \/ central[h].state = "open"
              \/ central[h].state = "ended" /\ calls[d].at <= central[h].at
        BY <2>4 DEF SignInOK
      <4> HIDE DEF h
      <4>2. CASE h = g BY <1>3, <2>3, <4>1, <4>2
      <4>3. CASE h # g BY <1>3, <3>1, <4>1, <4>3
      <4> QED BY <4>2, <4>3
    <3> QED BY <1>1, <2>2, <2>4, <3>2 DEF CallOK, SignInOK
  <2>5. CASE LogoutOK(calls[d])
    <3>1. calls[d].arg \in Centrals /\ calls[d].arg # g BY <1>3, <2>5 DEF LogoutOK
    <3>2. central'[calls[d].arg] = central[calls[d].arg] BY <1>3, <3>1
    <3> QED BY <1>1, <2>2, <2>5, <3>2 DEF CallOK, LogoutOK
  <2>6. CASE AccessOK(calls[d]) BY <1>1, <2>2, <2>6 DEF CallOK, AccessOK, Leaving, Live, Ids
  <2>7. CASE OtherOK(calls[d]) BY <1>1, <2>2, <2>7 DEF CallOK, OtherOK, Ids
  <2> QED BY <2>2, <2>4, <2>5, <2>6, <2>7 DEF CallOK
<1>7. Remembered'
  <2>1. SUFFICES ASSUME NEW h \in Centrals, applied[h] # 0
                 PROVE  /\ central'[h].state = "ended"
                        /\ \/ \E ev \in events : ev.central = h /\ central'[h].at <= ev.received
                           \/ central'[h].at + TokenLife + Span < clock
    BY <1>1 DEF Remembered
  <2>2. h # g BY <1>3, <2>1 DEF IInv, Remembered
  <2> QED BY <1>3, <2>1, <2>2 DEF IInv, Remembered
<1>8. EndedBefore'
  <2>1. \A h \in Centrals : central'[h].at <= clock
    BY <1>2, <1>3 DEF IInv, EndedBefore
  <2> QED BY <1>1, <2>1 DEF EndedBefore
<1>9. /\ SessionsOwned' /\ Provisioned' /\ Listed' /\ LogoutFinal' /\ ReplayHarmless' /\ SessionsEnabled'
  BY <1>1 DEF IInv, SessionsOwned, Provisioned, Listed, LogoutFinal, ReplayHarmless, SessionsEnabled, Live, Ids
<1> QED BY <1>4, <1>5, <1>6, <1>7, <1>8, <1>9 DEF IInv

\* Auth issues an event: those issued before keep their place.
LEMMA IssueKeeps ==
  ASSUME IInv, NEW s \in Subjects, NEW e \in Emails, NEW b \in BOOLEAN, IssueAccess(s, e, b)
  PROVE  IInv'
<1> DEFINE new == [email |-> e, allowed |-> b]
<1>1. /\ "access" \in mix.ops /\ e \in EmailsOf[s]
      /\ issued' = [issued EXCEPT ![s] = Append(@, new)]
      /\ UNCHANGED <<mix, clock, central, access, sessions, minted, events, provisioning, calls,
                     applied, newest, manual>>
  BY DEF IssueAccess, history
<1>2. Typed /\ issued[s] \in Seq(AccessEvents) BY DEF IInv, Typed
<1>3. new \in AccessEvents /\ new.email = e BY DEF AccessEvents
<1> HIDE DEF new
<1>4. /\ issued'[s] = Append(issued[s], new) /\ issued' \in [Subjects -> Seq(AccessEvents)]
      /\ \A t \in Subjects : t # s => issued'[t] = issued[t]
  BY <1>1, <1>2, <1>3 DEF Typed
<1>5. /\ Len(issued'[s]) = Len(issued[s]) + 1
      /\ \A i \in 1..Len(issued[s]) : issued'[s][i] = issued[s][i]
      /\ issued'[s][Len(issued[s]) + 1] = new
  BY <1>2, <1>3, <1>4
<1>6. \A t \in Subjects : /\ Len(issued[t]) \in Nat /\ Len(issued'[t]) \in Nat
                          /\ Len(issued[t]) <= Len(issued'[t])
                          /\ \A i \in 1..Len(issued[t]) : issued'[t][i] = issued[t][i]
  <2>1. \A t \in Subjects : issued[t] \in Seq(AccessEvents) BY <1>2 DEF Typed
  <2>2. \A t \in Subjects : Len(issued[t]) \in Nat BY <2>1
  <2> QED BY <1>4, <1>5, <2>2
<1>7. Typed' BY <1>1, <1>2, <1>4 DEF Typed, Ids
<1>8. LocksExclusive' /\ Timely' BY <1>1 DEF IInv, LocksExclusive, Timely
<1>9. CallsOK'
  <2>1. SUFFICES ASSUME NEW d \in Calls, calls'[d] # NoCall PROVE CallOK(calls[d])'
    BY DEF CallsOK
  <2>2. CallOK(calls[d]) /\ calls'[d] = calls[d] BY <1>1, <2>1 DEF IInv, CallsOK
  <2>3. CASE SignInOK(calls[d]) BY <1>1, <2>2, <2>3 DEF CallOK, SignInOK
  <2>4. CASE LogoutOK(calls[d]) BY <1>1, <2>2, <2>4 DEF CallOK, LogoutOK
  <2>5. CASE AccessOK(calls[d])
    <3> DEFINE t == calls[d].subject
               v == calls[d].arg
    <3>1. t \in Subjects BY <1>1, <1>2, <2>1, <2>2, RunningType DEF CallRecords
    <3>2. v \in Nat \ {0} /\ v <= Len(issued[t]) BY <2>5 DEF AccessOK
    <3>3. v \in 1..Len(issued[t]) BY <1>6, <3>1, <3>2
    <3>4. v <= Len(issued'[t]) /\ issued'[t][v] = issued[t][v]
      <4> HIDE DEF t, v
      <4> QED BY <1>6, <3>1, <3>2, <3>3
    <3> QED BY <1>1, <2>2, <2>5, <3>4 DEF CallOK, AccessOK, Leaving, Live, Ids
  <2>6. CASE OtherOK(calls[d]) BY <1>1, <2>2, <2>6 DEF CallOK, OtherOK, Ids
  <2> QED BY <2>2, <2>3, <2>4, <2>5, <2>6 DEF CallOK
<1>10. Provisioned'
  <2>1. SUFFICES ASSUME NEW t \in Subjects
        PROVE  /\ \A i \in 1..Len(issued'[t]) : issued'[t][i].email \in EmailsOf[t]
               /\ newest[t] = provisioning[t].version /\ newest[t] <= Len(issued'[t])
               /\ newest[t] # 0 =>
                    /\ "access" \in mix.ops
                    /\ provisioning[t].email = issued'[t][newest[t]].email
                    /\ provisioning[t].allowed = issued'[t][newest[t]].allowed
    BY <1>1 DEF Provisioned
  <2>2. newest[t] \in Nat /\ newest[t] <= Len(issued[t]) BY <1>2 DEF Typed, IInv, Provisioned
  <2>3. newest[t] # 0 => issued'[t][newest[t]] = issued[t][newest[t]]
    <3>1. newest[t] # 0 => newest[t] \in 1..Len(issued[t]) BY <1>6, <2>2
    <3> QED BY <1>6, <3>1
  <2>4. ASSUME NEW i \in 1..Len(issued'[t]) PROVE issued'[t][i].email \in EmailsOf[t]
    <3>1. CASE i \in 1..Len(issued[t])
      <4>1. issued[t][i].email \in EmailsOf[t] BY <3>1 DEF IInv, Provisioned
      <4> QED BY <1>6, <3>1, <4>1
    <3>2. CASE i \notin 1..Len(issued[t])
      <4>1. t = s BY <1>4, <2>4, <3>2
      <4>2. i = Len(issued[s]) + 1 BY <1>5, <1>6, <2>4, <3>2, <4>1
      <4> QED BY <1>1, <1>3, <1>5, <4>1, <4>2
    <3> QED BY <3>1, <3>2
  <2> QED BY <1>6, <2>2, <2>3, <2>4 DEF IInv, Provisioned
<1>11. Remembered' /\ EndedBefore' /\ SessionsOwned' /\ Listed' /\ LogoutFinal' /\ ReplayHarmless' /\ SessionsEnabled'
  BY <1>1 DEF IInv, Remembered, EndedBefore, SessionsOwned, Listed, LogoutFinal, ReplayHarmless,
              SessionsEnabled, Live, Ids
<1> QED BY <1>7, <1>8, <1>9, <1>10, <1>11 DEF IInv

\* The clock moves only while every call has time left.
LEMMA TickKeeps ==
  ASSUME IInv, Tick
  PROVE  IInv'
<1>1. /\ clock' = clock + 1
      /\ \A c \in Calls : calls[c] # NoCall => clock < calls[c].started + Span
      /\ UNCHANGED <<mix, central, issued, access, sessions, minted, events, provisioning, calls,
                     applied, newest, manual>>
  BY DEF Tick, auth, history
<1>2. Typed /\ clock \in Nat BY DEF IInv, Typed
<1>3. Typed' BY <1>1, <1>2 DEF Typed, Ids
<1>4. LocksExclusive' BY <1>1 DEF IInv, LocksExclusive
<1>5. Timely'
  <2>1. SUFFICES ASSUME NEW c \in Calls, calls[c] # NoCall
                 PROVE  /\ calls[c].started <= calls[c].at /\ calls[c].at <= clock + 1
                        /\ clock + 1 <= calls[c].started + Span
    BY <1>1 DEF Timely
  <2>2. calls[c].started \in Nat /\ calls[c].at \in Nat /\ Span \in Nat
    BY <1>2, <2>1, RunningType, SessionsAssumption DEF CallRecords
  <2>3. calls[c].started <= calls[c].at /\ calls[c].at <= clock BY <2>1 DEF IInv, Timely
  <2> QED BY <1>1, <1>2, <2>1, <2>2, <2>3
<1>6. CallsOK'
  <2>1. SUFFICES ASSUME NEW d \in Calls, calls'[d] # NoCall PROVE CallOK(calls[d])'
    BY DEF CallsOK
  <2>2. CallOK(calls[d]) /\ calls'[d] = calls[d] BY <1>1, <2>1 DEF IInv, CallsOK
  <2> QED BY <1>1, <2>2, ZenonT(120) DEF CallOK, SignInOK, LogoutOK, AccessOK, OtherOK, Leaving, Live, Ids
<1>7. Remembered' /\ EndedBefore'
  <2>1. \A g \in Centrals : central[g].at \in Nat BY <1>2 DEF Typed
  <2>2. TokenLife \in Nat /\ Span \in Nat BY SessionsAssumption
  <2>3. \A g \in Centrals : central[g].at + TokenLife + Span < clock => central[g].at + TokenLife + Span < clock + 1
    BY <1>2, <2>1, <2>2
  <2>4. \A g \in Centrals : central[g].at <= clock + 1 BY <1>2, <2>1 DEF IInv, EndedBefore
  <2> QED BY <1>1, <2>3, <2>4 DEF IInv, Remembered, EndedBefore
<1>8. /\ SessionsOwned' /\ Provisioned' /\ Listed' /\ LogoutFinal' /\ ReplayHarmless' /\ SessionsEnabled'
  BY <1>1 DEF IInv, SessionsOwned, Provisioned, Listed, LogoutFinal, ReplayHarmless, SessionsEnabled, Live, Ids
<1> QED BY <1>3, <1>4, <1>5, <1>6, <1>7, <1>8 DEF IInv

LEMMA StutterKeeps ==
  ASSUME IInv, UNCHANGED vars
  PROVE  IInv'
<1>1. UNCHANGED <<clock, mix, central, issued, access, sessions, minted, events, provisioning, calls,
                  applied, newest, manual>>
  BY DEF vars, auth, history
<1>2. Typed' BY <1>1 DEF IInv, Typed, Ids
<1>3. LocksExclusive' /\ Timely' BY <1>1 DEF IInv, LocksExclusive, Timely
<1>4. CallsOK'
  <2>1. SUFFICES ASSUME NEW d \in Calls, calls'[d] # NoCall PROVE CallOK(calls[d])'
    BY DEF CallsOK
  <2>2. CallOK(calls[d]) /\ calls'[d] = calls[d] BY <1>1, <2>1 DEF IInv, CallsOK
  <2> QED BY <1>1, <2>2, ZenonT(120) DEF CallOK, SignInOK, LogoutOK, AccessOK, OtherOK, Leaving, Live, Ids
<1>5. /\ Remembered' /\ EndedBefore' /\ SessionsOwned' /\ Provisioned' /\ Listed' /\ LogoutFinal'
      /\ ReplayHarmless' /\ SessionsEnabled'
  BY <1>1 DEF IInv, Remembered, EndedBefore, SessionsOwned, Provisioned, Listed, LogoutFinal,
              ReplayHarmless, SessionsEnabled, Live, Ids
<1> QED BY <1>2, <1>3, <1>4, <1>5 DEF IInv

LEMMA InitKeeps ==
  ASSUME Init
  PROVE  IInv
<1>1. /\ mix \in Mixes /\ clock = 0
      /\ central = [g \in Centrals |-> [state |-> "none", at |-> 0]]
      /\ issued = [s \in Subjects |-> <<>>]
      /\ access \in [Emails -> IF "grant" \in mix.ops \/ "access" \in mix.ops THEN {"none"} ELSE {"enabled"}]
      /\ sessions = [x \in Ids |-> NoSession] /\ minted = 0 /\ events = {}
      /\ provisioning = [s \in Subjects |-> [version |-> 0, email |-> AnyEmail, allowed |-> FALSE]]
      /\ calls = [c \in Calls |-> NoCall]
      /\ applied = [g \in Centrals |-> 0] /\ newest = [s \in Subjects |-> 0] /\ manual = {}
  BY DEF Init, AnyEmail
<1>2. Typed
  <2>1. <<>> \in Seq(AccessEvents) OBVIOUS
  <2>2. access \in [Emails -> Standings] BY <1>1 DEF Standings
  <2>3. central \in [Centrals -> [state : {"none", "open", "ended"}, at : Nat]] BY <1>1
  <2>4. provisioning \in [Subjects -> Provisions] BY <1>1 DEF Provisions
  <2> QED BY <1>1, <2>1, <2>2, <2>3, <2>4 DEF Typed
<1>3. LocksExclusive /\ CallsOK /\ Timely BY <1>1 DEF LocksExclusive, CallsOK, Timely, NoCall
<1>4. Remembered /\ EndedBefore /\ ReplayHarmless BY <1>1 DEF Remembered, EndedBefore, ReplayHarmless
<1>5. \A x \in Ids : ~Live(x) BY <1>1 DEF Live, NoSession
<1>6. SessionsOwned /\ LogoutFinal /\ SessionsEnabled
  BY <1>5 DEF SessionsOwned, LogoutFinal, SessionsEnabled
<1>7. Provisioned BY <1>1 DEF Provisioned
<1>8. Listed
  <2>1. \A s \in Subjects : EmailsOf[s] \subseteq Emails BY SessionsAssumption
  <2>2. "access" \in mix.ops => \A e \in Emails : access[e] = "none" BY <1>1
  <2>3. \A s \in Subjects : provisioning[s].version = 0 BY <1>1
  <2> QED BY <2>1, <2>2, <2>3 DEF Listed
<1> QED BY <1>2, <1>3, <1>4, <1>6, <1>7, <1>8 DEF IInv

---------------------------------------------------------------------------
(* The theorems.                                                           *)

LEMMA NextKeeps ==
  ASSUME IInv, [Next]_vars
  PROVE  IInv'
<1>1. ASSUME NEW c \in Calls,
             SignInStep(c) \/ LogoutStep(c) \/ lockSubject(c) \/ AccessStep(c) \/ RequestStep(c) \/ Rollback(c)
      PROVE  IInv'
  <2>1. \/ Starts(c) \/ Walks(c) \/ InsertSession(c) \/ ConsumeLogoutEvent(c)
        \/ RevokeAccess(c) \/ ApplyAccessEvent(c)
    BY <1>1 DEF SignInStep, LogoutStep, AccessStep, RequestStep, Starts, Walks
  <2> QED BY <2>1, StartsOK, WalksOK, OneCallKeeps, InsertKeeps, ConsumeKeeps, RevokeAccessKeeps, ApplyKeeps
<1>2. ASSUME NEW e \in mix.emails, GrantAccess(e) PROVE IInv' BY <1>2, GrantKeeps
<1>3. ASSUME NEW x \in Ids, RevokeSession(x) PROVE IInv' BY <1>3, SignOutKeeps
<1>4. CASE AuthStep BY <1>4, CentralKeeps, IssueKeeps DEF AuthStep
<1>5. CASE Tick BY <1>5, TickKeeps
<1>6. CASE UNCHANGED vars BY <1>6, StutterKeeps
<1> QED BY <1>1, <1>2, <1>3, <1>4, <1>5, <1>6 DEF Next

\* The inductive invariant holds in every state.
THEOREM Invariant == Spec => []IInv
<1>1. Init => IInv BY InitKeeps
<1>2. IInv /\ [Next]_vars => IInv' BY NextKeeps
<1> QED BY <1>1, <1>2, PTL DEF Spec

\* Once Pages has applied the logout of a central session, no session minted
\* from it is live (CreateSession, ConsumeLogoutEvent).
THEOREM LogoutsAreFinal == Spec => []LogoutFinal
<1>1. IInv => LogoutFinal BY DEF IInv
<1> QED BY <1>1, Invariant, PTL

\* A logout token ends sessions at most once, however it is delivered
\* (ConsumeLogoutEvent): the table remembers it as long as it can come back.
THEOREM ReplaysAreHarmless == Spec => []ReplayHarmless
<1>1. IInv => ReplayHarmless BY DEF IInv
<1> QED BY <1>1, Invariant, PTL

\* No live session belongs to an address that is off the access list
\* (CreateSession against RevokeAccess and ApplyAccessEvent).
THEOREM SessionsAreEnabled == Spec => []SessionsEnabled
<1>1. IInv => SessionsEnabled BY DEF IInv
<1> QED BY <1>1, Invariant, PTL

\* The access list says of a subject's addresses what the newest event applied
\* said (ApplyAccessEvent).
THEOREM AccessIsLatest == Spec => []LatestAccess
<1>1. IInv => LatestAccess
  <2>1. SUFFICES ASSUME IInv, NEW s \in Subjects, newest[s] # 0, NEW e \in EmailsOf[s] \ manual
                 PROVE  access[e] = "enabled" <=>
                          (issued[s][newest[s]].allowed /\ e = issued[s][newest[s]].email)
    BY DEF LatestAccess
  <2>2. /\ "access" \in mix.ops /\ provisioning[s].version # 0
        /\ provisioning[s].email = issued[s][newest[s]].email
        /\ provisioning[s].allowed = issued[s][newest[s]].allowed
    BY <2>1 DEF IInv, Provisioned
  <2> QED BY <2>1, <2>2 DEF IInv, Listed
<1> QED BY <1>1, Invariant, PTL
=============================================================================
