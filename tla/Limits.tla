------------------------------- MODULE Limits -------------------------------
(***************************************************************************)
(* A rate limiter (internal/ratelimit): a window per key, in memory, that  *)
(* starts at the key's first hit.  A request reads the clock, then takes   *)
(* the lock; the sweeper forgets windows in between.  The one modelled is  *)
(* the sign-out limiter, whose key is the session when a request has one.  *)
(***************************************************************************)
EXTENDS Integers, Sequences, FiniteSetsExt

CONSTANTS Conns, Addresses, Sessions,
          WindowMs, Limit,
          MaxTime, MaxDelay  \* bounds: the clock, and how long a request waits for the lock

VARIABLES
  clock,
  windows,  \* per key; a window of no hits is not there
  pending,  \* requests that have read the clock, per connection
  admitted, \* when a key was let through, since the start of the process
  answer    \* the last one

limitVars == <<clock, windows, pending, admitted, answer>>

NoSession == "anonymous"
Keys == Addresses \cup Sessions
Times == 0..MaxTime
NoWindow == [hits |-> 0, resetAt |-> 0]
Idle == [key |-> NoSession, at |-> 0]
NoAnswer == [key |-> NoSession, ok |-> TRUE]

LimitsTypeOK ==
  /\ clock \in Times
  /\ windows \in [Keys -> [hits : 0..Limit + 1, resetAt : 0..MaxTime + WindowMs]]
  /\ pending \in [Conns -> [key : Keys \cup {NoSession}, at : Times]]
  /\ admitted \in [Keys -> Seq(Times)]
  /\ answer \in [key : Keys \cup {NoSession}, ok : BOOLEAN]

\* NewSignout: another client on the address cannot spend a session's budget.
Key(address, session) == IF session = NoSession THEN address ELSE session

Arrive(c, address, session) ==
  /\ pending[c] = Idle /\ pending' = [pending EXCEPT ![c] = [key |-> Key(address, session), at |-> clock]]
  /\ UNCHANGED <<clock, windows, admitted, answer>>

Open(w, at) == w.hits > 0 /\ w.resetAt > at

Hit_SharedReset(c) ==
  LET p == pending[c]
      w == IF windows[p.key].hits > 0 THEN windows[p.key] ELSE [hits |-> 0, resetAt |-> p.at + WindowMs]
      hits == Min({w.hits + 1, Limit + 1})
      ok == hits <= Limit
  IN /\ p # Idle
     /\ windows' = [windows EXCEPT ![p.key] = [w EXCEPT !.hits = hits]]
     /\ pending' = [pending EXCEPT ![c] = Idle] /\ answer' = [key |-> p.key, ok |-> ok]
     /\ admitted' = IF ok THEN [admitted EXCEPT ![p.key] = Append(@, clock)] ELSE admitted
     /\ UNCHANGED clock

\* Under the lock; hits beyond the limit need not be told apart.
Hit(c) ==
  LET p == pending[c]
      w == IF Open(windows[p.key], p.at) THEN windows[p.key] ELSE [hits |-> 0, resetAt |-> p.at + WindowMs]
      hits == Min({w.hits + 1, Limit + 1})
      ok == hits <= Limit
  IN /\ p # Idle
     /\ windows' = [windows EXCEPT ![p.key] = [w EXCEPT !.hits = hits]]
     /\ pending' = [pending EXCEPT ![c] = Idle] /\ answer' = [key |-> p.key, ok |-> ok]
     /\ admitted' = IF ok THEN [admitted EXCEPT ![p.key] = Append(@, clock)] ELSE admitted
     /\ UNCHANGED clock

Sweep ==
  /\ windows' = [k \in Keys |-> IF Open(windows[k], clock) THEN windows[k] ELSE NoWindow]
  /\ UNCHANGED <<clock, pending, admitted, answer>>

Tick ==
  /\ clock < MaxTime /\ \A c \in Conns : pending[c] # Idle => clock < pending[c].at + MaxDelay
  /\ clock' = clock + 1
  /\ UNCHANGED <<windows, pending, admitted, answer>>

\* The windows are in process memory: a restart forgets them.
Restart ==
  /\ windows' = [k \in Keys |-> NoWindow] /\ pending' = [c \in Conns |-> Idle]
  /\ admitted' = [k \in Keys |-> <<>>] /\ answer' = NoAnswer
  /\ UNCHANGED clock

LimitsInit ==
  /\ clock = 0 /\ windows = [k \in Keys |-> NoWindow] /\ pending = [c \in Conns |-> Idle]
  /\ admitted = [k \in Keys |-> <<>>] /\ answer = NoAnswer

LimitsNext ==
  \/ \E c \in Conns, a \in Addresses, s \in Sessions \cup {NoSession} : Arrive(c, a, s)
  \/ \E c \in Conns : Hit(c)
  \/ Sweep \/ Tick \/ Restart

---------------------------------------------------------------------------
(* Properties.                                                             *)

\* In no stretch of a window, less what a request may wait for the lock after
\* it read the clock, does a key get more than two budgets through, whenever
\* the sweeper runs (a fixed window per key, ratelimit.go's Limiter).
NeverTwice ==
  \A k \in Keys : \A i \in DOMAIN admitted[k] :
     i + 2 * Limit \in DOMAIN admitted[k] =>
       admitted[k][i + 2 * Limit] - admitted[k][i] >= WindowMs - MaxDelay

\* A request is refused only when its own key has used up its budget in the
\* window that is open, whatever other clients send.
RefusedForCause ==
  \A k \in Keys, c \in Conns :
    pending[c].key = k /\ pending'[c] = Idle /\ answer' = [key |-> k, ok |-> FALSE] =>
      LET n == Len(admitted[k])
      IN n >= Limit /\ admitted[k][n - Limit + 1] > clock - WindowMs - MaxDelay

BudgetHeld == []NeverTwice /\ [][RefusedForCause]_limitVars
=============================================================================
