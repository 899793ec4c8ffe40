---------------------------- MODULE UpkeepProofs ----------------------------
(***************************************************************************)
(* What holds of the parts that watch over the others, for every value of  *)
(* the constants: the rate limiter (Limits), the health of a page's        *)
(* refreshes (RefreshHealth) and the template library (Templates).         *)
(***************************************************************************)
EXTENDS EstateProofs

---------------------------------------------------------------------------
(* Limits.  Two windows of a key start WindowMs apart, but for the time a  *)
(* request may wait for the lock, and a window lets its budget through:    *)
(* the last of three windows is a stretch after the first has ended.       *)

\* Windows and waits are lengths of time, a budget lets a request through,
\* and the key of a request without a session is its address (ratelimit.New).
Budgets ==
  /\ WindowMs \in Nat /\ MaxDelay \in Nat /\ MaxClock \in Nat /\ Limit \in Nat \ {0}
  /\ L!NoSession \notin L!Keys

Windows == [hits : 0..(Limit + 1), resetAt : Int]
Used(w) == IF w.hits <= Limit THEN w.hits ELSE Limit

\* What the window w of a key and the log of what it let through are at t.
WindowOK(log, w, t) ==
  /\ \A i \in 1..Len(log) : log[i] <= t
  /\ \A i \in 1..Len(log) : i + 2 * Limit <= Len(log) => log[i + 2 * Limit] - log[i] >= WindowMs - MaxDelay
  /\ Used(w) <= Len(log)
  /\ w.hits = 0 => \A i \in 1..Len(log) : i + Limit <= Len(log) => log[i] <= t - (WindowMs - MaxDelay)
  /\ w.hits > 0 =>
       /\ w.resetAt - WindowMs <= t
       /\ \A i \in 1..Len(log) : i + Used(w) <= Len(log) => log[i] <= w.resetAt - WindowMs + MaxDelay
       /\ \A i \in 1..Len(log) : i + Used(w) + Limit <= Len(log) => log[i] <= t - (WindowMs - MaxDelay)
       /\ \A i \in 1..Len(log) : i + Used(w) > Len(log) => log[i] >= w.resetAt - WindowMs

LimitsInv ==
  /\ clock \in Nat
  /\ windows \in [L!Keys -> Windows]
  /\ admitted \in [L!Keys -> Seq(Nat)]
  /\ pending \in [Conns -> [key : L!Keys \cup {L!NoSession}, at : Nat]]
  /\ \A c \in Conns : pending[c] # L!Idle =>
        /\ pending[c].key \in L!Keys
        /\ pending[c].at <= clock /\ clock <= pending[c].at + MaxDelay
  /\ \A k \in L!Keys : WindowOK(admitted[k], windows[k], clock)

LEMMA WindowAges ==
  ASSUME Budgets, NEW log \in Seq(Nat), NEW w \in Windows, NEW t \in Nat, NEW u \in Nat, t <= u, WindowOK(log, w, t)
  PROVE  WindowOK(log, w, u)
<1>1. \A i \in 1..Len(log) : log[i] \in Nat
  OBVIOUS
<1> QED
  BY <1>1, SMTT(60) DEF WindowOK, Budgets, Windows

LEMMA WindowForgotten ==
  ASSUME Budgets, NEW log \in Seq(Nat), NEW w \in Windows, NEW t \in Nat, WindowOK(log, w, t),
         w.hits = 0 \/ w.resetAt <= t
  PROVE  WindowOK(log, L!NoWindow, t)
<1>1. \A i \in 1..Len(log) : log[i] \in Nat
  OBVIOUS
<1>2. Used(w) \in 0..Limit /\ Used(L!NoWindow) = 0 /\ L!NoWindow.hits = 0
  BY DEF Used, Windows, Budgets, L!NoWindow
<1>3. ASSUME NEW i \in 1..Len(log), i + Limit <= Len(log) PROVE log[i] <= t - (WindowMs - MaxDelay)
  <2>1. CASE w.hits = 0
    BY <1>3, <2>1 DEF WindowOK
  <2>2. CASE w.hits > 0 /\ w.resetAt <= t
    <3>1. i + Used(w) <= Len(log)
      BY <1>2, <1>3 DEF Budgets
    <3>2. log[i] <= w.resetAt - WindowMs + MaxDelay
      BY <2>2, <3>1 DEF WindowOK
    <3> QED
      BY <1>1, <2>2, <3>2 DEF Budgets, Windows
  <2> QED
    BY <2>1, <2>2 DEF Windows
<1> QED
  BY <1>1, <1>2, <1>3 DEF WindowOK, Budgets

LEMMA WindowOpened ==
  ASSUME Budgets, NEW log \in Seq(Nat), NEW w \in Windows, NEW t \in Nat, NEW at \in Nat, WindowOK(log, w, t),
         w.hits = 0 \/ w.resetAt <= at, at <= t, t <= at + MaxDelay
  PROVE  WindowOK(Append(log, t), [hits |-> 1, resetAt |-> at + WindowMs], t)
<1> DEFINE n == Len(log)
           new == Append(log, t)
           v == [hits |-> 1, resetAt |-> at + WindowMs]
<1>1. /\ n \in Nat /\ Len(new) = n + 1 /\ new[n + 1] = t /\ \A i \in 1..n : new[i] = log[i] /\ log[i] \in Nat
  OBVIOUS
<1>2. Used(v) = 1 /\ v.hits = 1 /\ v.resetAt = at + WindowMs
  BY DEF Used, Budgets
<1>3. WindowOK(log, L!NoWindow, t)
  BY WindowForgotten DEF Windows, Budgets
<1>4. \A i \in 1..n : i + Limit <= n => log[i] <= t - (WindowMs - MaxDelay)
  BY <1>3 DEF WindowOK, L!NoWindow
<1>5. \A i \in 1..n : log[i] <= t /\ (i + 2 * Limit <= n => log[i + 2 * Limit] - log[i] >= WindowMs - MaxDelay)
  BY DEF WindowOK
<1> HIDE DEF n, new, v
<1>6. \A i \in 1..(n + 1) : new[i] <= t
  BY <1>1, <1>5
<1>7. ASSUME NEW i \in 1..(n + 1), i + 2 * Limit <= n + 1 PROVE new[i + 2 * Limit] - new[i] >= WindowMs - MaxDelay
  <2>1. i \in 1..n /\ i + 2 * Limit \in 1..(n + 1)
    BY <1>1, <1>7 DEF Budgets
  <2>2. CASE i + 2 * Limit = n + 1
    <3>1. log[i] <= t - (WindowMs - MaxDelay)
      BY <1>1, <1>4, <2>1, <2>2 DEF Budgets
    <3>2. new[i + 2 * Limit] = t /\ new[i] = log[i] /\ log[i] \in Nat
      BY <1>1, <2>1, <2>2
    <3> QED
      BY <3>1, <3>2 DEF Budgets
  <2>3. CASE i + 2 * Limit <= n
    BY <1>1, <1>5, <2>1, <2>3 DEF Budgets
  <2> QED
    BY <1>1, <2>1, <2>2, <2>3 DEF Budgets
<1>8. \A i \in 1..(n + 1) : i + 1 <= n + 1 => new[i] <= v.resetAt - WindowMs + MaxDelay
  BY <1>1, <1>2, <1>5 DEF Budgets
<1>9. \A i \in 1..(n + 1) : i + 1 + Limit <= n + 1 => new[i] <= t - (WindowMs - MaxDelay)
  BY <1>1, <1>4 DEF Budgets
<1>10. \A i \in 1..(n + 1) : i + 1 > n + 1 => new[i] >= v.resetAt - WindowMs
  BY <1>1, <1>2 DEF Budgets
<1>11. WindowOK(new, v, t)
  BY <1>1, <1>2, <1>6, <1>7, <1>8, <1>9, <1>10 DEF WindowOK, Budgets
<1> QED
  BY <1>11 DEF new, v

LEMMA WindowCounts ==
  ASSUME Budgets, NEW log \in Seq(Nat), NEW w \in Windows, NEW t \in Nat, WindowOK(log, w, t),
         w.hits > 0, w.hits < Limit
  PROVE  WindowOK(Append(log, t), [w EXCEPT !.hits = w.hits + 1], t)
<1> DEFINE n == Len(log)
           new == Append(log, t)
           v == [w EXCEPT !.hits = w.hits + 1]
<1>1. /\ n \in Nat /\ Len(new) = n + 1 /\ new[n + 1] = t /\ \A i \in 1..n : new[i] = log[i] /\ log[i] \in Nat
  OBVIOUS
<1>2. /\ Used(v) = Used(w) + 1 /\ Used(w) = w.hits /\ w.hits \in Nat /\ v.hits = w.hits + 1
      /\ v.resetAt = w.resetAt /\ w.resetAt \in Int
  BY DEF Used, Budgets, Windows
<1>3. /\ \A i \in 1..n : log[i] <= t
      /\ \A i \in 1..n : i + 2 * Limit <= n => log[i + 2 * Limit] - log[i] >= WindowMs - MaxDelay
      /\ w.hits <= n /\ w.resetAt - WindowMs <= t
      /\ \A i \in 1..n : i + w.hits <= n => log[i] <= w.resetAt - WindowMs + MaxDelay
      /\ \A i \in 1..n : i + w.hits + Limit <= n => log[i] <= t - (WindowMs - MaxDelay)
      /\ \A i \in 1..n : i + w.hits > n => log[i] >= w.resetAt - WindowMs
  BY <1>2 DEF WindowOK
<1> HIDE DEF n, new, v
<1>4. \A i \in 1..(n + 1) : new[i] <= t
  BY <1>1, <1>3
<1>5. ASSUME NEW i \in 1..(n + 1), i + 2 * Limit <= n + 1 PROVE new[i + 2 * Limit] - new[i] >= WindowMs - MaxDelay
  <2>1. i \in 1..n /\ i + 2 * Limit \in 1..(n + 1)
    BY <1>1, <1>5 DEF Budgets
  <2>2. CASE i + 2 * Limit = n + 1
    <3>1. log[i] <= t - (WindowMs - MaxDelay)
      BY <1>1, <1>2, <1>3, <2>1, <2>2 DEF Budgets
    <3>2. new[i + 2 * Limit] = t /\ new[i] = log[i] /\ log[i] \in Nat
      BY <1>1, <2>1, <2>2
    <3> QED
      BY <3>1, <3>2 DEF Budgets
  <2>3. CASE i + 2 * Limit <= n
    BY <1>1, <1>3, <2>1, <2>3 DEF Budgets
  <2> QED
    BY <1>1, <2>1, <2>2, <2>3 DEF Budgets
<1>6. ASSUME NEW i \in 1..(n + 1), i + (w.hits + 1) <= n + 1 PROVE new[i] <= w.resetAt - WindowMs + MaxDelay
  <2>1. i \in 1..n /\ i + w.hits <= n
    BY <1>1, <1>2, <1>6
  <2> QED
    BY <1>1, <1>3, <2>1
<1>7. \A i \in 1..(n + 1) : i + (w.hits + 1) + Limit <= n + 1 => new[i] <= t - (WindowMs - MaxDelay)
  BY <1>1, <1>2, <1>3 DEF Budgets
<1>8. \A i \in 1..(n + 1) : i + (w.hits + 1) > n + 1 => new[i] >= w.resetAt - WindowMs
  BY <1>1, <1>2, <1>3, SMTT(60) DEF Budgets
<1>9. WindowOK(new, v, t)
  BY <1>1, <1>2, <1>3, <1>4, <1>5, <1>6, <1>7, <1>8 DEF WindowOK, Budgets
<1> QED
  BY <1>9 DEF new, v

\* A hit whose window has no budget left opens nothing and admits nothing.
LEMMA WindowRefuses ==
  ASSUME Budgets, NEW log \in Seq(Nat), NEW w \in Windows, NEW t \in Nat, WindowOK(log, w, t), w.hits >= Limit
  PROVE  WindowOK(log, [w EXCEPT !.hits = Limit + 1], t)
<1> DEFINE v == [w EXCEPT !.hits = Limit + 1]
<1>1. Used(v) = Limit /\ Used(w) = Limit /\ v.hits > 0 /\ w.hits > 0 /\ v.resetAt = w.resetAt
  BY DEF Used, Budgets, Windows
<1> HIDE DEF v
<1>2. WindowOK(log, v, t)
  BY <1>1 DEF WindowOK
<1> QED
  BY <1>2 DEF v

\* What a hit does to the window of its key and to what the key was let through.
LEMMA HitKeepsWindow ==
  ASSUME Budgets, LimitsInv, NEW c \in Conns, L!Hit(c)
  PROVE  LET k == pending[c].key IN
         /\ k \in L!Keys
         /\ \/ /\ admitted' = [admitted EXCEPT ![k] = Append(@, clock)] /\ answer' = [key |-> k, ok |-> TRUE]
            \/ /\ admitted' = admitted /\ answer' = [key |-> k, ok |-> FALSE]
               /\ windows[k].hits >= Limit /\ windows[k].resetAt > pending[c].at
         /\ \E w \in Windows : windows' = [windows EXCEPT ![k] = w] /\ WindowOK(admitted'[k], w, clock)
<1> DEFINE p == pending[c]
           k == p.key
           log == admitted[k]
           old == windows[k]
           w == IF L!Open(old, p.at) THEN old ELSE [hits |-> 0, resetAt |-> p.at + WindowMs]
           hits == L!Min({w.hits + 1, Limit + 1})
           v == [w EXCEPT !.hits = hits]
<1>1. /\ k \in L!Keys /\ p.at \in Nat /\ p.at <= clock /\ clock <= p.at + MaxDelay /\ clock \in Nat
      /\ old \in Windows /\ log \in Seq(Nat) /\ WindowOK(log, old, clock)
  BY DEF LimitsInv, L!Hit
<1>2. /\ windows' = [windows EXCEPT ![k] = v] /\ answer' = [key |-> k, ok |-> hits <= Limit]
      /\ admitted' = IF hits <= Limit THEN [admitted EXCEPT ![k] = Append(@, clock)] ELSE admitted
  BY DEF L!Hit
<1>3. admitted \in [L!Keys -> Seq(Nat)]
  BY DEF LimitsInv
<1>4. w \in Windows /\ w.hits \in 0..(Limit + 1)
  BY <1>1 DEF Windows, Budgets
<1>5. hits = IF w.hits <= Limit THEN w.hits + 1 ELSE Limit + 1
  <2>1. \A a, b \in Int : L!Min({a, b}) = IF a <= b THEN a ELSE b
    BY DEF L!Min
  <2> QED
    BY <1>4, <2>1 DEF Budgets
<1> HIDE DEF hits
<1>8. hits <= Limit => (hits <= Limit) = TRUE
  OBVIOUS
<1>9. ~(hits <= Limit) => (hits <= Limit) = FALSE
  OBVIOUS
<1>6. CASE ~L!Open(old, p.at)
  <2>1. v = [hits |-> 1, resetAt |-> p.at + WindowMs] /\ hits = 1 /\ 1 <= Limit
    BY <1>5, <1>6 DEF Budgets
  <2>2. old.hits = 0 \/ old.resetAt <= p.at
    BY <1>1, <1>6 DEF L!Open, Windows, Budgets
  <2>3. v \in Windows
    BY <1>1, <2>1, SMTT(60) DEF Windows, Budgets
  <2>5. WindowOK(Append(log, clock), [hits |-> 1, resetAt |-> p.at + WindowMs], clock)
    <3> HIDE DEF p, log, old
    <3> QED
      BY <1>1, <2>2, WindowOpened
  <2>4. admitted' = [admitted EXCEPT ![k] = Append(@, clock)] /\ admitted'[k] = Append(log, clock)
    BY <1>1, <1>2, <1>3, <2>1
  <2>6. answer' = [key |-> k, ok |-> TRUE]
    BY <1>2, <1>8, <2>1
  <2> QED
    BY <1>1, <1>2, <2>1, <2>3, <2>4, <2>5, <2>6, ZenonT(120)
<1>7. CASE L!Open(old, p.at)
  <2>1. w = old /\ old.hits > 0 /\ old.resetAt > p.at
    BY <1>7 DEF L!Open
  <2>2. CASE old.hits < Limit
    <3>1. v = [old EXCEPT !.hits = old.hits + 1] /\ hits <= Limit
      BY <1>4, <1>5, <2>1, <2>2, SMTT(60) DEF Budgets
    <3>6. old.hits + 1 \in 0..(Limit + 1)
      BY <1>1, <2>2, SMTT(60) DEF Windows, Budgets
    <3>2. v \in Windows
      BY <1>1, <3>1, <3>6 DEF Windows
    <3>4. WindowOK(Append(log, clock), [old EXCEPT !.hits = old.hits + 1], clock)
      <4> HIDE DEF p, log, old
      <4> QED
        BY <1>1, <2>1, <2>2, WindowCounts
    <3>3. admitted' = [admitted EXCEPT ![k] = Append(@, clock)] /\ admitted'[k] = Append(log, clock)
      BY <1>1, <1>2, <1>3, <3>1
    <3>5. answer' = [key |-> k, ok |-> TRUE]
      BY <1>2, <1>8, <3>1
    <3> QED
      BY <1>1, <1>2, <3>1, <3>2, <3>3, <3>4, <3>5, ZenonT(60)
  <2>3. CASE old.hits >= Limit
    <3>1. v = [old EXCEPT !.hits = Limit + 1] /\ ~(hits <= Limit)
      BY <1>4, <1>5, <2>1, <2>3, SMTT(60) DEF Budgets
    <3>2. v \in Windows
      BY <1>1, <3>1, SMTT(60) DEF Windows, Budgets
    <3>4. WindowOK(log, [old EXCEPT !.hits = Limit + 1], clock)
      <4> HIDE DEF p, log, old
      <4> QED
        BY <1>1, <2>3, WindowRefuses
    <3>3. admitted' = admitted
      BY <1>2, <3>1
    <3>5. answer' = [key |-> k, ok |-> FALSE]
      BY <1>2, <1>9, <3>1
    <3> QED
      BY <1>1, <1>2, <2>1, <2>3, <3>1, <3>2, <3>3, <3>4, <3>5
  <2> QED
    BY <1>1, <2>2, <2>3, SMTT(60) DEF Windows, Budgets
<1> QED
  BY <1>6, <1>7

LEMMA LimitsStart == ASSUME Budgets PROVE L!LimitsInit => LimitsInv
<1>1. \A k \in L!Keys : L!NoWindow \in Windows /\ WindowOK(<<>>, L!NoWindow, 0)
  BY DEF WindowOK, Windows, Used, L!NoWindow, Budgets
<1> QED
  BY <1>1 DEF L!LimitsInit, LimitsInv, L!Idle

LEMMA LimitsKeep == ASSUME Budgets, LimitsInv, L!LimitsNext PROVE LimitsInv'
<1>1. ASSUME NEW c \in Conns, NEW a \in Addresses, NEW s \in Sessions \cup {L!NoSession}, L!Arrive(c, a, s)
      PROVE LimitsInv'
  <2>1. L!Key(a, s) \in L!Keys
    BY DEF L!Key, L!Keys
  <2>2. UNCHANGED <<clock, windows, admitted>> /\ pending' = [pending EXCEPT ![c] = [key |-> L!Key(a, s), at |-> clock]]
    BY <1>1 DEF L!Arrive
  <2>3. clock <= clock + MaxDelay
    BY DEF LimitsInv, Budgets
  <2> QED
    BY <2>1, <2>2, <2>3 DEF LimitsInv
<1>2. ASSUME NEW c \in Conns, L!Hit(c) PROVE LimitsInv'
  <2> DEFINE k == pending[c].key
  <2>1. PICK w \in Windows : windows' = [windows EXCEPT ![k] = w] /\ WindowOK(admitted'[k], w, clock)
    BY <1>2, HitKeepsWindow, SMTT(30)
  <2>2. k \in L!Keys /\ clock' = clock /\ pending' = [pending EXCEPT ![c] = L!Idle]
    BY <1>2, HitKeepsWindow DEF L!Hit
  <2>3. /\ admitted' = [admitted EXCEPT ![k] = admitted'[k]] /\ admitted'[k] \in Seq(Nat)
    <3>1. admitted \in [L!Keys -> Seq(Nat)] /\ clock \in Nat
      BY DEF LimitsInv
    <3>2. admitted' = [admitted EXCEPT ![k] = Append(@, clock)] \/ admitted' = admitted
      BY <1>2, HitKeepsWindow
    <3> HIDE DEF k
    <3>3. ASSUME admitted' = [admitted EXCEPT ![k] = Append(@, clock)]
          PROVE  admitted'[k] = Append(admitted[k], clock) /\ Append(admitted[k], clock) \in Seq(Nat)
      BY <2>2, <3>1, <3>3
    <3>4. admitted[k] \in Seq(Nat) /\ admitted = [admitted EXCEPT ![k] = admitted[k]]
      BY <2>2, <3>1
    <3> QED
      BY <3>2, <3>3, <3>4
  <2>4. L!Idle \in [key : L!Keys \cup {L!NoSession}, at : Nat]
    BY DEF L!Idle
  <2>5. windows' \in [L!Keys -> Windows] /\ admitted' \in [L!Keys -> Seq(Nat)]
    BY <2>1, <2>2, <2>3 DEF LimitsInv
  <2>6. \A j \in L!Keys : WindowOK(admitted'[j], windows'[j], clock)
    BY <2>1, <2>2, <2>3 DEF LimitsInv
  <2> QED
    BY <2>2, <2>4, <2>5, <2>6 DEF LimitsInv
<1>3. CASE L!Sweep
  <2>1. UNCHANGED <<clock, pending, admitted>>
    BY <1>3 DEF L!Sweep
  <2>2. ASSUME NEW k \in L!Keys PROVE windows'[k] \in Windows /\ WindowOK(admitted[k], windows'[k], clock)
    <3>1. windows[k] \in Windows /\ admitted[k] \in Seq(Nat) /\ WindowOK(admitted[k], windows[k], clock) /\ clock \in Nat
      BY DEF LimitsInv
    <3>2. windows'[k] = IF L!Open(windows[k], clock) THEN windows[k] ELSE L!NoWindow
      BY <1>3 DEF L!Sweep
    <3>3. L!NoWindow \in Windows
      BY DEF L!NoWindow, Windows, Budgets
    <3>4. ~L!Open(windows[k], clock) => windows[k].hits = 0 \/ windows[k].resetAt <= clock
      BY <3>1 DEF L!Open, Windows, Budgets
    <3> QED
      BY <3>1, <3>2, <3>3, <3>4, WindowForgotten
  <2>3. windows' \in [L!Keys -> Windows]
    BY <1>3, <2>2 DEF L!Sweep
  <2> QED
    BY <2>1, <2>2, <2>3 DEF LimitsInv
<1>4. CASE L!Tick
  <2>1. clock' = clock + 1 /\ UNCHANGED <<windows, pending, admitted>> /\ clock \in Nat
    BY <1>4 DEF L!Tick, LimitsInv
  <2>2. \A k \in L!Keys : WindowOK(admitted[k], windows[k], clock + 1)
    BY <2>1, WindowAges DEF LimitsInv
  <2>3. ASSUME NEW c \in Conns, pending[c] # L!Idle
        PROVE  pending[c].key \in L!Keys /\ pending[c].at <= clock + 1 /\ clock + 1 <= pending[c].at + MaxDelay
    BY <1>4, <2>1, <2>3 DEF L!Tick, LimitsInv, Budgets
  <2>4. clock' \in Nat
    BY <2>1
  <2> QED
    BY <2>1, <2>2, <2>3, <2>4 DEF LimitsInv
<1>5. CASE L!Restart
  <2>1. UNCHANGED clock /\ windows' = [k \in L!Keys |-> L!NoWindow] /\ pending' = [c \in Conns |-> L!Idle]
        /\ admitted' = [k \in L!Keys |-> <<>>] /\ clock \in Nat
    BY <1>5 DEF L!Restart, LimitsInv
  <2>2. L!NoWindow \in Windows /\ WindowOK(<<>>, L!NoWindow, clock)
    BY <2>1 DEF WindowOK, Windows, Used, L!NoWindow, Budgets
  <2>3. L!Idle \in [key : L!Keys \cup {L!NoSession}, at : Nat]
    BY DEF L!Idle
  <2> QED
    BY <2>1, <2>2, <2>3 DEF LimitsInv
<1> QED
  BY <1>1, <1>2, <1>3, <1>4, <1>5 DEF L!LimitsNext

\* Whatever request waits for the lock, and whenever the sweeper or a restart
\* forgets the windows, a key gets at most two budgets through in a stretch of
\* a window, and none of its requests is refused but for what it was let
\* through itself (internal/ratelimit: Hit, Sweep).
THEOREM BudgetsAreHeld == ASSUME Budgets PROVE Spec => BudgetHeld
<1>1. Init => LimitsInv
  BY LimitsStart DEF Init
<1>2. LimitsInv /\ [Next]_vars => LimitsInv'
  <2> SUFFICES ASSUME LimitsInv, [Next]_vars PROVE LimitsInv'
    OBVIOUS
  <2>1. [L!LimitsNext]_lv
    BY Parts
  <2>2. CASE UNCHANGED lv
    BY <2>2 DEF lv, LimitsInv
  <2> QED
    BY <2>1, <2>2, LimitsKeep
<1>3. LimitsInv => L!NeverTwice
  <2> SUFFICES ASSUME LimitsInv, NEW k \in L!Keys, NEW i \in DOMAIN admitted[k], i + 2 * Limit \in DOMAIN admitted[k]
               PROVE  admitted[k][i + 2 * Limit] - admitted[k][i] >= WindowMs - MaxDelay
    BY DEF L!NeverTwice
  <2>1. admitted[k] \in Seq(Nat) /\ WindowOK(admitted[k], windows[k], clock)
    BY DEF LimitsInv
  <2> QED
    BY <2>1, SMTT(60) DEF WindowOK
<1>4. LimitsInv /\ [Next]_vars => [L!RefusedForCause]_(L!limitVars)
  <2> SUFFICES ASSUME LimitsInv, [Next]_vars, L!LimitsNext PROVE L!RefusedForCause
    <3>1. [Next]_vars => [L!LimitsNext]_lv
      BY Parts
    <3> QED
      BY <3>1 DEF lv, L!limitVars
  <2> SUFFICES ASSUME NEW k \in L!Keys, NEW c \in Conns, pending[c].key = k, pending'[c] = L!Idle,
                      answer' = [key |-> k, ok |-> FALSE]
               PROVE  /\ Len(admitted[k]) >= Limit
                      /\ admitted[k][Len(admitted[k]) - Limit + 1] > clock - WindowMs - MaxDelay
    BY DEF L!RefusedForCause
  <2>1. pending[c] # L!Idle
    BY DEF L!Idle, Budgets
  <2>2. pending'[c] # pending[c]
    BY <2>1
  <2>3. ~L!Sweep /\ ~L!Tick
    BY <2>2 DEF L!Sweep, L!Tick
  <2>4. ~L!Restart
    BY DEF L!Restart, L!NoAnswer
  <2>5. ASSUME NEW d \in Conns, NEW a \in Addresses, NEW s \in Sessions \cup {L!NoSession}, L!Arrive(d, a, s) PROVE FALSE
    <3>1. pending' = [pending EXCEPT ![d] = [key |-> L!Key(a, s), at |-> clock]] /\ pending[d] = L!Idle
      BY <2>5 DEF L!Arrive
    <3>2. d # c
      BY <2>1, <3>1
    <3> QED
      BY <2>2, <3>1, <3>2 DEF LimitsInv
  <2>6. PICK d \in Conns : L!Hit(d)
    BY <2>3, <2>4, <2>5 DEF L!LimitsNext
  <2>7. d = c
    BY <2>2, <2>6 DEF L!Hit, LimitsInv
  <2>8. windows[k].hits >= Limit /\ windows[k].resetAt > pending[c].at
    BY <2>6, <2>7, HitKeepsWindow
  <2>9. /\ windows[k] \in Windows /\ admitted[k] \in Seq(Nat) /\ WindowOK(admitted[k], windows[k], clock) /\ clock \in Nat
        /\ pending[c].at \in Nat /\ clock <= pending[c].at + MaxDelay
    BY <2>1 DEF LimitsInv
  <2> DEFINE n == Len(admitted[k])
             i == n - Limit + 1
  <2>10. Used(windows[k]) = Limit /\ windows[k].hits > 0
    BY <2>8, <2>9 DEF Used, Windows, Budgets
  <2>11. n >= Limit /\ n \in Nat
    BY <2>9, <2>10 DEF WindowOK
  <2>12. i \in 1..n /\ i + Used(windows[k]) > n
    BY <2>10, <2>11 DEF Budgets
  <2>13. admitted[k][i] >= windows[k].resetAt - WindowMs
    BY <2>9, <2>10, <2>12 DEF WindowOK
  <2> HIDE DEF i
  <2>14. admitted[k][i] \in Nat
    BY <2>9, <2>12
  <2>16. windows[k].resetAt \in Int
    BY <2>9 DEF Windows
  <2>15. admitted[k][i] > clock - WindowMs - MaxDelay
    BY <2>8, <2>9, <2>13, <2>14, <2>16, SMTT(60) DEF Budgets
  <2> QED
    BY <2>11, <2>15 DEF i
<1> QED
  BY <1>1, <1>2, <1>3, <1>4, PTL DEF Spec, BudgetHeld, L!BudgetHeld

---------------------------------------------------------------------------
(* RefreshHealth.  Activity answers a fire when it is near enough to it,   *)
(* and then so does any later one; the first fire that the latest activity *)
(* does not answer is the next one or the one after that.                  *)

\* A schedule fires at positive times; graces and bounds are lengths of time.
FireTimes ==
  /\ Schedules \subseteq SUBSET (Nat \ {0})
  /\ RefreshGrace \in Nat /\ RefreshEarly \in Nat /\ MaxTime \in Nat \ {0}

LEMMA LatestIs ==
  ASSUME NEW n \in Nat, NEW S \in SUBSET Nat, S # {}, \A x \in S : x <= n
  PROVE  H!Latest(S) \in S /\ \A y \in S : y <= H!Latest(S)
<1> DEFINE Left == {n - x : x \in S}
<1>1. Left \subseteq Nat /\ Left # {}
  <2>1. ASSUME NEW x \in S PROVE n - x \in Nat
    BY x \in Nat /\ x <= n
  <2> QED
    BY <2>1
<1>2. PICK m \in Left : \A k \in Left : m <= k
  <2> HIDE DEF Left
  <2> QED
    BY <1>1, NatMin
<1>3. PICK x \in S : m = n - x
  BY <1>2
<1>4. ASSUME NEW y \in S PROVE y <= x
  <2>1. m <= n - y /\ x \in Nat /\ y \in Nat
    BY <1>2
  <2> QED
    BY <1>3, <2>1
<1> QED
  BY <1>4 DEF H!Latest

LEMMA LatestOfTwo ==
  ASSUME NEW a \in Nat, NEW b \in Nat
  PROVE  H!Latest({a, b}) = IF a <= b THEN b ELSE a
<1>1. CASE a <= b
  <2>1. H!Latest({a, b}) \in {a, b} /\ b <= H!Latest({a, b})
    BY <1>1, LatestIs
  <2> QED
    BY <1>1, <2>1
<1>2. CASE ~(a <= b)
  <2>1. b <= a
    BY <1>2
  <2>2. H!Latest({a, b}) \in {a, b} /\ a <= H!Latest({a, b})
    BY <2>1, LatestIs
  <2> QED
    BY <1>2, <2>2
<1> QED
  BY <1>1, <1>2

LEMMA SoonestIs ==
  ASSUME NEW S \in SUBSET Nat, NEW x \in S, \A y \in S : x <= y
  PROVE  H!Soonest(S) = x
<1>1. H!Soonest(S) \in S /\ \A y \in S : H!Soonest(S) <= y
  BY DEF H!Soonest
<1>2. H!Soonest(S) <= x /\ x <= H!Soonest(S) /\ x \in Nat /\ H!Soonest(S) \in Nat
  BY <1>1
<1> QED
  BY <1>2

LEMMA PrevIs ==
  ASSUME fires \in SUBSET (Nat \ {0}), NEW t \in Int
  PROVE  /\ H!Prev(t) \in Nat
         /\ H!Prev(t) # 0 => H!Prev(t) \in fires /\ H!Prev(t) <= t
         /\ \A f \in fires : f <= t => f <= H!Prev(t) /\ H!Prev(t) # 0
<1> DEFINE S == {f \in fires : f <= t}
<1>1. CASE S = {}
  <2>1. H!Prev(t) = 0
    BY <1>1 DEF H!Prev, H!Latest
  <2> QED
    BY <1>1, <2>1
<1>2. CASE S # {}
  <2>1. PICK x \in S : TRUE
    BY <1>2
  <2>5. x \in Nat /\ x <= t
    BY <2>1
  <2>6. t \in Nat
    BY <2>5
  <2>7. S \in SUBSET Nat
    OBVIOUS
  <2>2. t \in Nat /\ S \in SUBSET Nat /\ \A f \in S : f <= t
    BY <2>6, <2>7
  <2>3. H!Latest(S) \in S /\ \A y \in S : y <= H!Latest(S)
    <3> HIDE DEF S
    <3> QED
      BY <1>2, <2>2, LatestIs
  <2>4. H!Prev(t) = H!Latest(S)
    BY DEF H!Prev
  <2> QED
    BY <2>3, <2>4
<1> QED
  BY <1>1, <1>2

LEMMA NextIs ==
  ASSUME fires \in SUBSET (Nat \ {0}), NEW t \in Nat, NEW g \in fires, t < g
  PROVE  /\ H!Next(t) \in fires /\ t < H!Next(t)
         /\ \A f \in fires : t < f => H!Next(t) <= f
<1> DEFINE S == {f \in fires : f > t}
<1>1. S \in SUBSET Nat /\ S # {}
  OBVIOUS
<1>2. PICK x \in S : \A y \in S : x <= y
  <2> HIDE DEF S
  <2> QED
    BY <1>1, NatMin
<1>3. H!Soonest(S) = x
  <2> HIDE DEF S
  <2> QED
    BY <1>1, <1>2, SoonestIs
<1>4. H!Next(t) = x
  BY <1>3 DEF H!Next
<1> QED
  BY <1>2, <1>4

\* When an activity answers a fire, by the words of the rule.
Near(a, fire) == a >= fire - RefreshEarly /\ \A f \in fires : f < fire => 2 * a >= f + fire

LEMMA CoversIs ==
  ASSUME FireTimes, fires \in SUBSET (Nat \ {0}), NEW a \in Nat, NEW fire \in fires
  PROVE  H!covers(a, fire) <=> a # 0 /\ Near(a, fire)
<1> DEFINE prev == H!Prev(fire - 1)
           half == (fire - prev) \div 2
<1>1. /\ fire \in Nat /\ fire # 0 /\ RefreshEarly \in Nat
      /\ prev \in Nat /\ (prev # 0 => prev \in fires /\ prev < fire)
      /\ \A f \in fires : f < fire => f <= prev /\ prev # 0
  <2>1. fire - 1 \in Int /\ fire \in Nat
    OBVIOUS
  <2>2. /\ prev \in Nat /\ (prev # 0 => prev \in fires /\ prev <= fire - 1)
        /\ \A f \in fires : f <= fire - 1 => f <= prev /\ prev # 0
    BY <2>1, PrevIs
  <2> HIDE DEF prev
  <2> QED
    BY <2>1, <2>2 DEF FireTimes
<1>2. H!earlyTolerance(fire) = IF prev # 0 /\ half < RefreshEarly THEN half ELSE RefreshEarly
  BY DEF H!earlyTolerance
<1>3. half \in Int /\ 2 * half <= fire - prev /\ fire - prev < 2 * half + 2
  <2> HIDE DEF prev
  <2> QED
    BY <1>1
<1> HIDE DEF prev, half
<1>4. CASE prev = 0
  <2>1. Near(a, fire) <=> a >= fire - RefreshEarly
    BY <1>1, <1>4 DEF Near
  <2> QED
    BY <1>2, <1>4, <2>1 DEF H!covers
<1>5. CASE prev # 0
  <2>1. Near(a, fire) <=> a >= fire - RefreshEarly /\ 2 * a >= prev + fire
    BY <1>1, <1>5 DEF Near
  <2>2. 2 * a >= prev + fire <=> a >= fire - half
    BY <1>1, <1>3
  <2> QED
    BY <1>1, <1>2, <1>3, <1>5, <2>1, <2>2 DEF H!covers
<1> QED
  BY <1>4, <1>5

HealthInv ==
  /\ fires \in Schedules
  /\ now \in H!Times /\ H!Created <= now
  /\ hrows \in Seq(H!Rows)
  /\ hpage \in [scheduled : BOOLEAN, gated : BOOLEAN, live : 0..Len(hrows)]
  /\ check \in H!Checks /\ waiting \in H!Checks /\ newest \in H!Times
  /\ check.at <= newest
  /\ \A i \in DOMAIN hrows : hrows[i].run => hrows[i].refreshed # 0
  /\ \A i \in DOMAIN hrows : hrows[i].refreshed # 0 =>
       \E j \in DOMAIN hrows : hrows[j].run /\ hrows[j].refreshed = hrows[i].refreshed

LEMMA HealthStarts == ASSUME FireTimes PROVE H!HealthInit => HealthInv
<1> SUFFICES ASSUME H!HealthInit PROVE HealthInv
  OBVIOUS
<1> DEFINE bare == [created |-> H!Created, refreshed |-> H!Created, source |-> H!Epoch, run |-> TRUE]
<1>1. 0 \in H!Times /\ H!Created \in H!Times /\ H!Created # 0
  BY DEF H!Times, H!Created, FireTimes
<1>2. H!NoRow \in H!Rows /\ bare \in H!Rows /\ [at |-> 0, failed |-> FALSE] \in H!Checks
  BY <1>1 DEF H!NoRow, H!Rows, H!Checks
<1>3. /\ now = H!Created /\ fires \in Schedules /\ check = [at |-> 0, failed |-> FALSE] /\ waiting = check /\ newest = 0
      /\ hrows \in {<<>>, <<H!NoRow>>, <<bare>>}
      /\ hpage \in [scheduled : BOOLEAN, gated : BOOLEAN, live : {Len(hrows)}]
  BY DEF H!HealthInit
<1>4. hrows \in Seq(H!Rows) /\ Len(hrows) \in Nat
  <2> HIDE DEF bare
  <2>1. \A r \in H!Rows : <<r>> \in Seq(H!Rows)
    OBVIOUS
  <2>2. <<>> \in Seq(H!Rows)
    OBVIOUS
  <2>3. hrows \in Seq(H!Rows)
    BY <1>2, <1>3, <2>1, <2>2
  <2> QED
    BY <2>3
<1>5. hpage \in [scheduled : BOOLEAN, gated : BOOLEAN, live : 0..Len(hrows)]
  BY <1>3, <1>4
<1>6. \A i \in DOMAIN hrows : i = 1 /\ hrows[i] \in {H!NoRow, bare}
  BY <1>3
<1>7. ~H!NoRow.run /\ H!NoRow.refreshed = 0 /\ bare.run /\ bare.refreshed = H!Created
  BY DEF H!NoRow
<1>8. check \in H!Checks /\ waiting \in H!Checks /\ check.at <= newest
  BY <1>2, <1>3
<1> HIDE DEF bare
<1>9. \A i \in DOMAIN hrows : hrows[i].run => hrows[i].refreshed # 0
  BY <1>1, <1>6, <1>7
<1>10. \A i \in DOMAIN hrows : hrows[i].refreshed # 0 => hrows[i].run
  BY <1>6, <1>7
<1> QED
  BY <1>1, <1>3, <1>4, <1>5, <1>8, <1>9, <1>10 DEF HealthInv, H!Created

\* A row that a refresh writes, or one that copies the live row's stamp.
LEMMA InsertedRows ==
  ASSUME FireTimes, HealthInv, NEW row \in H!Rows, NEW publish, H!Insert(row, publish),
         UNCHANGED <<now, fires, check, waiting, newest>>,
         row.run => row.refreshed # 0,
         row.refreshed # 0 => row.run \/ \E j \in DOMAIN hrows : hrows[j].refreshed = row.refreshed
  PROVE  HealthInv'
<1> DEFINE n == Len(hrows) + 1
<1>1. /\ hrows \in Seq(H!Rows) /\ Len(hrows) \in Nat /\ DOMAIN hrows = 1..Len(hrows)
      /\ hrows' = Append(hrows, row)
      /\ hpage' = IF publish /\ ~hpage.gated THEN [hpage EXCEPT !.live = n] ELSE hpage
  BY DEF HealthInv, H!Insert
<1>2. /\ hrows' \in Seq(H!Rows) /\ Len(hrows') = n /\ DOMAIN hrows' = 1..n /\ hrows'[n] = row
      /\ \A i \in DOMAIN hrows : i \in DOMAIN hrows' /\ hrows'[i] = hrows[i]
      /\ \A i \in DOMAIN hrows' : i # n => i \in DOMAIN hrows
  BY <1>1
<1>3. hpage' \in [scheduled : BOOLEAN, gated : BOOLEAN, live : 0..n]
  BY <1>1 DEF HealthInv
<1> HIDE DEF n
<1>4. \A i \in DOMAIN hrows' : hrows'[i].run => hrows'[i].refreshed # 0
  BY <1>2 DEF HealthInv
<1>5. ASSUME NEW i \in DOMAIN hrows', hrows'[i].refreshed # 0
      PROVE  \E j \in DOMAIN hrows' : hrows'[j].run /\ hrows'[j].refreshed = hrows'[i].refreshed
  <2>1. CASE i # n
    BY <1>2, <1>5, <2>1, ZenonT(120) DEF HealthInv
  <2>2. CASE i = n /\ row.run
    BY <1>2, <1>5, <2>2
  <2>3. CASE i = n /\ ~row.run
    <3>1. PICK j \in DOMAIN hrows : hrows[j].refreshed = row.refreshed
      BY <1>2, <1>5, <2>3
    <3>2. hrows[j].refreshed # 0
      BY <1>2, <1>5, <2>3, <3>1
    <3>3. PICK k \in DOMAIN hrows : hrows[k].run /\ hrows[k].refreshed = hrows[j].refreshed
      BY <3>2 DEF HealthInv
    <3> QED
      BY <1>2, <2>3, <3>1, <3>3
  <2> QED
    BY <2>1, <2>2, <2>3
<1> QED
  BY <1>2, <1>3, <1>4, <1>5 DEF HealthInv

LEMMA HealthKeeps == ASSUME FireTimes, HealthInv, H!HealthNext PROVE HealthInv'
<1>1. CASE H!HealthTick
  <2>1. now' = now + 1 /\ now < MaxTime /\ now \in Nat /\ H!Created <= now /\ MaxTime \in Nat
    BY <1>1 DEF H!HealthTick, HealthInv, H!Times, FireTimes
  <2>2. now' \in H!Times /\ H!Created <= now'
    BY <2>1 DEF H!Times, H!Created
  <2> QED
    BY <1>1, <2>2 DEF H!HealthTick, HealthInv
<1>2. ASSUME NEW begun \in H!Begun, NEW source \in H!Times, NEW publish \in BOOLEAN, H!RefreshData(begun, source, publish)
      PROVE  HealthInv'
  <2> DEFINE row == [created |-> begun, refreshed |-> begun, source |-> source, run |-> TRUE]
  <2>1. row \in H!Rows /\ begun # 0
    BY DEF H!Rows, H!Created, H!Begun
  <2>2. H!Insert(row, publish) /\ UNCHANGED <<now, fires, check, waiting, newest>>
    BY <1>2 DEF H!RefreshData
  <2>3. row.run /\ row.refreshed = begun
    OBVIOUS
  <2> HIDE DEF row
  <2> QED
    BY <2>1, <2>2, <2>3, InsertedRows
<1>3. ASSUME NEW begun \in H!Begun, H!EditConfig(begun) PROVE HealthInv'
  <2> DEFINE row == [H!Live EXCEPT !.created = begun, !.run = FALSE]
  <2>1. hpage.live \in DOMAIN hrows /\ H!Live = hrows[hpage.live] /\ H!Live \in H!Rows
    BY <1>3 DEF H!EditConfig, H!Live, HealthInv
  <2>2. row \in H!Rows /\ ~row.run /\ row.refreshed = H!Live.refreshed
    BY <2>1 DEF H!Rows, H!Begun
  <2>3. H!Insert(row, TRUE) /\ UNCHANGED <<now, fires, check, waiting, newest>>
    BY <1>3 DEF H!EditConfig
  <2> HIDE DEF row
  <2> QED
    BY <2>1, <2>2, <2>3, InsertedRows
<1>4. ASSUME NEW v \in DOMAIN hrows, H!PointAt(v) PROVE HealthInv'
  <2>1. v \in 0..Len(hrows)
    BY DEF HealthInv
  <2> QED
    BY <1>4, <2>1 DEF H!PointAt, HealthInv
<1>5. ASSUME NEW failed \in BOOLEAN, H!StartCheck(failed) PROVE HealthInv'
  BY <1>5 DEF H!StartCheck, HealthInv, H!Checks
<1>6. ASSUME NEW c \in H!Checks, H!RecordRefreshCheck(c), waiting' \in H!Checks PROVE HealthInv'
  <2>1. newest \in Nat /\ c.at \in Nat /\ newest \in H!Times /\ c.at \in H!Times
    BY DEF HealthInv, H!Checks, H!Times
  <2>2. newest' = IF newest <= c.at THEN c.at ELSE newest
    BY <1>6, <2>1, LatestOfTwo DEF H!RecordRefreshCheck
  <2>3. newest' \in H!Times /\ c.at <= newest' /\ check' = c
    BY <1>6, <2>1, <2>2 DEF H!RecordRefreshCheck
  <2> QED
    BY <1>6, <2>3 DEF H!RecordRefreshCheck, HealthInv
<1>7. ASSUME NEW failed \in BOOLEAN, H!CheckAtOnce(failed) PROVE HealthInv'
  <2>1. [at |-> now, failed |-> failed] \in H!Checks /\ waiting \in H!Checks
    BY DEF HealthInv, H!Checks
  <2> QED
    BY <1>6, <1>7, <2>1 DEF H!CheckAtOnce
<1>8. CASE H!FinishCheck
  <2>1. waiting \in H!Checks /\ [at |-> 0, failed |-> FALSE] \in H!Checks
    BY DEF HealthInv, H!Checks, H!Times, FireTimes
  <2> QED
    BY <1>6, <1>8, <2>1 DEF H!FinishCheck
<1>9. CASE H!SetRefreshSchedule
  BY <1>9 DEF H!SetRefreshSchedule, HealthInv
<1>10. CASE H!SetGate
  BY <1>10 DEF H!SetGate, HealthInv
<1> QED
  BY <1>1, <1>2, <1>3, <1>4, <1>5, <1>7, <1>8, <1>9, <1>10 DEF H!HealthNext

Activity == H!Latest({H!Latest({H!Live.refreshed, H!NewestRefreshAt}), check.at})
DueFire == H!Prev(now - RefreshGrace)

LEMMA RowTimes ==
  ASSUME HealthInv
  PROVE  /\ DOMAIN hrows = 1..Len(hrows) /\ Len(hrows) \in Nat
         /\ \A i \in DOMAIN hrows : i \in Nat /\ hrows[i].refreshed \in H!Times /\ hrows[i].created \in H!Times
<1>1. hrows \in Seq(H!Rows)
  BY DEF HealthInv
<1>2. \A i \in DOMAIN hrows : i \in Nat /\ hrows[i] \in H!Rows
  BY <1>1
<1> QED
  BY <1>1, <1>2 DEF H!Rows

\* The newest stamp is one of the versions' stamps, and no version that carries
\* one is newer than its.
LEMMA NewestStamp ==
  ASSUME FireTimes, HealthInv
  PROVE  /\ H!NewestRefreshAt \in H!Times
         /\ H!NewestRefreshAt # 0 => \E i \in DOMAIN hrows : hrows[i].refreshed = H!NewestRefreshAt
         /\ \A i \in DOMAIN hrows : hrows[i].refreshed # 0 =>
              \E w \in DOMAIN hrows : /\ w = i \/ H!Newer(w, i)
                                     /\ hrows[w].refreshed # 0 /\ hrows[w].refreshed = H!NewestRefreshAt
<1> DEFINE stamped == {i \in DOMAIN hrows : hrows[i].refreshed # 0}
           last == H!Latest({hrows[i].created : i \in stamped})
           top == {i \in stamped : hrows[i].created = last}
<1>1. /\ DOMAIN hrows = 1..Len(hrows) /\ Len(hrows) \in Nat
      /\ \A i \in DOMAIN hrows : i \in Nat /\ hrows[i].refreshed \in H!Times /\ hrows[i].created \in H!Times
  BY RowTimes
<1>2. H!NewestRefreshAt = IF stamped = {} THEN 0 ELSE hrows[H!Latest(top)].refreshed
  BY DEF H!NewestRefreshAt
<1>3. CASE stamped = {}
  <2>1. 0 \in H!Times
    BY DEF FireTimes, H!Times
  <2> QED
    BY <1>2, <1>3, <2>1
<1>4. CASE stamped # {}
  <2>1. last \in Nat /\ top # {} /\ \A i \in stamped : hrows[i].created <= last
    <3> DEFINE all == {hrows[i].created : i \in stamped}
    <3>1. \A i \in stamped : hrows[i].created \in all
      OBVIOUS
    <3>2. all \in SUBSET Nat /\ all # {} /\ MaxTime \in Nat /\ \A x \in all : x <= MaxTime
      <4>1. \A i \in stamped : hrows[i].created \in H!Times
        BY <1>1
      <4>2. MaxTime \in Nat /\ H!Times = 0..MaxTime
        BY DEF FireTimes, H!Times
      <4>3. \A x \in all : x \in H!Times
        BY <4>1
      <4>4. all # {}
        BY <1>4, <3>1
      <4> HIDE DEF all, stamped
      <4> QED
        BY <4>2, <4>3, <4>4
    <3>3. last \in all /\ \A x \in all : x <= last
      <4> HIDE DEF all, stamped
      <4>1. H!Latest(all) \in all /\ \A x \in all : x <= H!Latest(all)
        BY <3>2, LatestIs
      <4> QED
        BY <4>1 DEF all
    <3>4. PICK i \in stamped : hrows[i].created = last
      BY <3>3
    <3> QED
      BY <3>1, <3>2, <3>3, <3>4
  <2>2. top \in SUBSET Nat /\ \A x \in top : x <= Len(hrows)
    BY <1>1
  <2>3. H!Latest(top) \in top /\ \A y \in top : y <= H!Latest(top)
    <3> HIDE DEF top
    <3> QED
      BY <1>1, <2>1, <2>2, LatestIs
  <2> DEFINE w == H!Latest(top)
  <2>4. w \in stamped /\ hrows[w].created = last /\ H!NewestRefreshAt = hrows[w].refreshed
    BY <1>2, <1>4, <2>3
  <2>5. ASSUME NEW i \in stamped PROVE w = i \/ H!Newer(w, i)
    <3>1. i \in Nat /\ w \in Nat /\ hrows[i].created \in Nat /\ hrows[i].created <= last /\ last \in Nat
      BY <1>1, <2>1, <2>4 DEF H!Times
    <3>2. hrows[i].created = last => i <= w
      BY <2>3
    <3> HIDE DEF w, last
    <3> QED
      BY <2>4, <3>1, <3>2 DEF H!Newer
  <2> HIDE DEF w
  <2> QED
    BY <1>1, <2>4, <2>5
<1> QED
  BY <1>3, <1>4

LEMMA ActivityIs ==
  ASSUME FireTimes, HealthInv
  PROVE  /\ H!Live.refreshed \in H!Times /\ H!NewestRefreshAt \in H!Times /\ check.at \in H!Times
         /\ Activity \in {H!Live.refreshed, H!NewestRefreshAt, check.at}
         /\ H!Live.refreshed <= Activity /\ H!NewestRefreshAt <= Activity /\ check.at <= Activity
         /\ Activity \in H!Times /\ Activity \in Nat
         /\ H!Live.refreshed # 0 => \E i \in DOMAIN hrows : hrows[i].refreshed = H!Live.refreshed
<1>1. H!Live.refreshed \in H!Times /\ (H!Live.refreshed # 0 => \E i \in DOMAIN hrows : hrows[i].refreshed = H!Live.refreshed)
  <2>1. CASE hpage.live = 0
    <3>1. H!Live.refreshed = 0
      BY <2>1 DEF H!Live, H!NoRow
    <3> QED
      BY <3>1 DEF FireTimes, H!Times
  <2>2. CASE hpage.live # 0
    <3>1. hpage.live \in DOMAIN hrows /\ H!Live = hrows[hpage.live]
      BY <2>2 DEF H!Live, HealthInv
    <3>2. hrows[hpage.live] \in H!Rows
      BY <3>1 DEF HealthInv
    <3> QED
      BY <3>1, <3>2 DEF H!Rows
  <2> QED
    BY <2>1, <2>2
<1>2. H!NewestRefreshAt \in H!Times /\ check.at \in H!Times
  BY NewestStamp DEF HealthInv, H!Checks
<1>3. H!Times \subseteq Nat
  BY DEF H!Times
<1>4. H!Latest({H!Live.refreshed, H!NewestRefreshAt})
        = IF H!Live.refreshed <= H!NewestRefreshAt THEN H!NewestRefreshAt ELSE H!Live.refreshed
  BY <1>1, <1>2, <1>3, LatestOfTwo
<1> DEFINE last == H!Latest({H!Live.refreshed, H!NewestRefreshAt})
<1>5. last \in Nat
  BY <1>1, <1>2, <1>3, <1>4
<1>6. Activity = IF last <= check.at THEN check.at ELSE last
  BY <1>2, <1>3, <1>5, LatestOfTwo DEF Activity
<1>7. last \in {H!Live.refreshed, H!NewestRefreshAt} /\ H!Live.refreshed <= last /\ H!NewestRefreshAt <= last
  <2>1. H!Live.refreshed \in Nat /\ H!NewestRefreshAt \in Nat
    BY <1>1, <1>2, <1>3
  <2>2. \A x, y \in Nat : last = (IF x <= y THEN y ELSE x) => last \in {x, y} /\ x <= last /\ y <= last
    OBVIOUS
  <2> QED
    BY <1>4, <2>1, <2>2
<1> HIDE DEF last
<1>8. Activity \in {last, check.at} /\ last <= Activity /\ check.at <= Activity
  <2>1. check.at \in Nat
    BY <1>2, <1>3
  <2>2. \A x, y \in Nat : Activity = (IF x <= y THEN y ELSE x) => Activity \in {x, y} /\ x <= Activity /\ y <= Activity
    OBVIOUS
  <2> QED
    BY <1>5, <1>6, <2>1, <2>2
<1>9. Activity \in {H!Live.refreshed, H!NewestRefreshAt, check.at}
  BY <1>7, <1>8
<1>10. Activity \in H!Times /\ Activity \in Nat
  BY <1>1, <1>2, <1>3, <1>9
<1>11. H!Live.refreshed <= Activity /\ H!NewestRefreshAt <= Activity
  <2>1. H!Live.refreshed \in Nat /\ H!NewestRefreshAt \in Nat
    BY <1>1, <1>2, <1>3
  <2> QED
    BY <1>5, <1>7, <1>8, <1>10, <2>1
<1> QED
  BY <1>1, <1>2, <1>8, <1>9, <1>10, <1>11

\* The branches of HealthOf that speak of overdue fires.
LEMMA VerdictIs ==
  LET missed == DueFire # 0 /\ Activity # 0 /\ ~H!covers(Activity, DueFire)
      never == DueFire # 0 /\ Activity = 0 /\ H!Created < DueFire
  IN /\ H!HealthOf.health = "overdue" =>
          /\ hpage.scheduled
          /\ \/ missed /\ H!HealthOf.since = H!firstMissed(Activity, DueFire)
             \/ never /\ H!HealthOf.since = H!Soonest({DueFire, H!Next(H!Created)})
     /\ hpage.scheduled /\ (missed \/ never) => H!HealthOf.health \in {"overdue", "blocked"}
<1> DEFINE missed == DueFire # 0 /\ Activity # 0 /\ ~H!covers(Activity, DueFire)
           never == DueFire # 0 /\ Activity = 0 /\ H!Created < DueFire
           source == IF H!Live.source = H!Epoch THEN 0 ELSE H!Live.source
           quiet == IF H!Live.source = H!Epoch THEN H!Created ELSE source
           failed == check.at # 0 /\ H!Latest({H!Live.refreshed, H!NewestRefreshAt}) <= check.at /\ check.failed
<1>1. CASE ~hpage.scheduled
  <2>1. H!HealthOf = [H!Verdict("unscheduled", 0) EXCEPT
               !.stale = hpage.live # 0 /\ source # 0 /\ now - source > UnscheduledStaleAfter]
    BY <1>1 DEF H!HealthOf
  <2> HIDE DEF source
  <2>2. H!HealthOf.health = "unscheduled"
    BY <2>1 DEF H!Verdict
  <2> QED
    BY <1>1, <2>2
<1>2. CASE hpage.scheduled /\ failed
  <2>1. H!HealthOf = H!Verdict("blocked", check.at)
    BY <1>2 DEF H!HealthOf
  <2> QED
    BY <2>1 DEF H!Verdict
<1>3. CASE hpage.scheduled /\ ~failed /\ missed
  <2>1. H!HealthOf = H!Verdict("overdue", H!firstMissed(Activity, DueFire))
    BY <1>3 DEF H!HealthOf, Activity, DueFire
  <2> QED
    BY <1>3, <2>1 DEF H!Verdict
<1>4. CASE hpage.scheduled /\ ~failed /\ never
  <2>1. H!HealthOf = H!Verdict("overdue", H!Soonest({DueFire, H!Next(H!Created)}))
    BY <1>4 DEF H!HealthOf, Activity, DueFire
  <2> QED
    BY <1>4, <2>1 DEF H!Verdict
<1>5. CASE hpage.scheduled /\ ~failed /\ ~missed /\ ~never
  <2>1. H!HealthOf \in {H!Verdict("source_stale", quiet), H!Verdict("ok", 0)}
    BY <1>5 DEF H!HealthOf, Activity, DueFire
  <2> HIDE DEF quiet
  <2> QED
    BY <1>5, <2>1 DEF H!Verdict
<1> QED
  BY <1>1, <1>2, <1>3, <1>4, <1>5

\* The first fire that the latest activity does not answer.
LEMMA FirstMissedIs ==
  ASSUME FireTimes, fires \in SUBSET (Nat \ {0}), NEW a \in Nat, a # 0, NEW due \in fires, ~H!covers(a, due)
  PROVE  /\ a < due
         /\ H!firstMissed(a, due) \in {f \in fires : a < f /\ ~Near(a, f)}
         /\ \A f \in fires : a < f /\ ~Near(a, f) => H!firstMissed(a, due) <= f
<1>1. RefreshEarly \in Nat /\ due \in Nat
  BY DEF FireTimes
<1>2. ~Near(a, due)
  BY CoversIs
<1>3. a < due
  <2>1. ASSUME due <= a PROVE Near(a, due)
    <3>1. \A f \in fires : f < due => 2 * a >= f + due
      BY <1>1, <2>1
    <3>2. a >= due - RefreshEarly
      BY <1>1, <2>1
    <3> QED
      BY <3>1, <3>2 DEF Near
  <2> QED
    BY <1>1, <1>2, <2>1
<1> DEFINE f1 == H!Next(a)
<1>4. /\ f1 \in fires /\ a < f1 /\ f1 <= due /\ f1 \in Nat /\ f1 # 0
      /\ \A f \in fires : a < f => f1 <= f
  BY <1>3, NextIs
<1> HIDE DEF f1
<1>5. CASE ~H!covers(a, f1)
  <2>1. H!firstMissed(a, due) = f1
    BY <1>1, <1>4, <1>5 DEF H!firstMissed, f1
  <2>2. ~Near(a, f1)
    BY <1>4, <1>5, CoversIs
  <2> QED
    BY <1>3, <1>4, <2>1, <2>2
<1>6. CASE H!covers(a, f1)
  <2>1. f1 # due /\ f1 < due
    BY <1>1, <1>4, <1>6
  <2> DEFINE f2 == H!Next(f1)
  <2>2. /\ f2 \in fires /\ f1 < f2 /\ f2 <= due /\ f2 \in Nat /\ f2 # 0
        /\ \A f \in fires : f1 < f => f2 <= f
    BY <1>4, <2>1, NextIs
  <2> HIDE DEF f2
  <2>3. H!firstMissed(a, due) = f2
    BY <1>1, <1>4, <1>6, <2>2 DEF H!firstMissed, f1, f2
  <2>4. ~Near(a, f2)
    <3>1. ~(2 * a >= f1 + f2)
      BY <1>4, <2>2
    <3> QED
      BY <1>4, <2>2, <3>1 DEF Near
  <2>5. Near(a, f1)
    BY <1>4, <1>6, CoversIs
  <2>6. ASSUME NEW f \in fires, a < f, ~Near(a, f) PROVE f2 <= f
    <3>1. f1 <= f /\ f # f1 /\ f \in Nat
      BY <1>4, <2>5, <2>6
    <3>2. f1 < f
      BY <1>4, <3>1
    <3> QED
      BY <2>2, <3>2
  <2> QED
    BY <1>3, <1>4, <2>2, <2>3, <2>4, <2>6
<1> QED
  BY <1>5, <1>6

\* A time of the model answers a fire when it is near it.
LEMMA AnsweringIs ==
  ASSUME NEW fire \in fires
  PROVE  /\ \A t \in H!Times : t \in H!Answering(fire) <=> Near(t, fire)
         /\ H!Answering(fire) \subseteq H!Times
BY DEF H!Answering, Near

LEMMA NearerIs ==
  ASSUME FireTimes, fires \in SUBSET (Nat \ {0}), NEW a \in Nat, NEW b \in Nat, a <= b, NEW fire \in fires, Near(a, fire)
  PROVE  Near(b, fire)
<1>1. RefreshEarly \in Nat /\ fire \in Nat /\ fires \in SUBSET Nat
  BY DEF FireTimes
<1>2. b >= fire - RefreshEarly
  BY <1>1 DEF Near
<1>3. \A f \in fires : f < fire => 2 * b >= f + fire
  BY <1>1 DEF Near
<1> QED
  BY <1>2, <1>3 DEF Near

\* HealthOf tells the truth, whatever order refreshes, edits, checks, publishes
\* and late checks come in: a page is overdue only when no run that can still
\* be seen answers its due fire, and always when none at all does; and since
\* the first fire without an answer (refreshhealth.go: HealthOf, firstMissed).
LEMMA OverdueIsTruthful == ASSUME FireTimes, HealthInv PROVE H!OverdueTruthful
<1> SUFFICES ASSUME hpage.scheduled, H!Due > H!Created
             PROVE  LET answers == H!Runs \cap H!Answering(H!Due)
                    IN /\ H!HealthOf.health = "overdue" => \A t \in answers : H!Hidden(t)
                       /\ answers = {} => H!HealthOf.health \in {"overdue", "blocked"}
  BY DEF H!OverdueTruthful
<1> DEFINE due == H!Due
<1>1. fires \in SUBSET (Nat \ {0}) /\ now \in Int /\ RefreshGrace \in Int
  BY DEF FireTimes, HealthInv, H!Times
<1>2. H!Due = DueFire
  <2>1. {f \in fires : f + RefreshGrace <= now} = {f \in fires : f <= now - RefreshGrace}
    BY <1>1
  <2> QED
    BY <2>1 DEF H!Due, DueFire, H!Prev
<1>3. due \in Nat /\ due # 0 /\ due \in fires
  <2>1. now - RefreshGrace \in Int
    BY <1>1
  <2>2. DueFire \in Nat /\ (DueFire # 0 => DueFire \in fires)
    BY <1>1, <2>1, PrevIs DEF DueFire
  <2> QED
    BY <1>2, <2>2 DEF H!Created
<1> HIDE DEF due
<1>4. H!Times \subseteq Nat
  BY DEF H!Times
<1>5. H!covers(Activity, due) <=> Activity # 0 /\ Near(Activity, due)
  BY <1>1, <1>3, ActivityIs, CoversIs
<1>6. ASSUME H!HealthOf.health = "overdue", NEW t \in H!Runs \cap H!Answering(due) PROVE H!Hidden(t)
  <2>1. t \in H!Times /\ t \in Nat /\ Near(t, due)
    BY <1>3, <1>4, AnsweringIs
  <2>2. t # 0
    BY DEF H!Runs, HealthInv
  <2>3. Activity = 0 \/ ~Near(Activity, due)
    BY <1>2, <1>5, <1>6, VerdictIs DEF due
  <2>4. Activity < t
    BY <1>1, <1>3, <2>1, <2>2, <2>3, ActivityIs, NearerIs
  <2>5. check.at < t /\ H!NewestRefreshAt < t
    <3>1. /\ check.at \in Nat /\ H!NewestRefreshAt \in Nat /\ Activity \in Nat
          /\ check.at <= Activity /\ H!NewestRefreshAt <= Activity
      BY <1>4, ActivityIs
    <3> QED
      BY <2>1, <2>4, <3>1
  <2>6. ASSUME NEW i \in DOMAIN hrows, hrows[i].refreshed >= t
        PROVE  \E w \in DOMAIN hrows : H!Newer(w, i) /\ hrows[w].refreshed # 0 /\ hrows[w].refreshed < t
    <3>1. i \in Nat /\ hrows[i].refreshed \in Nat
      BY <1>4, RowTimes
    <3>2. PICK w \in DOMAIN hrows : (w = i \/ H!Newer(w, i)) /\ hrows[w].refreshed # 0 /\ hrows[w].refreshed = H!NewestRefreshAt
      BY <2>1, <2>2, <2>6, <3>1, NewestStamp
    <3>3. w # i
      <4>1. H!NewestRefreshAt \in Nat
        BY <1>4, NewestStamp
      <4>2. \A x, y \in Nat : x >= t /\ y < t => x # y
        BY <2>1
      <4> QED
        BY <2>5, <2>6, <3>1, <3>2, <4>1, <4>2
    <3> QED
      BY <2>5, <3>2, <3>3
  <2> QED
    BY <2>5, <2>6 DEF H!Hidden
<1>7. ASSUME H!Runs \cap H!Answering(due) = {} PROVE H!HealthOf.health \in {"overdue", "blocked"}
  <2>1. CASE Activity = 0
    BY <1>2, <1>3, <2>1, VerdictIs DEF due
  <2>2. CASE Activity # 0
    <3>1. ASSUME Near(Activity, due) PROVE FALSE
      <4>1. PICK r \in H!Runs : r \in H!Times /\ Activity <= r
        <5>1. CASE Activity = check.at
          <6>1. newest \in H!Times /\ check.at <= newest /\ newest # 0
            BY <1>4, <2>2, <5>1, ActivityIs DEF HealthInv
          <6> QED
            BY <5>1, <6>1 DEF H!Runs
        <5>2. CASE Activity # check.at
          <6>1. PICK i \in DOMAIN hrows : hrows[i].refreshed = Activity
            BY <2>2, <5>2, ActivityIs, NewestStamp
          <6>2. PICK j \in DOMAIN hrows : hrows[j].run /\ hrows[j].refreshed = Activity
            BY <2>2, <6>1 DEF HealthInv
          <6>3. Activity \in H!Runs
            BY <6>2 DEF H!Runs
          <6> QED
            BY <6>3, ActivityIs
        <5> QED
          BY <5>1, <5>2
      <4>2. Near(r, due)
        BY <1>1, <1>3, <1>4, <3>1, <4>1, ActivityIs, NearerIs
      <4> QED
        BY <1>3, <1>7, <4>1, <4>2, AnsweringIs
    <3> QED
      BY <1>2, <1>3, <1>5, <2>2, <3>1, VerdictIs DEF due
  <2> QED
    BY <2>1, <2>2
<1> QED
  BY <1>6, <1>7 DEF due

LEMMA SinceIsFirstMissed == ASSUME FireTimes, HealthInv PROVE H!SinceFirstMissed
<1> SUFFICES ASSUME H!HealthOf.health = "overdue"
             PROVE  LET visible == {t \in {H!Live.refreshed, H!NewestRefreshAt, check.at} : t # 0}
                        missed == {f \in fires : f > H!Created /\ \A t \in visible : t < f /\ t \notin H!Answering(f)}
                    IN H!HealthOf.since = H!Soonest(missed)
  BY DEF H!SinceFirstMissed
<1> DEFINE visible == {t \in {H!Live.refreshed, H!NewestRefreshAt, check.at} : t # 0}
           missed == {f \in fires : f > H!Created /\ \A t \in visible : t < f /\ t \notin H!Answering(f)}
           a == Activity
<1>1. fires \in SUBSET (Nat \ {0}) /\ now - RefreshGrace \in Int /\ missed \in SUBSET Nat
  <2>1. fires \in SUBSET (Nat \ {0}) /\ now \in Int /\ RefreshGrace \in Int
    BY DEF FireTimes, HealthInv, H!Times
  <2>2. missed \subseteq fires
    OBVIOUS
  <2> HIDE DEF missed
  <2> QED
    BY <2>1, <2>2
<1>2. DueFire # 0 => DueFire \in fires
  BY <1>1, PrevIs DEF DueFire
<1>3. a \in Nat /\ a \in H!Times /\ H!Times \subseteq Nat
  BY ActivityIs DEF H!Times
<1>4. CASE a # 0
  <2>1. /\ DueFire \in fires /\ ~H!covers(a, DueFire)
        /\ H!HealthOf.since = H!firstMissed(a, DueFire)
    BY <1>2, <1>4, VerdictIs
  <2>2. /\ H!firstMissed(a, DueFire) \in {f \in fires : a < f /\ ~Near(a, f)}
        /\ \A f \in fires : a < f /\ ~Near(a, f) => H!firstMissed(a, DueFire) <= f
    BY <1>1, <1>3, <1>4, <2>1, FirstMissedIs
  <2>3. a \in visible /\ \A t \in visible : t <= a /\ t \in H!Times /\ t \in Nat
    BY <1>3, <1>4, ActivityIs
  <2>4. ASSUME NEW f \in fires PROVE f \in missed <=> a < f /\ ~Near(a, f)
    <3>1. ASSUME f \in missed PROVE a < f /\ ~Near(a, f)
      <4>1. a < f /\ a \notin H!Answering(f)
        BY <2>3, <3>1
      <4> QED
        BY <1>3, <4>1, AnsweringIs
    <3>2. ASSUME a < f, ~Near(a, f) PROVE f \in missed
      <4>1. f \in Nat /\ f > H!Created
        BY <1>1, <1>3, <1>4, <3>2 DEF H!Created
      <4>2. ASSUME NEW t \in visible PROVE t < f /\ t \notin H!Answering(f)
        <5>1. t <= a /\ t \in H!Times /\ t \in Nat
          BY <2>3
        <5>2. ~Near(t, f)
          BY <1>1, <1>3, <3>2, <5>1, NearerIs
        <5>3. t < f
          BY <1>3, <3>2, <4>1, <5>1
        <5> QED
          BY <5>1, <5>2, <5>3, AnsweringIs
      <4> QED
        BY <4>1, <4>2
    <3> QED
      BY <3>1, <3>2
  <2> HIDE DEF visible, missed, a
  <2>5. H!firstMissed(a, DueFire) \in missed /\ \A f \in missed : H!firstMissed(a, DueFire) <= f
    <3>1. missed \subseteq fires
      BY DEF missed
    <3> QED
      BY <2>2, <2>4, <3>1
  <2>6. H!Soonest(missed) = H!firstMissed(a, DueFire)
    BY <1>1, <2>5, SoonestIs
  <2> QED
    BY <2>1, <2>6 DEF missed, visible
<1>5. CASE a = 0
  <2>1. /\ DueFire \in fires /\ H!Created < DueFire
        /\ H!HealthOf.since = H!Soonest({DueFire, H!Next(H!Created)})
    BY <1>2, <1>5, VerdictIs
  <2>2. visible = {}
    <3>1. \A t \in visible : t \in Nat /\ t <= a /\ t # 0
      BY <1>3, ActivityIs
    <3> HIDE DEF visible, a
    <3> QED
      BY <1>5, <3>1
  <2> DEFINE f1 == H!Next(H!Created)
  <2>3. f1 \in fires /\ H!Created < f1 /\ \A f \in fires : H!Created < f => f1 <= f
    BY <1>1, <2>1, NextIs DEF H!Created
  <2> HIDE DEF f1
  <2>4. f1 \in missed /\ (\A f \in missed : f1 <= f) /\ f1 \in Nat /\ f1 <= DueFire /\ DueFire \in Nat
    BY <1>1, <2>1, <2>2, <2>3 DEF H!Created
  <2> HIDE DEF missed
  <2>5. H!Soonest(missed) = f1
    BY <1>1, <2>4, SoonestIs
  <2>6. H!Soonest({DueFire, f1}) = f1
    BY <2>4, SoonestIs
  <2> QED
    BY <2>1, <2>5, <2>6 DEF f1, missed
<1> QED
  BY <1>4, <1>5

\* A fire of the schedule that went unanswered is reported as it is said to be,
\* and "overdue since" names the first one, whatever runs, restarts and settings
\* came between: for every schedule and tolerance (internal/versions,
\* refreshhealth.go: HealthOf, earlyTolerance, firstMissed).
THEOREM HealthIsTruthful == ASSUME FireTimes PROVE Spec => []HealthTruthful
<1>1. Init => HealthInv
  BY HealthStarts DEF Init
<1>2. HealthInv /\ [Next]_vars => HealthInv'
  <2> SUFFICES ASSUME HealthInv, [Next]_vars PROVE HealthInv'
    OBVIOUS
  <2>1. [H!HealthNext]_hv
    BY Parts
  <2>2. CASE UNCHANGED hv
    BY <2>2 DEF hv, HealthInv
  <2> QED
    BY <2>1, <2>2, HealthKeeps
<1>3. HealthInv => HealthTruthful
  BY OverdueIsTruthful, SinceIsFirstMissed DEF HealthTruthful
<1> QED
  BY <1>1, <1>2, <1>3, PTL DEF Spec

---------------------------------------------------------------------------
(* Templates.  One template of the name at most is in the library, the     *)
(* newest of them; whoever registers or retires it holds its row; and its  *)
(* current revision is the highest.  A build is taken for one that was     *)
(* done only when it is what the page shows.                               *)

Docs == [rev : Nat, design : Designs \cup {T!HandMade}, config : {0, 1}, data : {0, 1}, asOf : {0, 1}]
Entries == [doc : Docs, status : T!Status]
Shelf == [life : {"new", "live", "retired"}, current : Nat]
Editions == [tmpl : Nat, n : Nat, design : Designs \cup {T!HandMade}]
Calls == [at : {"idle", "insert", "relock", "newest", "write", "build", "rerender", "retire"},
          tmpl : Nat, rev : Nat, n : Nat, design : Designs \cup {T!HandMade}, data : {0, 1}, config : {0, 1}, flag : BOOLEAN]

\* A call that has the row of its template.
Holds(c) == conn[c].at \in {"newest", "write", "retire"}

PageOK ==
  /\ trows \in Seq(Entries)
  /\ tpage \in [life : {"none", "live", "deleted"}, gated : BOOLEAN, pointer : 0..Len(trows)]

ShelfOK ==
  /\ tmpls \in Seq(Shelf) /\ revs \in Seq(Editions)
  /\ \A i \in DOMAIN revs : revs[i].tmpl \in DOMAIN tmpls
  /\ \A t \in DOMAIN tmpls : tmpls[t].life = "new" => t = Len(tmpls) /\ T!Revisions(t) = {}
  /\ \A t \in DOMAIN tmpls : tmpls[t].life = "live" =>
       tmpls[t].current \in T!Revisions(t) /\ \A j \in T!Revisions(t) : revs[j].n <= revs[tmpls[t].current].n
  /\ \A t, u \in DOMAIN tmpls : tmpls[t].life # "retired" /\ tmpls[u].life # "retired" => t = u

HoldersOK ==
  /\ conn \in [Conns -> Calls]
  /\ \A c \in Conns : Holds(c) =>
       /\ conn[c].tmpl \in DOMAIN tmpls /\ tmpls[conn[c].tmpl].life # "retired"
       /\ conn[c].at = "retire" => tmpls[conn[c].tmpl].life = "live"
  /\ \A c, d \in Conns : Holds(c) /\ Holds(d) => c = d
  /\ \A c \in Conns : conn[c].at = "write" => \A j \in T!Revisions(conn[c].tmpl) : revs[j].n < conn[c].n
  /\ \A c \in Conns : conn[c].at \in {"build", "rerender"} => conn[c].rev \in DOMAIN revs

TInv == PageOK /\ ShelfOK /\ HoldersOK

LEMMA TemplatesStart == T!TemplatesInit => TInv
<1> SUFFICES ASSUME T!TemplatesInit PROVE TInv
  OBVIOUS
<1>1. PageOK
  BY DEF T!TemplatesInit, PageOK
<1>2. tmpls = <<>> /\ revs = <<>> /\ conn = [c \in Conns |-> T!Idle]
  BY DEF T!TemplatesInit
<1>3. ShelfOK
  BY <1>2 DEF ShelfOK
<1>4. T!Idle \in Calls /\ T!Idle.at = "idle"
  BY DEF T!Idle, Calls
<1>5. HoldersOK
  BY <1>2, <1>4 DEF HoldersOK, Holds
<1> QED
  BY <1>1, <1>3, <1>5 DEF TInv

\* What a deploy leaves, and that a pointer it moves shows the document.
LEMMA DeployShows ==
  ASSUME PageOK, NEW doc \in Docs, NEW publish \in BOOLEAN, T!DeployLocked(doc, publish)
  PROVE  PageOK' /\ (tpage'.pointer # tpage.pointer => trows'[tpage'.pointer].doc = doc)
<1> DEFINE hits == {v \in DOMAIN trows : trows[v].doc = doc /\ trows[v].status \notin {"rejected", T!Unusable}}
           id == IF hits = {} THEN Len(trows) + 1 ELSE CHOOSE v \in hits : \A w \in hits : w <= v
           status == IF tpage.gated THEN "pending" ELSE "draft"
           with == IF hits = {} THEN Append(trows, [doc |-> doc, status |-> status]) ELSE trows
           goes == publish /\ ~tpage.gated
<1>1. /\ trows' = IF goes THEN [with EXCEPT ![id].status = "approved"] ELSE with
      /\ tpage' = IF goes THEN [tpage EXCEPT !.pointer = id] ELSE tpage
  BY DEF T!DeployLocked
<1>2. /\ trows \in Seq(Entries) /\ Len(trows) \in Nat /\ DOMAIN trows = 1..Len(trows)
      /\ tpage \in [life : {"none", "live", "deleted"}, gated : BOOLEAN, pointer : 0..Len(trows)]
  BY DEF PageOK
<1>3. /\ with \in Seq(Entries) /\ Len(with) \in Nat /\ Len(trows) <= Len(with) /\ DOMAIN with = 1..Len(with)
      /\ id \in 1..Len(with) /\ with[id].doc = doc
  <2>1. CASE hits = {}
    <3>1. [doc |-> doc, status |-> status] \in Entries
      BY DEF Entries, T!Status
    <3>2. with = Append(trows, [doc |-> doc, status |-> status]) /\ id = Len(trows) + 1
      BY <2>1
    <3> HIDE DEF with, id, status
    <3> QED
      BY <1>2, <3>1, <3>2
  <2>2. CASE hits # {}
    <3>1. hits \in SUBSET Nat /\ \A x \in hits : x <= Len(trows)
      BY <1>2
    <3>2. PICK v \in hits : \A w \in hits : w <= v
      <4> HIDE DEF hits
      <4> QED
        BY <1>2, <2>2, <3>1, LatestIs
    <3>3. id \in hits /\ with = trows
      BY <2>2, <3>2
    <3> HIDE DEF id, with
    <3> QED
      BY <1>2, <3>3
  <2> QED
    BY <2>1, <2>2
<1> HIDE DEF hits, id, with
<1>4. CASE goes
  <2> DEFINE after == [with EXCEPT ![id].status = "approved"]
  <2>1. with[id] \in Entries /\ "approved" \in T!Status
    BY <1>3 DEF T!Status
  <2>2. [with[id] EXCEPT !.status = "approved"] \in Entries /\ [with[id] EXCEPT !.status = "approved"].doc = doc
    BY <1>3, <2>1 DEF Entries
  <2>3. after = [with EXCEPT ![id] = [with[id] EXCEPT !.status = "approved"]]
    OBVIOUS
  <2>4. after \in Seq(Entries) /\ Len(after) = Len(with) /\ after[id].doc = doc
    BY <1>3, <2>2, <2>3
  <2>5. trows' = after /\ tpage' = [tpage EXCEPT !.pointer = id]
    BY <1>1, <1>4
  <2> HIDE DEF after, goes
  <2>6. tpage'.pointer = id /\ tpage' \in [life : {"none", "live", "deleted"}, gated : BOOLEAN, pointer : 0..Len(with)]
    BY <1>2, <1>3, <2>5
  <2> QED
    BY <2>4, <2>5, <2>6 DEF PageOK
<1>5. CASE ~goes
  <2>1. trows' = with /\ tpage' = tpage
    BY <1>1, <1>5
  <2>2. tpage \in [life : {"none", "live", "deleted"}, gated : BOOLEAN, pointer : 0..Len(with)]
    BY <1>2, <1>3
  <2> QED
    BY <1>3, <2>1, <2>2 DEF PageOK
<1> QED
  BY <1>4, <1>5

\* A template of the library whose row nobody has: nobody has any.
LEMMA FreeToLock ==
  ASSUME TInv, NEW t \in T!LiveTemplates, T!MayLock(t)
  PROVE  \A d \in Conns : ~Holds(d)
BY DEF TInv, HoldersOK, ShelfOK, Holds, T!LiveTemplates, T!MayLock

\* A call goes on, and no row of the library changes.
LEMMA CallMoves ==
  ASSUME TInv, UNCHANGED <<tmpls, revs>>, NEW c \in Conns, NEW call \in Calls, T!Go(c, call),
         call.at \in {"newest", "write", "retire"} =>
           /\ \A d \in Conns : d # c => ~Holds(d)
           /\ call.tmpl \in DOMAIN tmpls /\ tmpls[call.tmpl].life # "retired"
           /\ call.at = "retire" => tmpls[call.tmpl].life = "live",
         call.at = "write" => \A j \in T!Revisions(call.tmpl) : revs[j].n < call.n,
         call.at \in {"build", "rerender"} => call.rev \in DOMAIN revs
  PROVE  ShelfOK' /\ HoldersOK'
<1>1. ShelfOK'
  BY DEF TInv, ShelfOK, T!Revisions
<1>2. conn' = [conn EXCEPT ![c] = call] /\ conn \in [Conns -> Calls]
  BY DEF T!Go, TInv, HoldersOK
<1>3. conn' \in [Conns -> Calls] /\ conn'[c] = call /\ \A d \in Conns : d # c => conn'[d] = conn[d]
  BY <1>2
<1>4. \A d \in Conns : d # c => (Holds(d)' <=> Holds(d))
  BY <1>3 DEF Holds
<1>5. Holds(c)' <=> call.at \in {"newest", "write", "retire"}
  BY <1>3 DEF Holds
<1>6. \A d \in Conns : Holds(d)' =>
       /\ conn'[d].tmpl \in DOMAIN tmpls /\ tmpls[conn'[d].tmpl].life # "retired"
       /\ conn'[d].at = "retire" => tmpls[conn'[d].tmpl].life = "live"
  BY <1>3, <1>4, <1>5 DEF TInv, HoldersOK
<1>7. \A d, e \in Conns : Holds(d)' /\ Holds(e)' => d = e
  BY <1>4, <1>5 DEF TInv, HoldersOK
<1>8. \A d \in Conns : conn'[d].at = "write" => \A j \in T!Revisions(conn'[d].tmpl) : revs[j].n < conn'[d].n
  BY <1>3 DEF TInv, HoldersOK
<1>9. \A d \in Conns : conn'[d].at \in {"build", "rerender"} => conn'[d].rev \in DOMAIN revs
  BY <1>3 DEF TInv, HoldersOK
<1>10. \A t : T!Revisions(t)' = T!Revisions(t)
  BY DEF T!Revisions
<1> QED
  BY <1>1, <1>3, <1>6, <1>7, <1>8, <1>9, <1>10 DEF HoldersOK

LEMMA IdleCall == T!Idle \in Calls /\ T!Idle.at = "idle"
BY DEF T!Idle, Calls

\* The steps of a registration before it writes.
LEMMA RegisterKeeps ==
  ASSUME TInv, NEW c \in Conns,
         \/ \E design \in Designs : T!LookTemplate(c, design)
         \/ T!RelockTemplate(c) \/ T!ReadNewest(c)
         \/ \E force \in BOOLEAN : T!CountPages(c, force)
  PROVE  TInv'
<1>1. UNCHANGED <<tmpls, revs, tpage, trows>>
  BY DEF T!LookTemplate, T!RelockTemplate, T!ReadNewest, T!CountPages
<1>2. PageOK'
  BY <1>1 DEF TInv, PageOK
<1>3. conn[c] \in Calls
  BY DEF TInv, HoldersOK
<1>4. ASSUME NEW t \in T!LiveTemplates, T!MayLock(t), NEW call \in Calls, call.at \in {"newest", "retire"}, call.tmpl = t, T!Go(c, call)
      PROVE  TInv'
  <2>1. t \in DOMAIN tmpls /\ tmpls[t].life = "live"
    BY DEF T!LiveTemplates
  <2> QED
    BY <1>1, <1>2, <1>4, <2>1, CallMoves, FreeToLock DEF TInv
<1>5. ASSUME NEW call \in Calls, call.at \in {"idle", "insert", "relock"}, T!Go(c, call) PROVE TInv'
  BY <1>1, <1>2, <1>5, CallMoves DEF TInv
<1>6. \A t \in T!LiveTemplates : t \in Nat
  BY DEF T!LiveTemplates, TInv, ShelfOK
<1>7. ASSUME NEW design \in Designs, T!LookTemplate(c, design) PROVE TInv'
  <2>1. \A t \in T!LiveTemplates : [T!Idle EXCEPT !.at = "newest", !.tmpl = t, !.design = design] \in Calls
    BY <1>6 DEF T!Idle, Calls
  <2>2. [T!Idle EXCEPT !.at = "insert", !.design = design] \in Calls
    BY DEF T!Idle, Calls
  <2>3. CASE \E t \in T!LiveTemplates : T!MayLock(t) /\ T!Go(c, [T!Idle EXCEPT !.at = "newest", !.tmpl = t, !.design = design])
    <3>1. PICK t \in T!LiveTemplates : T!MayLock(t) /\ T!Go(c, [T!Idle EXCEPT !.at = "newest", !.tmpl = t, !.design = design])
      BY <2>3
    <3> DEFINE call == [T!Idle EXCEPT !.at = "newest", !.tmpl = t, !.design = design]
    <3>2. call.at = "newest" /\ call.tmpl = t
      BY DEF T!Idle
    <3> HIDE DEF call
    <3> QED
      BY <1>4, <2>1, <3>1, <3>2 DEF call
  <2>4. CASE T!Go(c, [T!Idle EXCEPT !.at = "insert", !.design = design])
    <3> DEFINE call == [T!Idle EXCEPT !.at = "insert", !.design = design]
    <3>1. call.at = "insert"
      BY DEF T!Idle
    <3> HIDE DEF call
    <3> QED
      BY <1>5, <2>2, <2>4, <3>1 DEF call
  <2> QED
    BY <1>7, <2>3, <2>4 DEF T!LookTemplate
<1>8. CASE T!RelockTemplate(c)
  <2>1. CASE \E t \in T!LiveTemplates : T!MayLock(t) /\ T!Go(c, [conn[c] EXCEPT !.at = "newest", !.tmpl = t])
    <3>1. PICK t \in T!LiveTemplates : T!MayLock(t) /\ T!Go(c, [conn[c] EXCEPT !.at = "newest", !.tmpl = t])
      BY <2>1
    <3> DEFINE call == [conn[c] EXCEPT !.at = "newest", !.tmpl = t]
    <3>2. call \in Calls /\ call.at = "newest" /\ call.tmpl = t
      BY <1>3, <1>6 DEF Calls
    <3> HIDE DEF call
    <3> QED
      BY <1>4, <3>1, <3>2 DEF call
  <2>2. CASE T!End(c)
    BY <1>5, <2>2, IdleCall DEF T!End
  <2> QED
    BY <1>8, <2>1, <2>2 DEF T!RelockTemplate
<1>9. CASE T!ReadNewest(c)
  <2>1. conn[c].at = "newest" /\ Holds(c)
    BY <1>9 DEF T!ReadNewest, Holds
  <2>2. PICK t : t = conn[c].tmpl
    OBVIOUS
  <2>3. t \in DOMAIN tmpls /\ tmpls[t].life # "retired" /\ \A d \in Conns : d # c => ~Holds(d)
    BY <2>1, <2>2 DEF TInv, HoldersOK
  <2>4. \A j \in DOMAIN revs : revs[j] \in Editions
    BY DEF TInv, ShelfOK
  <2>5. \A j \in DOMAIN revs : revs[j].n \in Nat
    BY <2>4 DEF Editions
  <2>6. ASSUME NEW j \in T!Revisions(t)
        PROVE  /\ tmpls[t].current \in T!Newest(t) /\ tmpls[t].current \in DOMAIN revs
               /\ revs[j].n <= revs[tmpls[t].current].n
    <3>1. tmpls[t] \in Shelf
      BY <2>3 DEF TInv, ShelfOK
    <3>2. tmpls[t].life \in {"new", "live", "retired"}
      BY <3>1 DEF Shelf
    <3>3. tmpls[t].life # "new"
      BY <2>3 DEF TInv, ShelfOK
    <3>4. tmpls[t].life = "live"
      BY <2>3, <3>2, <3>3
    <3>5. tmpls[t].current \in T!Revisions(t) /\ \A k \in T!Revisions(t) : revs[k].n <= revs[tmpls[t].current].n
      BY <2>3, <3>4 DEF TInv, ShelfOK
    <3> QED
      BY <3>5 DEF T!Newest, T!Revisions
  <2>7. ASSUME NEW n \in Nat, \A i \in T!Newest(t) : n = revs[i].n, T!Go(c, [conn[c] EXCEPT !.at = "write", !.n = n + 1])
        PROVE  TInv'
    <3> DEFINE call == [conn[c] EXCEPT !.at = "write", !.n = n + 1]
    <3>1. n + 1 \in Nat
      OBVIOUS
    <3>2. call \in Calls /\ call.at = "write" /\ call.n = n + 1 /\ call.tmpl = t
      BY <1>3, <2>2, <3>1 DEF Calls
    <3> HIDE DEF call
    <3>3. \A j \in T!Revisions(call.tmpl) : revs[j].n < call.n
      <4> SUFFICES ASSUME NEW j \in T!Revisions(t) PROVE revs[j].n < n + 1
        BY <3>2
      <4>1. revs[j].n <= n
        BY <2>6, <2>7
      <4>2. revs[j].n \in Nat
        BY <2>5 DEF T!Revisions
      <4> QED
        BY <4>1, <4>2
    <3>4. T!Go(c, call)
      BY <2>7 DEF call
    <3>5. call.tmpl \in DOMAIN tmpls /\ tmpls[call.tmpl].life # "retired"
      BY <2>3, <3>2
    <3> QED
      BY <1>1, <1>2, <2>3, <3>2, <3>3, <3>4, <3>5, CallMoves DEF TInv
  <2>8. CASE T!End(c)
    BY <1>5, <2>8, IdleCall DEF T!End
  <2>9. CASE ~T!End(c)
    <3>1. PICK n : /\ \A i \in T!Newest(t) : n = revs[i].n
                   /\ T!Newest(t) = {} => n = 0
                   /\ T!Go(c, [conn[c] EXCEPT !.at = "write", !.n = n + 1])
      BY <1>9, <2>2, <2>9 DEF T!ReadNewest
    <3>2. \A i \in T!Newest(t) : i \in DOMAIN revs
      BY DEF T!Newest, T!Revisions
    <3>3. n \in Nat
      BY <2>5, <3>1, <3>2
    <3> QED
      BY <2>7, <3>1, <3>3, ZenonT(60)
  <2> QED
    BY <2>8, <2>9
<1>10. ASSUME NEW force \in BOOLEAN, T!CountPages(c, force) PROVE TInv'
  <2>1. PICK t \in T!LiveTemplates : T!MayLock(t) /\ T!Go(c, [T!Idle EXCEPT !.at = "retire", !.tmpl = t])
    BY <1>10 DEF T!CountPages
  <2> DEFINE call == [T!Idle EXCEPT !.at = "retire", !.tmpl = t]
  <2>2. call \in Calls /\ call.at = "retire" /\ call.tmpl = t
    BY <1>6 DEF Calls, T!Idle
  <2> HIDE DEF call
  <2> QED
    BY <1>4, <2>1, <2>2 DEF call
<1> QED
  BY <1>7, <1>8, <1>9, <1>10

\* The call that has the row ends: nobody has one.
LEMMA HolderEnds ==
  ASSUME TInv, NEW c \in Conns, Holds(c), T!End(c), \A i \in DOMAIN revs : i \in DOMAIN revs'
  PROVE  HoldersOK'
<1>1. conn \in [Conns -> Calls] /\ conn' = [conn EXCEPT ![c] = T!Idle]
  BY DEF TInv, HoldersOK, T!End, T!Go
<1>2. conn' \in [Conns -> Calls] /\ conn'[c].at = "idle" /\ \A d \in Conns : d # c => conn'[d] = conn[d]
  BY <1>1, IdleCall
<1>3. \A d \in Conns : ~Holds(d)'
  BY <1>2 DEF Holds, TInv, HoldersOK
<1>4. \A d \in Conns : conn'[d].at # "write"
  BY <1>3 DEF Holds
<1>5. \A d \in Conns : conn'[d].at \in {"build", "rerender"} => conn'[d].rev \in DOMAIN revs'
  BY <1>2 DEF TInv, HoldersOK
<1> QED
  BY <1>2, <1>3, <1>4, <1>5 DEF HoldersOK

\* What the shelf looks like to the call that has a row of it.
LEMMA HoldersRow ==
  ASSUME TInv, NEW c \in Conns, Holds(c), NEW t, t = conn[c].tmpl
  PROVE  /\ t \in DOMAIN tmpls /\ tmpls[t] \in Shelf /\ tmpls[t].life \in {"new", "live"}
         /\ \A u \in DOMAIN tmpls : u # t => tmpls[u].life = "retired"
<1>1. t \in DOMAIN tmpls /\ tmpls[t].life # "retired"
  BY DEF TInv, HoldersOK
<1>2. \A u \in DOMAIN tmpls : tmpls[u] \in Shelf
  BY DEF TInv, ShelfOK
<1>3. \A u \in DOMAIN tmpls : tmpls[u].life \in {"new", "live", "retired"}
  BY <1>2 DEF Shelf
<1>4. \A u \in DOMAIN tmpls : u # t => tmpls[u].life = "retired"
  BY <1>1 DEF TInv, ShelfOK
<1> QED
  BY <1>1, <1>2, <1>3, <1>4

LEMMA InsertKeeps ==
  ASSUME TInv, NEW c \in Conns, T!InsertTemplate(c)
  PROVE  TInv'
<1>1. UNCHANGED <<revs, tpage, trows>> /\ conn[c].at = "insert"
  BY DEF T!InsertTemplate
<1>2. PageOK'
  BY <1>1 DEF TInv, PageOK
<1>3. conn[c] \in Calls /\ conn \in [Conns -> Calls]
  BY DEF TInv, HoldersOK
<1>4. CASE UNCHANGED tmpls
  <2>1. T!Go(c, [conn[c] EXCEPT !.at = "relock"])
    <3>1. tmpls # Append(tmpls, [life |-> "new", current |-> 0])
      BY DEF TInv, ShelfOK
    <3> QED
      BY <1>4, <3>1 DEF T!InsertTemplate
  <2>2. PICK call : call = [conn[c] EXCEPT !.at = "relock"]
    OBVIOUS
  <2>3. call \in Calls /\ call.at = "relock"
    BY <1>3, <2>2 DEF Calls
  <2> QED
    BY <1>1, <1>2, <1>4, <2>1, <2>2, <2>3, CallMoves DEF TInv
<1>5. CASE ~UNCHANGED tmpls
  <2>1. PICK t : t = Len(tmpls) + 1
    OBVIOUS
  <2>2. PICK call : call = [conn[c] EXCEPT !.at = "newest", !.tmpl = t]
    OBVIOUS
  <2>3. PICK row : row = [life |-> "new", current |-> 0]
    OBVIOUS
  <2>4. /\ T!LiveTemplates = {} /\ \A u \in DOMAIN tmpls : tmpls[u].life # "new"
        /\ tmpls' = Append(tmpls, row) /\ T!Go(c, call)
    BY <1>5, <2>1, <2>2, <2>3 DEF T!InsertTemplate
  <2>5. tmpls \in Seq(Shelf) /\ revs \in Seq(Editions)
    BY DEF TInv, ShelfOK
  <2>6. row \in Shelf /\ row.life = "new"
    BY <2>3 DEF Shelf
  <2>7. /\ tmpls' \in Seq(Shelf) /\ DOMAIN tmpls' = DOMAIN tmpls \cup {t} /\ Len(tmpls') = t
        /\ tmpls'[t] = row /\ (\A u \in DOMAIN tmpls : tmpls'[u] = tmpls[u]) /\ t \notin DOMAIN tmpls /\ t \in Nat
    BY <2>1, <2>4, <2>5, <2>6
  <2>8. \A u \in DOMAIN tmpls : tmpls[u].life = "retired"
    <3>1. \A u \in DOMAIN tmpls : tmpls[u] \in Shelf
      BY <2>5
    <3>2. \A u \in DOMAIN tmpls : tmpls[u].life \in {"new", "live", "retired"}
      BY <3>1 DEF Shelf
    <3> QED
      BY <2>4, <3>2 DEF T!LiveTemplates
  <2>9. \A i \in DOMAIN revs : revs[i].tmpl \in DOMAIN tmpls
    BY DEF TInv, ShelfOK
  <2>10. \A u : T!Revisions(u)' = T!Revisions(u)
    BY <1>1 DEF T!Revisions
  <2>11. T!Revisions(t) = {}
    BY <2>7, <2>9 DEF T!Revisions
  <2>12. \A u \in DOMAIN tmpls' : tmpls'[u].life # "retired" => u = t
    BY <2>7, <2>8
  <2>13. ShelfOK'
    <3>1. \A u \in DOMAIN tmpls' : tmpls'[u].life = "new" => u = Len(tmpls') /\ T!Revisions(u)' = {}
      BY <2>7, <2>10, <2>11, <2>12
    <3>2. \A u \in DOMAIN tmpls' : tmpls'[u].life # "live"
      BY <2>6, <2>7, <2>12
    <3>3. \A i \in DOMAIN revs' : revs'[i].tmpl \in DOMAIN tmpls'
      BY <1>1, <2>7, <2>9
    <3>4. revs' \in Seq(Editions)
      BY <1>1, <2>5
    <3> QED
      BY <2>7, <2>12, <3>1, <3>2, <3>3, <3>4 DEF ShelfOK
  <2>14. call \in Calls /\ call.at = "newest" /\ call.tmpl = t
    BY <1>3, <2>2, <2>7 DEF Calls
  <2>15. conn' \in [Conns -> Calls] /\ conn'[c] = call /\ \A d \in Conns : d # c => conn'[d] = conn[d]
    BY <1>3, <2>4, <2>14 DEF T!Go
  <2>16. \A d \in Conns : ~Holds(d)
    BY <2>8 DEF TInv, HoldersOK
  <2>17. \A d \in Conns : Holds(d)' => d = c
    BY <2>15, <2>16 DEF Holds
  <2>18. /\ conn'[c].tmpl \in DOMAIN tmpls' /\ tmpls'[conn'[c].tmpl].life # "retired"
         /\ conn'[c].at = "newest"
    BY <2>6, <2>7, <2>14, <2>15
  <2>19. \A d \in Conns : conn'[d].at # "write"
    BY <2>17, <2>18 DEF Holds
  <2>20. \A d \in Conns : conn'[d].at \in {"build", "rerender"} => conn'[d].rev \in DOMAIN revs'
    BY <1>1, <2>15, <2>18 DEF TInv, HoldersOK
  <2>21. HoldersOK'
    BY <2>15, <2>17, <2>18, <2>19, <2>20 DEF HoldersOK
  <2> QED
    BY <1>2, <2>13, <2>21 DEF TInv
<1> QED
  BY <1>4, <1>5

\* The one revision that is added is the highest, of the one template there is.
Written(id, t) ==
  /\ DOMAIN revs' = DOMAIN revs \cup {id}
  /\ revs'[id].tmpl = t /\ \A j \in DOMAIN revs : revs[j].tmpl = t => revs[j].n < revs'[id].n
  /\ tmpls'[t].life = "live" /\ tmpls'[t].current = id
  /\ \A u \in DOMAIN tmpls' : u # t => tmpls'[u].life = "retired"

LEMMA WriteKeeps ==
  ASSUME TInv, NEW c \in Conns, T!WriteRevision(c)
  PROVE  TInv' /\ \E id, t : Written(id, t)
<1> PICK t : t = conn[c].tmpl
  OBVIOUS
<1> PICK id : id = Len(revs) + 1
  OBVIOUS
<1>1. /\ conn[c].at = "write" /\ UNCHANGED <<tpage, trows>> /\ T!End(c)
      /\ revs' = Append(revs, [tmpl |-> t, n |-> conn[c].n, design |-> conn[c].design])
      /\ tmpls' = [tmpls EXCEPT ![t].current = id, ![t].life = IF @ = "new" THEN "live" ELSE @]
  BY DEF T!WriteRevision
<1>2. Holds(c)
  BY <1>1 DEF Holds
<1>3. /\ t \in DOMAIN tmpls /\ tmpls[t] \in Shelf /\ tmpls[t].life \in {"new", "live"}
      /\ \A u \in DOMAIN tmpls : u # t => tmpls[u].life = "retired"
  BY <1>2, HoldersRow
<1>4. /\ tmpls \in Seq(Shelf) /\ revs \in Seq(Editions)
      /\ \A i \in DOMAIN revs : revs[i].tmpl \in DOMAIN tmpls
  BY DEF TInv, ShelfOK
<1>5. t \in Nat /\ id \in Nat
  BY <1>3, <1>4
<1>6. PICK row : row = [tmpl |-> t, n |-> conn[c].n, design |-> conn[c].design]
  OBVIOUS
<1>7. row \in Editions /\ row.tmpl = t /\ row.n = conn[c].n
  <2>1. conn[c] \in Calls
    BY DEF TInv, HoldersOK
  <2> QED
    BY <1>5, <1>6, <2>1 DEF Editions, Calls
<1>8. /\ revs' \in Seq(Editions) /\ DOMAIN revs' = DOMAIN revs \cup {id} /\ id \notin DOMAIN revs
      /\ revs'[id] = row /\ \A i \in DOMAIN revs : revs'[i] = revs[i]
  BY <1>1, <1>4, <1>6, <1>7
<1>9. PICK entry : entry = [tmpls[t] EXCEPT !.current = id, !.life = IF @ = "new" THEN "live" ELSE @]
  OBVIOUS
<1>10. entry \in Shelf /\ entry.life = "live" /\ entry.current = id
  BY <1>3, <1>5, <1>9 DEF Shelf
<1>11. tmpls' = [tmpls EXCEPT ![t] = entry]
  BY <1>1, <1>9
<1>12. /\ tmpls' \in Seq(Shelf) /\ DOMAIN tmpls' = DOMAIN tmpls /\ Len(tmpls') = Len(tmpls)
       /\ tmpls'[t] = entry /\ \A u \in DOMAIN tmpls : u # t => tmpls'[u] = tmpls[u]
  BY <1>3, <1>4, <1>10, <1>11
<1>13. T!Revisions(t)' = T!Revisions(t) \cup {id}
  BY <1>7, <1>8 DEF T!Revisions
<1>14. \A j \in T!Revisions(t) : revs[j].n < conn[c].n
  BY <1>1 DEF TInv, HoldersOK
<1>15. \A u \in DOMAIN tmpls' : u # t => tmpls'[u].life = "retired"
  BY <1>3, <1>12
<1>16. ShelfOK'
  <2>1. \A i \in DOMAIN revs' : revs'[i].tmpl \in DOMAIN tmpls'
    BY <1>3, <1>4, <1>7, <1>8, <1>12
  <2>2. \A u \in DOMAIN tmpls' : tmpls'[u].life # "new"
    BY <1>10, <1>12, <1>15
  <2>3. ASSUME NEW j \in T!Revisions(t)' PROVE revs'[j].n <= revs'[id].n
    <3>1. revs'[id].n \in Nat /\ revs'[id].n = conn[c].n
      BY <1>7, <1>8 DEF Editions
    <3>2. CASE j = id
      BY <3>1, <3>2
    <3>3. CASE j # id
      <4>1. j \in T!Revisions(t) /\ j \in DOMAIN revs
        BY <1>13, <2>3, <3>3 DEF T!Revisions
      <4>2. revs[j] \in Editions
        BY <1>4, <4>1
      <4>3. revs[j].n \in Nat
        BY <4>2 DEF Editions
      <4>4. revs[j].n < conn[c].n /\ revs'[j].n = revs[j].n
        BY <1>8, <1>14, <4>1
      <4> QED
        BY <3>1, <4>3, <4>4
    <3> QED
      BY <3>2, <3>3
  <2>4. \A u \in DOMAIN tmpls' : tmpls'[u].life = "live" =>
          tmpls'[u].current \in T!Revisions(u)' /\ \A j \in T!Revisions(u)' : revs'[j].n <= revs'[tmpls'[u].current].n
    BY <1>10, <1>12, <1>13, <1>15, <2>3
  <2>5. \A u, v \in DOMAIN tmpls' : tmpls'[u].life # "retired" /\ tmpls'[v].life # "retired" => u = v
    BY <1>15
  <2> QED
    BY <1>8, <1>12, <2>1, <2>2, <2>4, <2>5 DEF ShelfOK
<1>17. HoldersOK'
  BY <1>1, <1>2, <1>8, HolderEnds
<1>18. PageOK'
  BY <1>1 DEF TInv, PageOK
<1>19. \A j \in DOMAIN revs : revs[j].tmpl = t => revs[j].n < revs'[id].n
  BY <1>7, <1>8, <1>14 DEF T!Revisions
<1>20. TInv'
  BY <1>16, <1>17, <1>18 DEF TInv
<1>21. Written(id, t)
  BY <1>7, <1>8, <1>10, <1>12, <1>15, <1>19 DEF Written
<1> QED
  BY <1>20, <1>21

LEMMA AbortKeeps ==
  ASSUME TInv, NEW c \in Conns, T!AbortRegister(c)
  PROVE  TInv'
<1>1. /\ Holds(c) /\ UNCHANGED <<revs, tpage, trows>> /\ T!End(c)
      /\ tmpls' = IF tmpls[conn[c].tmpl].life = "new" THEN SubSeq(tmpls, 1, Len(tmpls) - 1) ELSE tmpls
  BY DEF T!AbortRegister, Holds
<1>2. PageOK' /\ HoldersOK'
  BY <1>1, HolderEnds DEF TInv, PageOK
<1>3. PICK t : t = conn[c].tmpl
  OBVIOUS
<1>4. /\ t \in DOMAIN tmpls /\ tmpls[t] \in Shelf /\ tmpls[t].life \in {"new", "live"}
      /\ \A u \in DOMAIN tmpls : u # t => tmpls[u].life = "retired"
  BY <1>1, <1>3, HoldersRow
<1>5. \A u : T!Revisions(u)' = T!Revisions(u)
  BY <1>1 DEF T!Revisions
<1>6. CASE tmpls[t].life # "new"
  <2>1. tmpls' = tmpls
    BY <1>1, <1>3, <1>6
  <2> QED
    BY <1>1, <1>2, <1>5, <2>1 DEF TInv, ShelfOK
<1>7. CASE tmpls[t].life = "new"
  <2>1. /\ tmpls \in Seq(Shelf) /\ revs \in Seq(Editions) /\ t = Len(tmpls) /\ T!Revisions(t) = {}
        /\ \A i \in DOMAIN revs : revs[i].tmpl \in DOMAIN tmpls
    BY <1>4, <1>7 DEF TInv, ShelfOK
  <2>2. tmpls' = SubSeq(tmpls, 1, Len(tmpls) - 1)
    BY <1>1, <1>3, <1>7
  <2>3. Len(tmpls) \in Nat \ {0}
    BY <1>4, <2>1
  <2>4. tmpls' \in Seq(Shelf) /\ Len(tmpls') = Len(tmpls) - 1 /\ \A u \in DOMAIN tmpls' : tmpls'[u] = tmpls[u]
    BY <2>1, <2>2, <2>3
  <2>5. DOMAIN tmpls' = DOMAIN tmpls \ {t}
    <3>1. DOMAIN tmpls' = 1..(Len(tmpls) - 1)
      BY <2>4
    <3>2. DOMAIN tmpls = 1..Len(tmpls)
      BY <2>1
    <3>3. \A n \in Nat \ {0} : 1..(n - 1) = (1..n) \ {n}
      OBVIOUS
    <3> QED
      BY <2>1, <2>3, <3>1, <3>2, <3>3
  <2>6. \A u \in DOMAIN tmpls' : tmpls'[u].life = "retired"
    BY <1>4, <2>4, <2>5
  <2>7. \A i \in DOMAIN revs' : revs'[i].tmpl \in DOMAIN tmpls'
    BY <1>1, <2>1, <2>5 DEF T!Revisions
  <2>8. ShelfOK'
    BY <1>1, <2>1, <2>4, <2>6, <2>7 DEF ShelfOK
  <2> QED
    BY <1>2, <2>8 DEF TInv
<1> QED
  BY <1>6, <1>7

LEMMA RemoveKeeps ==
  ASSUME TInv, NEW c \in Conns, T!Remove(c)
  PROVE  TInv'
<1>1. /\ Holds(c) /\ UNCHANGED <<revs, tpage, trows>> /\ T!End(c)
      /\ tmpls' = [tmpls EXCEPT ![conn[c].tmpl].life = "retired"]
  BY DEF T!Remove, Holds
<1>2. PageOK' /\ HoldersOK'
  BY <1>1, HolderEnds DEF TInv, PageOK
<1>3. PICK t : t = conn[c].tmpl
  OBVIOUS
<1>4. /\ t \in DOMAIN tmpls /\ tmpls[t] \in Shelf
      /\ \A u \in DOMAIN tmpls : u # t => tmpls[u].life = "retired"
  BY <1>1, <1>3, HoldersRow
<1>5. PICK entry : entry = [tmpls[t] EXCEPT !.life = "retired"]
  OBVIOUS
<1>6. entry \in Shelf /\ entry.life = "retired"
  BY <1>4, <1>5 DEF Shelf
<1>7. tmpls \in Seq(Shelf) /\ revs \in Seq(Editions) /\ \A i \in DOMAIN revs : revs[i].tmpl \in DOMAIN tmpls
  BY DEF TInv, ShelfOK
<1>8. tmpls' = [tmpls EXCEPT ![t] = entry]
  BY <1>1, <1>3, <1>5
<1>9. tmpls' \in Seq(Shelf) /\ DOMAIN tmpls' = DOMAIN tmpls /\ \A u \in DOMAIN tmpls' : tmpls'[u].life = "retired"
  BY <1>4, <1>6, <1>7, <1>8
<1>10. ShelfOK'
  BY <1>1, <1>7, <1>9 DEF ShelfOK
<1> QED
  BY <1>2, <1>10 DEF TInv

\* A page action: no row of the library changes, and a call ends or none moves.
LEMMA LibraryKeeps ==
  ASSUME TInv, UNCHANGED <<tmpls, revs>>, conn' = conn \/ \E c \in Conns : T!End(c)
  PROVE  ShelfOK' /\ HoldersOK'
<1>1. CASE conn' = conn
  <2>1. \A u : T!Revisions(u)' = T!Revisions(u)
    BY DEF T!Revisions
  <2>2. \A c \in Conns : Holds(c)' <=> Holds(c)
    BY <1>1 DEF Holds
  <2>3. ShelfOK'
    BY <2>1 DEF TInv, ShelfOK
  <2>4. HoldersOK'
    BY <1>1, <2>1, <2>2 DEF TInv, HoldersOK
  <2> QED
    BY <2>3, <2>4
<1>2. CASE \E c \in Conns : T!End(c)
  BY <1>2, CallMoves, IdleCall DEF T!End
<1> QED
  BY <1>1, <1>2

LEMMA ServedIs ==
  ASSUME PageOK, tpage.pointer # 0
  PROVE  T!Served \in Docs
<1>1. tpage.pointer \in DOMAIN trows
  BY DEF PageOK
<1>2. trows[tpage.pointer] \in Entries
  BY <1>1 DEF PageOK
<1> QED
  BY <1>2 DEF T!Served, Entries

\* The steps that look something up for a page, and lock nothing of the library.
LEMMA LookKeeps ==
  ASSUME TInv, NEW c \in Conns,
         \/ \E data \in {0, 1}, publish \in BOOLEAN : T!LoadCurrent(c, data, publish)
         \/ \E publish \in BOOLEAN, expected \in 0..Len(trows), config, data \in {T!Keep, 0, 1} :
              T!LockAndLoad(c, publish, expected, config, data)
  PROVE  TInv'
<1>1. UNCHANGED <<tmpls, revs, tpage, trows>>
  BY DEF T!LoadCurrent, T!LockAndLoad
<1>2. PageOK'
  BY <1>1 DEF TInv, PageOK
<1>3. \A i \in DOMAIN revs : i \in Nat
  BY DEF TInv, ShelfOK
<1>4. ASSUME NEW call \in Calls, call.at \in {"build", "rerender"}, call.rev \in DOMAIN revs, T!Go(c, call)
      PROVE  TInv'
  BY <1>1, <1>2, <1>4, CallMoves DEF TInv
<1>5. ASSUME NEW data \in {0, 1}, NEW publish \in BOOLEAN, T!LoadCurrent(c, data, publish) PROVE TInv'
  <2>1. PICK t \in T!LiveTemplates :
          T!Go(c, [T!Idle EXCEPT !.at = "build", !.rev = tmpls[t].current, !.data = data, !.flag = publish])
    BY <1>5 DEF T!LoadCurrent
  <2>2. tmpls[t].current \in DOMAIN revs
    BY DEF TInv, ShelfOK, T!LiveTemplates, T!Revisions
  <2>3. PICK call : call = [T!Idle EXCEPT !.at = "build", !.rev = tmpls[t].current, !.data = data, !.flag = publish]
    OBVIOUS
  <2>4. call \in Calls /\ call.at = "build" /\ call.rev = tmpls[t].current
    BY <1>3, <2>2, <2>3 DEF T!Idle, Calls
  <2> QED
    BY <1>4, <2>1, <2>2, <2>3, <2>4
<1>6. ASSUME NEW publish \in BOOLEAN, NEW expected, NEW config \in {T!Keep, 0, 1}, NEW data \in {T!Keep, 0, 1},
             T!LockAndLoad(c, publish, expected, config, data)
      PROVE  TInv'
  <2>1. T!Given(config, T!Served.config) \in {0, 1} /\ T!Given(data, T!Served.data) \in {0, 1}
    <3>1. T!Served \in Docs
      BY <1>6, ServedIs DEF TInv, T!LockAndLoad
    <3> QED
      BY <3>1 DEF Docs, T!Given
  <2>2. PICK own \in {0, 1} : own = T!Given(config, T!Served.config)
    BY <2>1
  <2>3. PICK numbers \in {0, 1} : numbers = T!Given(data, T!Served.data)
    BY <2>1
  <2>4. PICK i \in DOMAIN revs : T!Go(c, [T!Idle EXCEPT !.at = "rerender", !.rev = i, !.flag = publish, !.config = own, !.data = numbers])
    BY <1>6, <2>2, <2>3 DEF T!LockAndLoad, T!Revisions
  <2>5. PICK call : call = [T!Idle EXCEPT !.at = "rerender", !.rev = i, !.flag = publish, !.config = own, !.data = numbers]
    OBVIOUS
  <2>6. call \in Calls /\ call.at = "rerender" /\ call.rev = i
    BY <1>3, <2>4, <2>5 DEF T!Idle, Calls
  <2> QED
    BY <1>4, <2>4, <2>5, <2>6
<1> QED
  BY <1>5, <1>6

\* What a call in CreatePage or RerenderPage deploys.
LEMMA BuiltIs ==
  ASSUME TInv, NEW c \in Conns, conn[c].at \in {"build", "rerender"}
  PROVE  T!Built(c) \in Docs /\ T!Moved(c) \in Docs /\ conn[c].flag \in BOOLEAN
<1>1. conn[c] \in Calls /\ conn[c].rev \in DOMAIN revs
  BY DEF TInv, HoldersOK
<1>2. revs[conn[c].rev] \in Editions /\ conn[c].rev \in Nat
  BY <1>1 DEF TInv, ShelfOK
<1>3. revs[conn[c].rev].design \in Designs \cup {T!HandMade}
  BY <1>2 DEF Editions
<1>4. conn[c].data \in {0, 1} /\ conn[c].config \in {0, 1} /\ conn[c].flag \in BOOLEAN
  BY <1>1 DEF Calls
<1> QED
  BY <1>2, <1>3, <1>4 DEF T!Built, T!Moved, Docs

\* CreatePage: on a page that is there, only the same build moves the pointer,
\* and it shows that build.
LEMMA CreateKeeps ==
  ASSUME TInv, NEW c \in Conns, T!CreatePage(c)
  PROVE  /\ TInv'
         /\ tpage.life = "live" /\ tpage'.pointer # tpage.pointer =>
              T!SameBuild(T!Built(c)) /\ trows'[tpage'.pointer].doc = T!Built(c)
<1>1. conn[c].at = "build" /\ T!End(c) /\ UNCHANGED <<tmpls, revs>>
  BY DEF T!CreatePage
<1>2. ShelfOK' /\ HoldersOK'
  BY <1>1, LibraryKeeps
<1>3. T!Built(c) \in Docs /\ conn[c].flag \in BOOLEAN
  BY <1>1, BuiltIs
<1>4. PageOK
  BY DEF TInv
<1>5. CASE tpage.life = "none" /\ \E gated \in BOOLEAN :
             LET goes == conn[c].flag /\ ~gated
                 status == IF goes THEN "approved" ELSE IF gated THEN "pending" ELSE "draft"
             IN /\ tpage' = [life |-> "live", gated |-> gated, pointer |-> IF goes THEN 1 ELSE 0]
                /\ trows' = <<[doc |-> T!Built(c), status |-> status]>>
  <2>1. PICK gated \in BOOLEAN :
             LET goes == conn[c].flag /\ ~gated
                 status == IF goes THEN "approved" ELSE IF gated THEN "pending" ELSE "draft"
             IN /\ tpage' = [life |-> "live", gated |-> gated, pointer |-> IF goes THEN 1 ELSE 0]
                /\ trows' = <<[doc |-> T!Built(c), status |-> status]>>
    BY <1>5
  <2>2. PICK status \in T!Status : trows' = <<[doc |-> T!Built(c), status |-> status]>>
    BY <2>1 DEF T!Status
  <2>3. [doc |-> T!Built(c), status |-> status] \in Entries
    BY <1>3 DEF Entries
  <2>4. trows' \in Seq(Entries) /\ Len(trows') = 1
    BY <2>2, <2>3
  <2>5. tpage' \in [life : {"none", "live", "deleted"}, gated : BOOLEAN, pointer : 0..1]
    BY <2>1
  <2>6. PageOK'
    BY <2>4, <2>5 DEF PageOK
  <2> QED
    BY <1>2, <1>5, <2>6 DEF TInv
<1>6. CASE T!SameBuild(T!Built(c)) /\ T!DeployLocked(T!Built(c), conn[c].flag)
  <2>1. PageOK' /\ (tpage'.pointer # tpage.pointer => trows'[tpage'.pointer].doc = T!Built(c))
    BY <1>3, <1>4, <1>6, DeployShows
  <2> QED
    BY <1>2, <1>6, <2>1 DEF TInv
<1>7. CASE UNCHANGED <<tpage, trows>>
  BY <1>2, <1>7 DEF TInv, PageOK
<1> QED
  BY <1>5, <1>6, <1>7 DEF T!CreatePage

\* The row of the page is locked by one rerender at most, for a page that is
\* live and shows something.
LockOK ==
  /\ \A c \in Conns : conn[c].at = "rerender" => tpage.life = "live" /\ tpage.pointer # 0
  /\ \A c, d \in Conns : conn[c].at = "rerender" /\ conn[d].at = "rerender" => c = d

LEMMA LockKeeps ==
  ASSUME TInv, LockOK, NEW c \in Conns,
         \/ \E design \in Designs : T!LookTemplate(c, design)
         \/ T!InsertTemplate(c) \/ T!RelockTemplate(c) \/ T!ReadNewest(c) \/ T!WriteRevision(c) \/ T!AbortRegister(c)
         \/ \E force \in BOOLEAN : T!CountPages(c, force)
         \/ T!Remove(c)
         \/ \E data \in {0, 1}, publish \in BOOLEAN : T!LoadCurrent(c, data, publish)
         \/ T!CreatePage(c)
         \/ \E publish \in BOOLEAN, expected \in 0..Len(trows), config, data \in {T!Keep, 0, 1} :
              T!LockAndLoad(c, publish, expected, config, data)
         \/ T!RerenderPage(c) \/ T!EditPage(c)
         \/ \E v \in DOMAIN trows : T!MovePointer(c, v) \/ T!Reject(c, v)
         \/ T!SetApproval(c) \/ T!DeletePage(c) \/ T!RestorePage(c)
  PROVE  LockOK'
<1>1. conn \in [Conns -> Calls] /\ conn[c] \in Calls
  BY DEF TInv, HoldersOK
<1>2. ASSUME NEW call, T!Go(c, call)
      PROVE  conn'[c] = call /\ \A d \in Conns : d # c => conn'[d] = conn[d]
  BY <1>1, <1>2 DEF T!Go
<1>3. ASSUME NEW call, call.at # "rerender", T!Go(c, call), UNCHANGED tpage
      PROVE  LockOK'
  BY <1>2, <1>3 DEF LockOK
<1>4. ASSUME \A d \in Conns : conn[d].at # "rerender", conn' = conn \/ T!End(c)
      PROVE  LockOK'
  <2>1. \A d \in Conns : conn'[d].at # "rerender"
    BY <1>2, <1>4, IdleCall DEF T!End
  <2> QED
    BY <2>1 DEF LockOK
<1>5. CASE \/ \E design \in Designs : T!LookTemplate(c, design)
           \/ T!InsertTemplate(c) \/ T!RelockTemplate(c) \/ T!ReadNewest(c) \/ T!WriteRevision(c) \/ T!AbortRegister(c)
           \/ \E force \in BOOLEAN : T!CountPages(c, force)
           \/ T!Remove(c)
           \/ \E data \in {0, 1}, publish \in BOOLEAN : T!LoadCurrent(c, data, publish)
  <2>1. UNCHANGED tpage
    BY <1>5 DEF T!LookTemplate, T!InsertTemplate, T!RelockTemplate, T!ReadNewest, T!WriteRevision, T!AbortRegister,
                T!CountPages, T!Remove, T!LoadCurrent
  <2>2. ASSUME T!LookTemplate(c, conn[c].design) \/ \E design \in Designs : T!LookTemplate(c, design)
        PROVE  \E call : call.at # "rerender" /\ T!Go(c, call)
    BY <2>2 DEF T!LookTemplate, T!Idle
  <2>3. ASSUME T!InsertTemplate(c) \/ T!RelockTemplate(c)
        PROVE  \E call : call.at # "rerender" /\ T!Go(c, call)
    BY <1>1, <2>3, IdleCall DEF T!InsertTemplate, T!RelockTemplate, T!End, Calls
  <2>4. ASSUME T!ReadNewest(c)
        PROVE  \E call : call.at # "rerender" /\ T!Go(c, call)
    BY <1>1, <2>4, IdleCall DEF T!ReadNewest, T!End, Calls
  <2>5. ASSUME T!WriteRevision(c) \/ T!AbortRegister(c) \/ T!Remove(c)
        PROVE  \E call : call.at # "rerender" /\ T!Go(c, call)
    BY <2>5, IdleCall DEF T!WriteRevision, T!AbortRegister, T!Remove, T!End
  <2>6. ASSUME NEW force \in BOOLEAN, T!CountPages(c, force)
        PROVE  \E call : call.at # "rerender" /\ T!Go(c, call)
    BY <2>6 DEF T!CountPages, T!Idle
  <2>7. ASSUME NEW data \in {0, 1}, NEW publish \in BOOLEAN, T!LoadCurrent(c, data, publish)
        PROVE  \E call : call.at # "rerender" /\ T!Go(c, call)
    BY <2>7 DEF T!LoadCurrent, T!Idle
  <2>8. \E call : call.at # "rerender" /\ T!Go(c, call)
    BY <1>5, <2>2, <2>3, <2>4, <2>5, <2>6, <2>7
  <2> QED
    BY <1>3, <2>1, <2>8, SMTT(30)
<1>6. CASE \/ T!CreatePage(c) \/ T!EditPage(c)
           \/ \E v \in DOMAIN trows : T!MovePointer(c, v) \/ T!Reject(c, v)
           \/ T!SetApproval(c) \/ T!DeletePage(c) \/ T!RestorePage(c)
  <2>1. conn' = conn \/ T!End(c)
    BY <1>6 DEF T!CreatePage, T!EditPage, T!MovePointer, T!Reject, T!SetApproval, T!DeletePage, T!RestorePage
  <2>2. T!MayLockPage \/ tpage.life # "live"
    BY <1>6 DEF T!CreatePage, T!EditPage, T!MovePointer, T!Reject, T!SetApproval, T!DeletePage, T!RestorePage
  <2> QED
    BY <1>4, <2>1, <2>2 DEF LockOK, T!MayLockPage
<1>7. CASE T!RerenderPage(c)
  <2>1. conn[c].at = "rerender" /\ T!Go(c, T!Idle)
    BY <1>7 DEF T!RerenderPage, T!End
  <2>2. \A d \in Conns : conn'[d].at # "rerender"
    BY <1>2, <2>1, IdleCall DEF LockOK
  <2> QED
    BY <2>2 DEF LockOK
<1>8. ASSUME NEW publish, NEW expected, NEW config, NEW data, T!LockAndLoad(c, publish, expected, config, data) PROVE LockOK'
  <2>1. T!MayLockPage /\ tpage.pointer # 0 /\ UNCHANGED tpage /\ \E call : T!Go(c, call)
    BY <1>8 DEF T!LockAndLoad
  <2> QED
    BY <1>2, <2>1 DEF LockOK, T!MayLockPage
<1> QED
  BY <1>5, <1>6, <1>7, <1>8

LEMMA PageKeeps ==
  ASSUME TInv, LockOK, NEW c \in Conns,
         \/ T!RerenderPage(c) \/ T!EditPage(c)
         \/ \E v \in DOMAIN trows : T!MovePointer(c, v) \/ T!Reject(c, v)
         \/ T!SetApproval(c) \/ T!DeletePage(c) \/ T!RestorePage(c)
  PROVE  TInv'
<1>1. UNCHANGED <<tmpls, revs>> /\ (conn' = conn \/ T!End(c))
  BY DEF T!RerenderPage, T!EditPage, T!MovePointer, T!Reject, T!SetApproval, T!DeletePage, T!RestorePage
<1>2. ShelfOK' /\ HoldersOK'
  BY <1>1, LibraryKeeps
<1>3. PageOK /\ trows \in Seq(Entries) /\ DOMAIN trows = 1..Len(trows) /\ Len(trows) \in Nat
      /\ tpage \in [life : {"none", "live", "deleted"}, gated : BOOLEAN, pointer : 0..Len(trows)]
  BY DEF TInv, PageOK
<1>4. ASSUME NEW v \in DOMAIN trows, NEW status \in T!Status, trows' = [trows EXCEPT ![v].status = status]
      PROVE  trows' \in Seq(Entries) /\ Len(trows') = Len(trows)
  <2>1. trows[v] \in Entries
    BY <1>3
  <2>2. PICK entry : entry = [trows[v] EXCEPT !.status = status]
    OBVIOUS
  <2>3. entry \in Entries
    BY <2>1, <2>2 DEF Entries
  <2>4. trows' = [trows EXCEPT ![v] = entry]
    BY <1>4, <2>2
  <2> QED
    BY <1>3, <2>3, <2>4
<1>5. CASE T!RerenderPage(c)
  <2>1. T!Moved(c) \in Docs /\ conn[c].flag \in BOOLEAN /\ T!DeployLocked(T!Moved(c), conn[c].flag)
    BY <1>5, BuiltIs DEF T!RerenderPage
  <2> QED
    BY <1>2, <1>3, <2>1, DeployShows DEF TInv
<1>6. CASE T!EditPage(c)
  <2>1. T!Served \in Docs
    BY <1>3, <1>6, ServedIs DEF T!EditPage
  <2>2. PICK publish \in BOOLEAN :
          \/ T!DeployLocked([T!Served EXCEPT !.data = 1, !.asOf = 1], publish)
          \/ T!DeployLocked([T!Served EXCEPT !.config = 1], publish)
          \/ T!DeployLocked([T!Served EXCEPT !.rev = 0, !.design = T!HandMade], publish)
    BY <1>6 DEF T!EditPage
  <2>3. /\ [T!Served EXCEPT !.data = 1, !.asOf = 1] \in Docs
        /\ [T!Served EXCEPT !.config = 1] \in Docs
        /\ [T!Served EXCEPT !.rev = 0, !.design = T!HandMade] \in Docs
    BY <2>1 DEF Docs
  <2> QED
    BY <1>2, <1>3, <2>2, <2>3, DeployShows DEF TInv
<1>7. ASSUME NEW v \in DOMAIN trows, T!MovePointer(c, v) PROVE TInv'
  <2>1. trows' \in Seq(Entries) /\ Len(trows') = Len(trows)
    BY <1>4, <1>7 DEF T!MovePointer, T!Status
  <2>2. tpage' \in [life : {"none", "live", "deleted"}, gated : BOOLEAN, pointer : 0..Len(trows)]
    BY <1>3, <1>7 DEF T!MovePointer
  <2> QED
    BY <1>2, <2>1, <2>2 DEF TInv, PageOK
<1>8. ASSUME NEW v \in DOMAIN trows, T!Reject(c, v) PROVE TInv'
  <2>1. trows' \in Seq(Entries) /\ Len(trows') = Len(trows) /\ tpage' = tpage
    BY <1>4, <1>8 DEF T!Reject, T!Status
  <2> QED
    BY <1>2, <1>3, <2>1 DEF TInv, PageOK
<1>9. CASE T!SetApproval(c) \/ T!DeletePage(c) \/ T!RestorePage(c)
  <2>1. trows' = trows
    BY <1>9 DEF T!SetApproval, T!DeletePage, T!RestorePage
  <2>2. tpage' \in [life : {"none", "live", "deleted"}, gated : BOOLEAN, pointer : 0..Len(trows)]
    <3>1. CASE T!SetApproval(c)
      <4>1. PICK gated \in BOOLEAN : gated = ~tpage.gated
        OBVIOUS
      <4>2. tpage' = [tpage EXCEPT !.gated = gated]
        BY <3>1, <4>1 DEF T!SetApproval
      <4> QED
        BY <1>3, <4>2
    <3>2. CASE T!DeletePage(c)
      <4>1. tpage' = [tpage EXCEPT !.life = "deleted", !.pointer = 0]
        BY <3>2 DEF T!DeletePage
      <4>2. 0 \in 0..Len(trows) /\ "deleted" \in {"none", "live", "deleted"}
        BY <1>3
      <4> QED
        BY <1>3, <4>1, <4>2, Zenon
    <3>3. CASE T!RestorePage(c)
      BY <1>3, <3>3 DEF T!RestorePage
    <3> QED
      BY <1>9, <3>1, <3>2, <3>3
  <2> QED
    BY <1>2, <1>3, <2>1, <2>2 DEF TInv, PageOK
<1> QED
  BY <1>5, <1>6, <1>7, <1>8, <1>9

LEMMA TemplatesKeep == TInv /\ LockOK /\ [T!TemplatesNext]_tv => TInv' /\ LockOK'
<1> SUFFICES ASSUME TInv, LockOK, [T!TemplatesNext]_tv PROVE TInv' /\ LockOK'
  OBVIOUS
<1>1. CASE UNCHANGED tv
  <2>1. UNCHANGED <<tmpls, revs, tpage, trows, conn>>
    BY <1>1 DEF tv
  <2> QED
    BY <2>1, LibraryKeeps DEF TInv, PageOK, LockOK
<1>2. ASSUME NEW c \in Conns,
             \/ \E design \in Designs : T!LookTemplate(c, design)
             \/ T!InsertTemplate(c) \/ T!RelockTemplate(c) \/ T!ReadNewest(c) \/ T!WriteRevision(c) \/ T!AbortRegister(c)
             \/ \E force \in BOOLEAN : T!CountPages(c, force)
             \/ T!Remove(c)
             \/ \E data \in {0, 1}, publish \in BOOLEAN : T!LoadCurrent(c, data, publish)
             \/ T!CreatePage(c)
             \/ \E publish \in BOOLEAN, expected \in 0..Len(trows), config, data \in {T!Keep, 0, 1} :
                  T!LockAndLoad(c, publish, expected, config, data)
             \/ T!RerenderPage(c) \/ T!EditPage(c)
             \/ \E v \in DOMAIN trows : T!MovePointer(c, v) \/ T!Reject(c, v)
             \/ T!SetApproval(c) \/ T!DeletePage(c) \/ T!RestorePage(c)
      PROVE  TInv' /\ LockOK'
  <2>1. LockOK'
    BY <1>2, LockKeeps
  <2>2. TInv'
    BY <1>2, RegisterKeeps, InsertKeeps, WriteKeeps, AbortKeeps, RemoveKeeps, LookKeeps, CreateKeeps, PageKeeps
  <2> QED
    BY <2>1, <2>2
<1> QED
  BY <1>1, <1>2 DEF T!TemplatesNext

\* A build that ends is the CreatePage of that call.
LEMMA BuildEnds ==
  ASSUME TInv, T!TemplatesNext, NEW c \in Conns, conn[c].at = "build", conn'[c] = T!Idle
  PROVE  T!CreatePage(c)
<1>1. conn \in [Conns -> Calls] /\ conn'[c] # conn[c] /\ conn[c] # T!Idle
  BY IdleCall DEF TInv, HoldersOK
<1>2. ASSUME NEW d \in Conns, NEW call, T!Go(d, call) PROVE d = c
  BY <1>1, <1>2 DEF T!Go
<1>3. PICK d \in Conns :
        \/ \E design \in Designs : T!LookTemplate(d, design)
        \/ T!InsertTemplate(d) \/ T!RelockTemplate(d) \/ T!ReadNewest(d) \/ T!WriteRevision(d) \/ T!AbortRegister(d)
        \/ \E force \in BOOLEAN : T!CountPages(d, force)
        \/ T!Remove(d)
        \/ \E data \in {0, 1}, publish \in BOOLEAN : T!LoadCurrent(d, data, publish)
        \/ T!CreatePage(d)
        \/ \E publish \in BOOLEAN, expected \in 0..Len(trows), config, data \in {T!Keep, 0, 1} :
             T!LockAndLoad(d, publish, expected, config, data)
        \/ T!RerenderPage(d) \/ T!EditPage(d)
        \/ \E v \in DOMAIN trows : T!MovePointer(d, v) \/ T!Reject(d, v)
        \/ T!SetApproval(d) \/ T!DeletePage(d) \/ T!RestorePage(d)
  BY DEF T!TemplatesNext
<1>4. CASE \/ T!EditPage(d) \/ \E v \in DOMAIN trows : T!MovePointer(d, v) \/ T!Reject(d, v)
           \/ T!SetApproval(d) \/ T!DeletePage(d) \/ T!RestorePage(d)
  <2>1. conn' = conn
    BY <1>4 DEF T!EditPage, T!MovePointer, T!Reject, T!SetApproval, T!DeletePage, T!RestorePage
  <2> QED
    BY <1>1, <2>1
<1>5. CASE \/ \E design \in Designs : T!LookTemplate(d, design)
           \/ \E force \in BOOLEAN : T!CountPages(d, force)
           \/ \E data \in {0, 1}, publish \in BOOLEAN : T!LoadCurrent(d, data, publish)
           \/ \E publish \in BOOLEAN, expected \in 0..Len(trows), config, data \in {T!Keep, 0, 1} :
                T!LockAndLoad(d, publish, expected, config, data)
  <2>1. conn[d] = T!Idle /\ \E call : T!Go(d, call)
    BY <1>5 DEF T!LookTemplate, T!CountPages, T!LoadCurrent, T!LockAndLoad
  <2> QED
    BY <1>1, <1>2, <2>1, SMTT(30)
<1>6. CASE T!InsertTemplate(d) \/ T!RelockTemplate(d) \/ T!ReadNewest(d)
  <2>1. conn[d].at # "build" /\ \E call : T!Go(d, call)
    BY <1>6 DEF T!InsertTemplate, T!RelockTemplate, T!ReadNewest, T!End
  <2> QED
    BY <1>2, <2>1, SMTT(30)
<1>7. CASE T!WriteRevision(d) \/ T!AbortRegister(d) \/ T!Remove(d) \/ T!RerenderPage(d)
  <2>1. conn[d].at # "build" /\ \E call : T!Go(d, call)
    BY <1>7 DEF T!WriteRevision, T!AbortRegister, T!Remove, T!RerenderPage, T!End
  <2> QED
    BY <1>2, <2>1
<1>8. CASE T!CreatePage(d)
  <2>1. \E call : T!Go(d, call)
    BY <1>8, SMTT(30) DEF T!CreatePage, T!End
  <2> QED
    BY <1>2, <1>8, <2>1
<1> QED
  BY <1>3, <1>4, <1>5, <1>6, <1>7, <1>8

\* A revision is added by WriteRevision alone.
LEMMA RevisionsAdded ==
  ASSUME T!TemplatesNext, revs' # revs
  PROVE  \E c \in Conns : T!WriteRevision(c)
BY DEF T!TemplatesNext, T!LookTemplate, T!InsertTemplate, T!RelockTemplate, T!ReadNewest, T!AbortRegister, T!CountPages,
       T!Remove, T!LoadCurrent, T!CreatePage, T!LockAndLoad, T!RerenderPage, T!EditPage, T!MovePointer, T!Reject,
       T!SetApproval, T!DeletePage, T!RestorePage

LEMMA WrittenIsCurrent ==
  ASSUME TInv, T!TemplatesNext, NEW i \in DOMAIN revs' \ DOMAIN revs, NEW t, t = revs'[i].tmpl
  PROVE  /\ tmpls'[t].life = "live" /\ tmpls'[t].current = i
         /\ \A j \in T!Revisions(t) : revs[j].n < revs'[i].n
         /\ \A u \in DOMAIN tmpls' \ {t} : tmpls'[u].life = "retired"
<1>1. PICK c \in Conns : T!WriteRevision(c)
  BY RevisionsAdded
<1>2. PICK id, own : Written(id, own)
  BY <1>1, WriteKeeps
<1>3. i = id /\ t = own
  BY <1>2 DEF Written
<1> QED
  BY <1>2, <1>3 DEF T!Revisions, Written

\* A build that is taken for one that was done shows what was shown, or the
\* newest version there was.
LEMMA RetryShows ==
  ASSUME TInv, T!TemplatesNext, NEW c \in Conns, conn[c].at = "build", conn'[c] = T!Idle,
         tpage.life = "live", tpage'.pointer # tpage.pointer,
         NEW usable, usable = {v \in DOMAIN trows : trows[v].status # "rejected"},
         NEW last, last = CHOOSE v \in usable : \A w \in usable : w <= v
  PROVE  trows'[tpage'.pointer].doc = trows[IF tpage.pointer # 0 THEN tpage.pointer ELSE last].doc
<1>1. T!CreatePage(c)
  BY BuildEnds
<1>2. T!SameBuild(T!Built(c)) /\ trows'[tpage'.pointer].doc = T!Built(c)
  BY <1>1, CreateKeeps
<1>3. PICK v \in usable : /\ trows[v].doc = T!Built(c)
                          /\ IF tpage.pointer # 0 THEN v = tpage.pointer ELSE \A w \in usable : w <= v
  BY <1>2 DEF T!SameBuild
<1>4. CASE tpage.pointer # 0
  BY <1>2, <1>3, <1>4
<1>5. CASE tpage.pointer = 0
  <2>1. usable \in SUBSET Nat
    BY SMTT(60) DEF TInv, PageOK
  <2>2. \A w \in usable : w <= v
    BY <1>3, <1>5
  <2>3. last \in usable /\ \A w \in usable : w <= last
    BY <1>3, <2>2
  <2>4. last = v
    BY <1>3, <2>1, <2>2, <2>3
  <2> QED
    BY <1>2, <1>3, <1>5, <2>4
<1> QED
  BY <1>4, <1>5

\* A registered revision is the one the next page is built from, the highest
\* of the only template of the name, however registrations and retirements
\* interleave; and a create_page_from_template that arrives again never shows
\* another document than the page showed: for every number of connections,
\* designs and rows (internal/templates: RegisterWithTx, Remove,
\* assertExistingPage).
THEOREM LibraryConverges == Spec => RegisteredIsCurrent /\ RetryNeverReverts
<1> DEFINE Current ==
      \A i \in DOMAIN revs' \ DOMAIN revs :
        LET t == revs'[i].tmpl
        IN /\ tmpls'[t].life = "live" /\ tmpls'[t].current = i
           /\ \A j \in T!Revisions(t) : revs[j].n < revs'[i].n
           /\ \A u \in DOMAIN tmpls' \ {t} : tmpls'[u].life = "retired"
    Kept ==
      \A c \in Conns :
       (conn[c].at = "build" /\ conn'[c] = T!Idle /\ tpage.life = "live" /\ tpage'.pointer # tpage.pointer) =>
         LET usable == {v \in DOMAIN trows : trows[v].status # "rejected"}
             last == CHOOSE v \in usable : \A w \in usable : w <= v
         IN trows'[tpage'.pointer].doc = trows[IF tpage.pointer # 0 THEN tpage.pointer ELSE last].doc
<1>1. Init => TInv /\ LockOK
  <2>1. T!TemplatesInit => LockOK
    BY IdleCall DEF T!TemplatesInit, LockOK
  <2> QED
    BY <2>1, TemplatesStart DEF Init
<1>2. TInv /\ LockOK /\ [Next]_vars => TInv' /\ LockOK'
  BY Parts, TemplatesKeep
<1>3. ASSUME TInv, T!TemplatesNext PROVE Current
  BY <1>3, WrittenIsCurrent
<1>4. ASSUME TInv, T!TemplatesNext PROVE Kept
  BY <1>4, RetryShows
<1> HIDE DEF Current, Kept
<1>5. TInv /\ LockOK /\ [Next]_vars => [Current]_(T!templateVars) /\ [Kept]_(T!templateVars)
  <2> SUFFICES ASSUME TInv, [Next]_vars PROVE [Current]_(T!templateVars) /\ [Kept]_(T!templateVars)
    OBVIOUS
  <2>1. [T!TemplatesNext]_tv
    BY Parts
  <2> QED
    BY <1>3, <1>4, <2>1 DEF tv, T!templateVars
<1>6. Spec => [][Current]_(T!templateVars) /\ [][Kept]_(T!templateVars)
  BY <1>1, <1>2, <1>5, PTL DEF Spec
<1> QED
  BY <1>6 DEF RegisteredIsCurrent, RetryNeverReverts, T!RegisteredIsCurrent, T!RetryNeverReverts, Current, Kept

---------------------------------------------------------------------------
(* Schedules.  A time is a day and a minute of it, so the first day that   *)
(* matches and the last of its minutes are the latest fire, and what       *)
(* MaxGap walks back over is every fire of the week.                       *)

\* A set of whole numbers between two has a greatest and a least one.
LEMMA GreatestOf ==
  ASSUME NEW lo \in Int, NEW hi \in Int, NEW S \in SUBSET (lo..hi), S # {}
  PROVE  C!Highest(S) \in S /\ \A n \in S : n <= C!Highest(S)
<1> DEFINE Left == {hi - x : x \in S}
<1>1. Left \subseteq Nat /\ Left # {}
  <2>1. ASSUME NEW x \in S PROVE hi - x \in Nat
    <3>1. x \in Int /\ x <= hi
      OBVIOUS
    <3> QED
      BY <3>1
  <2> QED
    BY <2>1
<1>2. PICK m \in Left : \A k \in Left : m <= k
  <2> HIDE DEF Left
  <2> QED
    BY <1>1, NatMin
<1>3. PICK x \in S : m = hi - x
  BY <1>2
<1>4. ASSUME NEW y \in S PROVE y <= x
  <2>1. m <= hi - y /\ x \in Int /\ y \in Int
    BY <1>2
  <2> QED
    BY <1>3, <2>1
<1> QED
  BY <1>4 DEF C!Highest

LEMMA LeastOf ==
  ASSUME NEW lo \in Int, NEW hi \in Int, NEW S \in SUBSET (lo..hi), S # {}
  PROVE  C!Lowest(S) \in S /\ \A n \in S : C!Lowest(S) <= n
<1> DEFINE Up == {x - lo : x \in S}
<1>1. Up \subseteq Nat /\ Up # {}
  <2>1. ASSUME NEW x \in S PROVE x - lo \in Nat
    <3>1. x \in Int /\ lo <= x
      OBVIOUS
    <3> QED
      BY <3>1
  <2> QED
    BY <2>1
<1>2. PICK m \in Up : \A k \in Up : m <= k
  <2> HIDE DEF Up
  <2> QED
    BY <1>1, NatMin
<1>3. PICK x \in S : m = x - lo
  BY <1>2
<1>4. ASSUME NEW y \in S PROVE x <= y
  <2>1. m <= y - lo /\ x \in Int /\ y \in Int
    BY <1>2
  <2> QED
    BY <1>3, <2>1
<1> QED
  BY <1>4 DEF C!Lowest

\* There is only one.
LEMMA HighestIs ==
  ASSUME NEW S \in SUBSET Int, NEW m \in S, \A n \in S : n <= m
  PROVE  C!Highest(S) = m
<1>1. C!Highest(S) \in S /\ \A n \in S : n <= C!Highest(S)
  BY DEF C!Highest
<1>2. m <= C!Highest(S) /\ C!Highest(S) <= m /\ C!Highest(S) \in Int /\ m \in Int
  BY <1>1
<1> QED
  BY <1>2

\* Division with a remainder.
LEMMA MulLess == ASSUME NEW D \in Nat \ {0}, NEW d \in Int, NEW e \in Int, d < e PROVE d * D + D <= e * D
<1>1. (e - d - 1) * D >= 0
  OBVIOUS
<1>2. (e - d - 1) * D = e * D - d * D - D
  OBVIOUS
<1>3. d * D \in Int /\ e * D \in Int
  OBVIOUS
<1> QED
  BY <1>1, <1>2, <1>3

LEMMA DivMod ==
  ASSUME NEW D \in Nat \ {0}, NEW t \in Int
  PROVE  t \div D \in Int /\ t % D \in 0..(D - 1) /\ t = (t \div D) * D + (t % D)
OBVIOUS

LEMMA DivModOf ==
  ASSUME NEW D \in Nat \ {0}, NEW d \in Int, NEW m \in 0..(D - 1)
  PROVE  (d * D + m) \div D = d /\ (d * D + m) % D = m
<1> DEFINE t == d * D + m
<1>1. t \in Int
  OBVIOUS
<1>2. t \div D \in Int /\ t % D \in 0..(D - 1) /\ t = (t \div D) * D + (t % D)
  BY <1>1, DivMod
<1>3. ~(t \div D < d)
  BY <1>2, MulLess
<1>4. ~(d < t \div D)
  BY <1>2, MulLess
<1> QED
  BY <1>2, <1>3, <1>4

\* A time is a day and a minute of it, and times are in the order of their days.
Moment(d, m) == d * C!Day + m
DayOf(t) == t \div C!Day
MinuteOf(t) == t % C!Day
Minutes == 0..(C!Day - 1)

LEMMA DayLong == C!Day \in Nat \ {0}
<1>1. HourMinutes \in Nat \ {0} /\ DayHours \in Nat \ {0}
  BY ScheduleQuestions DEF C!SchedulesAssumption
<1>2. HourMinutes * DayHours > 0
  BY <1>1
<1> QED
  BY <1>1, <1>2 DEF C!Day

LEMMA Times ==
  ASSUME NEW t \in Int
  PROVE  DayOf(t) \in Int /\ MinuteOf(t) \in Minutes /\ t = Moment(DayOf(t), MinuteOf(t))
BY DayLong, DivMod DEF DayOf, MinuteOf, Minutes, Moment

LEMMA Moments ==
  ASSUME NEW d \in Int, NEW m \in Minutes
  PROVE  Moment(d, m) \in Int /\ DayOf(Moment(d, m)) = d /\ MinuteOf(Moment(d, m)) = m
<1>1. d * C!Day + m \in Int
  BY DayLong DEF Minutes
<1> QED
  BY <1>1, DayLong, DivModOf DEF DayOf, MinuteOf, Minutes, Moment

LEMMA Earlier ==
  ASSUME NEW d \in Int, NEW e \in Int, NEW m \in Minutes, NEW n \in Minutes, d < e
  PROVE  Moment(d, m) < Moment(e, n)
<1>1. d * C!Day + C!Day <= e * C!Day
  BY DayLong, MulLess
<1>2. d * C!Day \in Int /\ e * C!Day \in Int /\ C!Day \in Int /\ m \in 0..(C!Day - 1) /\ n \in 0..(C!Day - 1)
  BY DayLong DEF Minutes
<1> QED
  BY <1>1, <1>2 DEF Moment

\* A time in the last so many whole days is on one of that many days.
LEMMA Within ==
  ASSUME NEW x \in Int, NEW u \in Int, x - (SearchDays - 1) * C!Day <= u, u <= x
  PROVE  DayOf(x) - DayOf(u) \in 0..(SearchDays - 1)
<1> DEFINE D == C!Day
           d == DayOf(x)
           e == DayOf(u)
<1>1. D \in Nat \ {0} /\ SearchDays \in Nat \ {0}
  BY DayLong, ScheduleQuestions DEF C!SchedulesAssumption
<1>2. /\ d \in Int /\ MinuteOf(x) \in 0..(D - 1) /\ x = d * D + MinuteOf(x)
      /\ e \in Int /\ MinuteOf(u) \in 0..(D - 1) /\ u = e * D + MinuteOf(u)
  BY Times DEF Minutes, Moment
<1> HIDE DEF D, d, e
<1>3. ~(d < e)
  <2>1. d < e => d * D + D <= e * D
    BY <1>1, <1>2, MulLess
  <2>2. d * D \in Int /\ e * D \in Int
    BY <1>1, <1>2
  <2> QED
    BY <2>1, <2>2, <1>1, <1>2
<1>4. ~(e < d - (SearchDays - 1))
  <2> DEFINE f == d - (SearchDays - 1)
  <2>1. f \in Int /\ (e < f => e * D + D <= f * D)
    BY <1>1, <1>2, MulLess
  <2>2. f * D = d * D - (SearchDays - 1) * D
    BY <1>1, <1>2
  <2>3. d * D \in Int /\ e * D \in Int /\ (SearchDays - 1) * D \in Int
    BY <1>1, <1>2
  <2>4. x - (SearchDays - 1) * D <= u
    BY DEF D
  <2> HIDE DEF f
  <2> QED
    BY <2>1, <2>2, <2>3, <2>4, <1>1, <1>2 DEF f
<1> QED
  BY <1>1, <1>2, <1>3, <1>4 DEF d, e

\* The sets of a schedule are those of a clock.
OnClock(s) ==
  /\ s.minute \subseteq 0..(HourMinutes - 1) /\ s.minute # {}
  /\ s.hour \subseteq 0..(DayHours - 1) /\ s.hour # {}

\* A schedule fires in the minutes of its days.
HasFire(s, t) == C!DayMatches(s, DayOf(t)) /\ MinuteOf(t) \in C!OfDay(s)

LEMMA FiresOfDay ==
  ASSUME NEW s, OnClock(s)
  PROVE  /\ C!OfDay(s) \subseteq Minutes /\ C!OfDay(s) # {}
         /\ \A t \in Int : MinuteOf(t) \in C!OfDay(s) <=>
              MinuteOf(t) \div HourMinutes \in s.hour /\ t % HourMinutes \in s.minute
<1> DEFINE Hours == HourMinutes
<1>1. Hours \in Nat \ {0} /\ DayHours \in Nat \ {0} /\ C!Day = Hours * DayHours
  BY ScheduleQuestions DEF C!SchedulesAssumption, C!Day
<1>2. s.minute \subseteq 0..(Hours - 1) /\ s.hour \subseteq 0..(DayHours - 1)
  BY DEF OnClock
<1> HIDE DEF Hours
<1>3. ASSUME NEW h \in s.hour, NEW m \in s.minute
      PROVE  h * Hours + m \in Minutes /\ (h * Hours + m) \div Hours = h /\ (h * Hours + m) % Hours = m
  <2>1. h \in 0..(DayHours - 1) /\ m \in 0..(Hours - 1)
    BY <1>2
  <2>2. h * Hours + Hours <= DayHours * Hours
    BY <2>1, <1>1, MulLess
  <2>3. h * Hours >= 0 /\ h * Hours \in Int /\ DayHours * Hours = C!Day /\ C!Day \in Int
    BY <2>1, <1>1
  <2>4. h * Hours + m \in 0..(C!Day - 1)
    BY <2>1, <2>2, <2>3, <1>1
  <2> QED
    BY <2>1, <2>4, <1>1, DivModOf DEF Minutes
<1>4. C!OfDay(s) = {h * Hours + m : h \in s.hour, m \in s.minute}
  BY DEF C!OfDay, Hours
<1>5. ASSUME NEW t \in Int
      PROVE  /\ MinuteOf(t) \in Int
             /\ MinuteOf(t) = (MinuteOf(t) \div Hours) * Hours + (t % Hours)
             /\ MinuteOf(t) % Hours = t % Hours
  <2> DEFINE d == DayOf(t)
             r == MinuteOf(t)
  <2>1. d \in Int /\ r \in Minutes /\ t = d * C!Day + r
    BY Times DEF Moment
  <2> HIDE DEF d, r
  <2>2. r \in Int /\ r \div Hours \in Int /\ r % Hours \in 0..(Hours - 1) /\ r = (r \div Hours) * Hours + (r % Hours)
    BY <2>1, <1>1, DivMod DEF Minutes
  <2>3. t = (d * DayHours + r \div Hours) * Hours + (r % Hours) /\ d * DayHours + r \div Hours \in Int
    <3> DEFINE q == r \div Hours
               m == r % Hours
    <3>1. q \in Int /\ m \in Int /\ r = q * Hours + m
      BY <2>2, <1>1
    <3>2. t = d * C!Day + r
      BY <2>1
    <3> HIDE DEF q, m
    <3>3. (d * DayHours + q) * Hours = d * (Hours * DayHours) + q * Hours /\ d * DayHours + q \in Int
      BY <2>1, <3>1, <1>1
    <3>4. t = (d * DayHours + q) * Hours + m
      <4>1. q * Hours \in Int /\ d * (Hours * DayHours) \in Int
        BY <2>1, <3>1, <1>1
      <4> QED
        BY <4>1, <3>1, <3>2, <3>3, <1>1
    <3> QED
      BY <3>3, <3>4 DEF q, m
  <2>4. t % Hours = r % Hours
    BY <2>2, <2>3, <1>1, DivModOf
  <2> QED
    BY <2>2, <2>4 DEF r
<1>6. ASSUME NEW t \in Int
      PROVE  MinuteOf(t) \in C!OfDay(s) <=> MinuteOf(t) \div Hours \in s.hour /\ t % Hours \in s.minute
  <2>1. ASSUME NEW h \in s.hour, NEW m \in s.minute, MinuteOf(t) = h * Hours + m
        PROVE  MinuteOf(t) \div Hours \in s.hour /\ t % Hours \in s.minute
    BY <2>1, <1>3, <1>5
  <2>2. ASSUME MinuteOf(t) \div Hours \in s.hour, t % Hours \in s.minute
        PROVE  MinuteOf(t) \in C!OfDay(s)
    BY <2>2, <1>4, <1>5
  <2> QED
    BY <2>1, <2>2, <1>4
<1>7. C!OfDay(s) # {}
  <2>1. PICK h \in s.hour, m \in s.minute : TRUE
    BY DEF OnClock
  <2>2. h * Hours + m \in C!OfDay(s)
    BY <1>4, <2>1
  <2> QED
    BY <2>2
<1>8. C!OfDay(s) \subseteq Minutes
  BY <1>3, <1>4
<1> QED
  BY <1>6, <1>7, <1>8 DEF Hours

\* What an item names is in the range of its field, and it names something.
LEMMA ItemNames ==
  ASSUME NEW f, f.min \in Int, f.max \in Int, f.min <= f.max,
         NEW it \in C!Items, C!ItemOK(it, f)
  PROVE  C!ItemValues(it, f) \subseteq f.min..f.max /\ C!ItemValues(it, f) # {}
<1> DEFINE lo == IF it.kind = "star" THEN f.min ELSE it.lo
           hi == IF it.kind = "star" THEN f.max ELSE it.hi
           step == IF it.step = 0 THEN 1 ELSE it.step
<1>1. it.lo \in Int /\ it.hi \in Int /\ it.step \in Nat
  BY DEF C!Items
<1>2. lo \in Int /\ hi \in Int /\ step \in Nat \ {0} /\ f.min <= lo /\ lo <= hi /\ hi <= f.max
  BY <1>1 DEF C!ItemOK
<1>3. C!ItemValues(it, f) = {v \in lo..hi : (v - lo) % step = 0}
  BY DEF C!ItemValues
<1> HIDE DEF lo, hi, step
<1>4. lo \in lo..hi /\ (lo - lo) % step = 0
  <2>1. 0 * step + 0 = 0 /\ 0 \in 0..(step - 1)
    BY <1>2
  <2>2. 0 % step = 0
    BY <2>1, <1>2, DivModOf
  <2> QED
    BY <2>2, <1>2
<1>5. lo \in {v \in lo..hi : (v - lo) % step = 0}
  BY <1>4
<1>6. lo..hi \subseteq f.min..f.max
  BY <1>2
<1> QED
  BY <1>3, <1>5, <1>6

\* An expression that parses is a schedule of the clock, and it fires when its
\* fields say so.
LEMMA Parsed ==
  ASSUME NEW fields \in Seq(Seq(C!Items)), C!Parses(fields)
  PROVE  /\ OnClock(C!Schedule(fields))
         /\ \A t \in Int : C!Fires(fields, t) <=> HasFire(C!Schedule(fields), t)
<1> DEFINE s == C!Schedule(fields)
           P(i) == C!parseField(fields[i], C!Fields[i])
<1>1. HourMinutes \in Nat \ {0} /\ DayHours \in Nat \ {0}
  BY ScheduleQuestions DEF C!SchedulesAssumption
<1>2. /\ C!Fields[1].min = 0 /\ C!Fields[1].max = HourMinutes - 1
      /\ C!Fields[2].min = 0 /\ C!Fields[2].max = DayHours - 1
      /\ C!Fields[5].min = 0 /\ C!Fields[5].max = 7
  BY DEF C!Fields
<1>3. \A i \in 1..5 : C!Fields[i].min \in Int /\ C!Fields[i].max \in Int /\ C!Fields[i].min <= C!Fields[i].max
  BY <1>1 DEF C!Fields
<1>4. \A i \in 1..5 : fields[i] \in Seq(C!Items) /\ fields[i] # <<>> /\ \A j \in DOMAIN fields[i] : C!ItemOK(fields[i][j], C!Fields[i])
  <2>1. \A i \in 1..5 : fields[i] # <<>> /\ \A j \in DOMAIN fields[i] : C!ItemOK(fields[i][j], C!Fields[i])
    BY DEF C!Parses
  <2>2. Len(fields) = 5
    BY DEF C!Parses
  <2>3. \A i \in 1..5 : fields[i] \in Seq(C!Items)
    <3> DEFINE Ts == Seq(C!Items)
    <3>1. fields \in Seq(Ts)
      OBVIOUS
    <3> HIDE DEF Ts
    <3>2. \A i \in 1..Len(fields) : fields[i] \in Ts
      BY <3>1
    <3> QED
      BY <2>2, <3>2 DEF Ts
  <2> QED
    BY <2>1, <2>3
<1>5. ASSUME NEW i \in 1..5
      PROVE  P(i) \subseteq C!Fields[i].min..C!Fields[i].max /\ P(i) # {}
  <2>1. \A j \in DOMAIN fields[i] : fields[i][j] \in C!Items
    BY <1>4, SMTT(30)
  <2>2. \A j \in DOMAIN fields[i] :
          /\ C!ItemValues(fields[i][j], C!Fields[i]) \subseteq C!Fields[i].min..C!Fields[i].max
          /\ C!ItemValues(fields[i][j], C!Fields[i]) # {}
    BY <2>1, <1>3, <1>4, ItemNames
  <2>3. 1 \in DOMAIN fields[i]
    <3>1. fields[i] \in Seq(C!Items) /\ fields[i] # <<>>
      BY <1>4
    <3>2. \A q \in Seq(C!Items) : q # <<>> => 1 \in DOMAIN q
      OBVIOUS
    <3> QED
      BY <3>1, <3>2
  <2> QED
    BY <2>2, <2>3 DEF C!parseField
<1>6. /\ s.minute = P(1) /\ s.hour = P(2) /\ s.dom = P(3) /\ s.month = P(4)
      /\ s.dow = {v % 7 : v \in P(5)}
      /\ s.domStar = (fields[3][1].kind = "star") /\ s.dowStar = (fields[5][1].kind = "star")
  BY DEF C!Schedule
<1>7. OnClock(s)
  <2>1. 1 \in 1..5 /\ 2 \in 1..5
    OBVIOUS
  <2>2. P(1) \subseteq 0..(HourMinutes - 1) /\ P(1) # {}
    BY <2>1, <1>2, <1>5
  <2>3. P(2) \subseteq 0..(DayHours - 1) /\ P(2) # {}
    BY <2>1, <1>2, <1>5
  <2> HIDE DEF P, s
  <2> QED
    BY <2>2, <2>3, <1>6 DEF OnClock
<1>8. \A i \in 1..5 : \A v : C!NamesValue(fields[i], C!Fields[i], v) <=> v \in P(i)
  BY DEF C!NamesValue, C!parseField
<1>9. \A w : w \in s.dow <=> \E v \in 0..7 : v % 7 = w /\ C!NamesValue(fields[5], C!Fields[5], v)
  <2>1. P(5) \subseteq 0..7
    <3>1. 5 \in 1..5
      OBVIOUS
    <3> QED
      BY <3>1, <1>2, <1>5
  <2>2. \A v : C!NamesValue(fields[5], C!Fields[5], v) <=> v \in P(5)
    BY <1>8
  <2> HIDE DEF P, s
  <2> QED
    BY <2>1, <2>2, <1>6
<1> HIDE DEF P, s
<1>10. ASSUME NEW t \in Int PROVE C!Fires(fields, t) <=> HasFire(s, t)
  <2> DEFINE date == C!Date(t \div C!Day)
  <2>1. HasFire(s, t) <=>
          /\ date.month \in s.month
          /\ (s.domStar \/ s.dowStar) => date.dom \in s.dom /\ date.dow \in s.dow
          /\ ~(s.domStar \/ s.dowStar) => date.dom \in s.dom \/ date.dow \in s.dow
          /\ MinuteOf(t) \div HourMinutes \in s.hour /\ t % HourMinutes \in s.minute
    BY <1>7, FiresOfDay DEF HasFire, C!DayMatches, DayOf
  <2>2. C!Fires(fields, t) <=>
          /\ C!NamesValue(fields[1], C!Fields[1], t % HourMinutes)
          /\ C!NamesValue(fields[2], C!Fields[2], MinuteOf(t) \div HourMinutes)
          /\ C!NamesValue(fields[4], C!Fields[4], date.month)
          /\ (s.domStar \/ s.dowStar) => C!NamesValue(fields[3], C!Fields[3], date.dom) /\ date.dow \in s.dow
          /\ ~(s.domStar \/ s.dowStar) => C!NamesValue(fields[3], C!Fields[3], date.dom) \/ date.dow \in s.dow
    BY <1>6, <1>9 DEF C!Fires, MinuteOf
  <2> HIDE DEF date
  <2> QED
    BY <2>1, <2>2, <1>6, <1>8, SMTT(30)
<1> QED
  BY <1>7, <1>10 DEF s

\* The first day that has a fire, or none of the days that are searched.
LEMMA FirstDayIs ==
  ASSUME NEW s, NEW d \in Int, NEW sign \in {-1, 1}, NEW onDay \in BOOLEAN
  PROVE  LET i == C!FirstDay(s, d, sign, onDay)
             ok(j) == C!DayMatches(s, d + sign * j) /\ (j = 0 => onDay)
         IN /\ i \in 0..SearchDays
            /\ i < SearchDays => ok(i)
            /\ \A j \in 0..(SearchDays - 1) : j < i => ~ok(j)
<1> DEFINE ok(j) == C!DayMatches(s, d + sign * j) /\ (j = 0 => onDay)
           Good == {j \in 0..(SearchDays - 1) : ok(j)}
           i == C!FirstDay(s, d, sign, onDay)
<1>1. SearchDays \in Nat \ {0}
  BY ScheduleQuestions DEF C!SchedulesAssumption
<1>2. i = IF \E j \in 0..(SearchDays - 1) : ok(j)
            THEN CHOOSE j \in 0..(SearchDays - 1) : ok(j) /\ \A k \in 0..(j - 1) : ~ok(k)
            ELSE SearchDays
  BY DEF C!FirstDay
<1> HIDE DEF ok, i
<1> DEFINE Goal == /\ i \in 0..SearchDays
                   /\ i < SearchDays => ok(i)
                   /\ \A j \in 0..(SearchDays - 1) : j < i => ~ok(j)
<1>3. ASSUME Good = {} PROVE Goal
  <2>1. i = SearchDays
    BY <1>2, <1>3
  <2> QED
    BY <1>1, <1>3, <2>1
<1>4. ASSUME Good # {} PROVE Goal
  <2>1. PICK m \in Good : \A k \in Good : m <= k
    <3>1. Good \in SUBSET Nat
      BY <1>1
    <3> HIDE DEF Good
    <3> QED
      BY <3>1, <1>4, NatMin
  <2>2. m \in 0..(SearchDays - 1) /\ ok(m) /\ \A k \in 0..(m - 1) : ~ok(k)
    <3>1. \A k \in 0..(m - 1) : k \in 0..(SearchDays - 1) /\ ~(m <= k)
      BY <1>1
    <3> QED
      BY <2>1, <3>1
  <2>3. i \in 0..(SearchDays - 1) /\ ok(i) /\ \A k \in 0..(i - 1) : ~ok(k)
    BY <1>2, <2>2
  <2>4. \A j \in 0..(SearchDays - 1) : j < i => j \in 0..(i - 1)
    BY <1>1, <2>3
  <2> QED
    BY <1>1, <2>3, <2>4
<1>5. Goal
  BY <1>3, <1>4
<1> QED
  BY <1>5 DEF ok, i

\* No time that is searched from x reads as the zero time.
Searchable(x) == x - SearchDays * C!Day > C!Never

\* Prev finds the latest fire, and misses none in the days that it searches.
LEMMA SearchBack ==
  ASSUME NEW s, OnClock(s), NEW x \in Int
  PROVE  LET p == C!Prev(s, x)
         IN /\ p \in Int
            /\ p # C!Never => p <= x /\ HasFire(s, p) /\ \A u \in Int : p < u /\ u <= x => ~HasFire(s, u)
            /\ p = C!Never /\ Searchable(x) => \A u \in (x - (SearchDays - 1) * C!Day)..x : ~HasFire(s, u)
<1> DEFINE d == DayOf(x)
           r == MinuteOf(x)
           before(i) == {m \in C!OfDay(s) : i = 0 => m <= r}
           ok(i) == C!DayMatches(s, d + (-1) * i) /\ (i = 0 => before(0) # {})
           i == C!FirstDay(s, d, -1, before(0) # {})
           p == C!Prev(s, x)
           D == C!Day
<1>1. D \in Nat \ {0} /\ SearchDays \in Nat \ {0}
  BY DayLong, ScheduleQuestions DEF C!SchedulesAssumption
<1>2. d \in Int /\ r \in Minutes /\ x = Moment(d, r)
  BY Times
<1>3. /\ C!OfDay(s) \subseteq Minutes /\ C!OfDay(s) # {}
  BY FiresOfDay
<1>4. /\ i \in 0..SearchDays
      /\ i < SearchDays => ok(i)
      /\ \A j \in 0..(SearchDays - 1) : j < i => ~ok(j)
  <2>1. (before(0) # {}) \in BOOLEAN /\ -1 \in {-1, 1}
    OBVIOUS
  <2> HIDE DEF before
  <2> QED
    BY <1>2, <2>1, FirstDayIs
<1>5. p = IF i = SearchDays THEN C!Never ELSE Moment(d - i, C!Highest(before(i)))
  BY DEF C!Prev, Moment, DayOf, MinuteOf
<1>6. ASSUME NEW u \in Int, u <= x, HasFire(s, u), d - DayOf(u) < SearchDays
      PROVE  /\ d - DayOf(u) \in 0..(SearchDays - 1) /\ d - DayOf(u) >= i
             /\ MinuteOf(u) \in before(d - DayOf(u))
  <2> DEFINE e == DayOf(u)
             n == MinuteOf(u)
             j == d - e
  <2>1. e \in Int /\ n \in Minutes /\ u = Moment(e, n)
    BY Times
  <2>2. ~(d < e)
    BY <1>2, <1>6, <2>1, Earlier, Moments
  <2>3. j \in 0..(SearchDays - 1) /\ d + (-1) * j = e
    BY <1>1, <1>2, <1>6, <2>1, <2>2
  <2>4. n \in before(j)
    <3>1. n \in C!OfDay(s)
      BY <1>6 DEF HasFire
    <3>2. j = 0 => n <= r
      <4>1. ASSUME j = 0 PROVE n <= r
        <5>1. e = d
          BY <4>1, <1>2, <2>1
        <5>2. d * D + n <= d * D + r
          BY <5>1, <1>2, <1>6, <2>1 DEF Moment
        <5> QED
          BY <5>2, <1>1, <1>2, <2>1 DEF Minutes
      <4> QED
        BY <4>1
    <3> QED
      BY <3>1, <3>2
  <2>5. ok(j)
    BY <1>6, <2>3, <2>4 DEF HasFire
  <2> HIDE DEF before, i
  <2> QED
    BY <1>4, <2>3, <2>4, <2>5
<1>7. CASE i = SearchDays
  <2>1. p = C!Never
    BY <1>5, <1>7
  <2>2. ASSUME NEW u \in (x - (SearchDays - 1) * D)..x PROVE ~HasFire(s, u)
    <3>1. u \in Int /\ u <= x /\ d - DayOf(u) \in 0..(SearchDays - 1)
      BY <1>1, Within
    <3> QED
      BY <3>1, <1>6, <1>7, <1>1
  <2> QED
    BY <2>1, <2>2 DEF C!Never
<1>8. CASE i # SearchDays
  <2> DEFINE top == C!Highest(before(i))
  <2>1. i \in 0..(SearchDays - 1) /\ ok(i)
    BY <1>1, <1>4, <1>8
  <2>2. top \in before(i) /\ \A m \in before(i) : m <= top
    <3> DEFINE S == before(i)
    <3>1. S \in SUBSET (0..(D - 1)) /\ S # {}
      BY <1>3, <2>1 DEF Minutes
    <3>2. 0 \in Int /\ D - 1 \in Int
      BY <1>1
    <3> HIDE DEF S, D
    <3>3. C!Highest(S) \in S /\ \A m \in S : m <= C!Highest(S)
      BY <3>1, <3>2, GreatestOf
    <3> QED
      BY <3>3 DEF S
  <2>3. top \in Minutes /\ d - i \in Int
    BY <1>2, <1>3, <2>1, <2>2
  <2>4. p = Moment(d - i, top) /\ p \in Int /\ DayOf(p) = d - i /\ MinuteOf(p) = top
    BY <1>5, <1>8, <2>3, Moments
  <2>5. p <= x
    <3>1. CASE i = 0
      <4>1. top <= r
        BY <3>1, <2>2
      <4>2. p = d * D + top /\ x = d * D + r
        BY <3>1, <1>2, <2>4 DEF Moment
      <4> QED
        BY <4>1, <4>2, <1>1, <1>2, <2>3 DEF Minutes
    <3>2. CASE i # 0
      BY <3>2, <1>2, <2>1, <2>3, <2>4, Earlier
    <3> QED
      BY <3>1, <3>2
  <2>6. Searchable(x) => p # C!Never
    <3> SUFFICES ASSUME Searchable(x) PROVE p # C!Never
      OBVIOUS
    <3> DEFINE e == d - (SearchDays - 1)
    <3>1. e \in Int /\ e <= d - i /\ e * D = d * D - SearchDays * D + D
      BY <1>1, <1>2, <2>1
    <3>2. e * D <= (d - i) * D
      <4>1. CASE e = d - i
        BY <4>1, <1>1, <2>3
      <4>2. CASE e < d - i
        <5>1. e * D + D <= (d - i) * D
          BY <4>2, <3>1, <1>1, <2>3, MulLess
        <5> QED
          BY <5>1, <3>1, <1>1, <2>3
      <4> QED
        BY <3>1, <4>1, <4>2, <2>3
    <3>3. /\ p = (d - i) * D + top /\ x = d * D + r /\ top \in 0..(D - 1) /\ r \in 0..(D - 1)
          /\ (d - i) * D \in Int /\ d * D \in Int /\ e * D \in Int /\ SearchDays * D \in Int
      BY <1>1, <1>2, <2>3, <2>4, <3>1 DEF Moment, Minutes
    <3>4. x - SearchDays * D > C!Never /\ C!Never \in Int
      BY DEF Searchable, C!Never
    <3> HIDE DEF D, e, d, r, top, p, i
    <3>5. p > C!Never
      BY <3>1, <3>2, <3>3, <3>4, <1>1
    <3> QED
      BY <3>5, <3>4, <2>4
  <2>7. HasFire(s, p)
    <3>1. d + (-1) * i = d - i
      BY <1>2, <2>1
    <3> QED
      BY <3>1, <2>1, <2>2, <2>4 DEF HasFire
  <2>8. ASSUME NEW u \in Int, p < u, u <= x PROVE ~HasFire(s, u)
    <3> SUFFICES ASSUME HasFire(s, u) PROVE FALSE
      OBVIOUS
    <3> DEFINE e == DayOf(u)
    <3>1. e \in Int /\ MinuteOf(u) \in Minutes /\ u = Moment(e, MinuteOf(u))
      BY Times
    <3>2. ~(e < d - i)
      BY <2>3, <2>4, <2>8, <3>1, Earlier, Moments
    <3>3. d - e < SearchDays /\ d - e <= i
      BY <1>1, <1>2, <2>1, <3>1, <3>2
    <3>4. d - e >= i /\ MinuteOf(u) \in before(d - e)
      BY <1>6, <2>8, <3>3
    <3>5. d - e = i /\ e = d - i
      BY <1>2, <2>1, <3>1, <3>3, <3>4
    <3>6. MinuteOf(u) <= top
      BY <3>4, <3>5, <2>2
    <3>7. u = (d - i) * D + MinuteOf(u) /\ p = (d - i) * D + top
      BY <3>1, <3>5, <2>4 DEF Moment
    <3>8. (d - i) * D \in Int /\ MinuteOf(u) \in Int /\ top \in Int
      BY <1>1, <2>3, <3>1 DEF Minutes
    <3> QED
      BY <3>6, <3>7, <3>8, <2>8
  <2> QED
    BY <2>4, <2>5, <2>6, <2>7, <2>8
<1> QED
  BY <1>7, <1>8

\* Next finds the first fire, and misses none in the days that it searches.
LEMMA SearchAhead ==
  ASSUME NEW s, OnClock(s), NEW x \in Nat
  PROVE  LET n == C!Next(s, x)
         IN /\ n # C!Never => n \in Int /\ x < n /\ HasFire(s, n) /\ \A u \in Int : x < u /\ u < n => ~HasFire(s, u)
            /\ n = C!Never => \A u \in (x + 1)..(x + (SearchDays - 1) * C!Day) : ~HasFire(s, u)
<1> DEFINE y == x + 1
           d == DayOf(y)
           r == MinuteOf(y)
           after(i) == {m \in C!OfDay(s) : i = 0 => m >= r}
           ok(i) == C!DayMatches(s, d + 1 * i) /\ (i = 0 => after(0) # {})
           i == C!FirstDay(s, d, 1, after(0) # {})
           n == C!Next(s, x)
           D == C!Day
<1>1. D \in Nat \ {0} /\ SearchDays \in Nat \ {0}
  BY DayLong, ScheduleQuestions DEF C!SchedulesAssumption
<1>2. y \in Int /\ d \in Int /\ r \in Minutes /\ y = Moment(d, r)
  BY Times
<1>3. /\ C!OfDay(s) \subseteq Minutes /\ C!OfDay(s) # {}
  BY FiresOfDay
<1>4. /\ i \in 0..SearchDays
      /\ i < SearchDays => ok(i)
      /\ \A j \in 0..(SearchDays - 1) : j < i => ~ok(j)
  <2>1. (after(0) # {}) \in BOOLEAN /\ 1 \in {-1, 1}
    OBVIOUS
  <2> HIDE DEF after, y
  <2> QED
    BY <1>2, <2>1, FirstDayIs
<1>5. n = IF i = SearchDays THEN C!Never ELSE Moment(d + i, C!Lowest(after(i)))
  BY DEF C!Next, Moment, DayOf, MinuteOf
<1> HIDE DEF y
<1>6. ASSUME NEW u \in Int, y <= u, HasFire(s, u), DayOf(u) - d < SearchDays
      PROVE  /\ DayOf(u) - d \in 0..(SearchDays - 1) /\ DayOf(u) - d >= i
             /\ MinuteOf(u) \in after(DayOf(u) - d)
  <2> DEFINE e == DayOf(u)
             m == MinuteOf(u)
             j == e - d
  <2>1. e \in Int /\ m \in Minutes /\ u = Moment(e, m)
    BY Times
  <2>2. ~(e < d)
    BY <1>2, <1>6, <2>1, Earlier, Moments
  <2>3. j \in 0..(SearchDays - 1) /\ d + 1 * j = e
    BY <1>1, <1>2, <1>6, <2>1, <2>2
  <2>4. m \in after(j)
    <3>1. m \in C!OfDay(s)
      BY <1>6 DEF HasFire
    <3>2. j = 0 => m >= r
      <4>1. ASSUME j = 0 PROVE m >= r
        <5>1. e = d
          BY <4>1, <1>2, <2>1
        <5>2. d * D + m >= d * D + r
          BY <5>1, <1>2, <1>6, <2>1 DEF Moment
        <5> QED
          BY <5>2, <1>1, <1>2, <2>1 DEF Minutes
      <4> QED
        BY <4>1
    <3> QED
      BY <3>1, <3>2
  <2>5. ok(j)
    BY <1>6, <2>3, <2>4 DEF HasFire
  <2> HIDE DEF after, i
  <2> QED
    BY <1>4, <2>3, <2>4, <2>5
<1>7. CASE i = SearchDays
  <2>1. n = C!Never
    BY <1>5, <1>7
  <2>2. ASSUME NEW u \in (x + 1)..(x + (SearchDays - 1) * D) PROVE ~HasFire(s, u)
    <3>1. (SearchDays - 1) * D \in Int
      BY <1>1
    <3>2. u \in Int /\ y <= u /\ u - (SearchDays - 1) * D <= y
      BY <3>1 DEF y
    <3>3. DayOf(u) - d \in 0..(SearchDays - 1)
      <4> HIDE DEF D
      <4> QED
        BY <3>2, <1>2, Within DEF D
    <3> QED
      BY <3>2, <3>3, <1>6, <1>7, <1>1
  <2> QED
    BY <2>1, <2>2
<1>8. CASE i # SearchDays
  <2> DEFINE low == C!Lowest(after(i))
  <2>1. i \in 0..(SearchDays - 1) /\ ok(i)
    BY <1>1, <1>4, <1>8
  <2>2. low \in after(i) /\ \A m \in after(i) : low <= m
    <3> DEFINE S == after(i)
    <3>1. S \in SUBSET (0..(D - 1)) /\ S # {}
      BY <1>3, <2>1 DEF Minutes
    <3>2. 0 \in Int /\ D - 1 \in Int
      BY <1>1
    <3> HIDE DEF S, D
    <3>3. C!Lowest(S) \in S /\ \A m \in S : C!Lowest(S) <= m
      BY <3>1, <3>2, LeastOf
    <3> QED
      BY <3>3 DEF S
  <2>3. low \in Minutes /\ d + i \in Int
    BY <1>2, <1>3, <2>1, <2>2
  <2>4. n = Moment(d + i, low) /\ n \in Int /\ DayOf(n) = d + i /\ MinuteOf(n) = low
    BY <1>5, <1>8, <2>3, Moments
  <2>5. y <= n
    <3>1. CASE i = 0
      <4>1. low >= r
        BY <3>1, <2>2
      <4>2. n = d * D + low /\ y = d * D + r
        BY <3>1, <1>2, <2>4 DEF Moment
      <4> QED
        BY <4>1, <4>2, <1>1, <1>2, <2>3 DEF Minutes
    <3>2. CASE i # 0
      BY <3>2, <1>2, <2>1, <2>3, <2>4, Earlier
    <3> QED
      BY <3>1, <3>2
  <2>6. n # C!Never /\ x < n
    BY <2>4, <2>5 DEF C!Never, y
  <2>7. HasFire(s, n)
    <3>1. d + 1 * i = d + i
      BY <1>2, <2>1
    <3> QED
      BY <3>1, <2>1, <2>2, <2>4 DEF HasFire
  <2>8. ASSUME NEW u \in Int, x < u, u < n PROVE ~HasFire(s, u)
    <3> SUFFICES ASSUME HasFire(s, u) PROVE FALSE
      OBVIOUS
    <3> DEFINE e == DayOf(u)
    <3>1. e \in Int /\ MinuteOf(u) \in Minutes /\ u = Moment(e, MinuteOf(u)) /\ y <= u
      BY <2>8, Times DEF y
    <3>2. ~(d + i < e)
      BY <2>3, <2>4, <2>8, <3>1, Earlier, Moments
    <3>3. e - d < SearchDays /\ e - d <= i
      BY <1>1, <1>2, <2>1, <3>1, <3>2
    <3>4. e - d >= i /\ MinuteOf(u) \in after(e - d)
      BY <1>6, <2>8, <3>1, <3>3
    <3>5. e - d = i /\ e = d + i
      BY <1>2, <2>1, <3>1, <3>3, <3>4
    <3>6. low <= MinuteOf(u)
      BY <3>4, <3>5, <2>2
    <3>7. u = (d + i) * D + MinuteOf(u) /\ n = (d + i) * D + low
      BY <3>1, <3>5, <2>4 DEF Moment
    <3>8. (d + i) * D \in Int /\ MinuteOf(u) \in Int /\ low \in Int
      BY <1>1, <2>3, <3>1 DEF Minutes
    <3> QED
      BY <3>6, <3>7, <3>8, <2>8
  <2> QED
    BY <2>4, <2>6, <2>7, <2>8
<1> QED
  BY <1>7, <1>8

\* What the walk back from `later` finds, when f is what it finds from earlier
\* fires on.
Walked(s, end, f, later) ==
  LET earlier == C!Prev(s, later - 1)
      gap == later - earlier
      rest == IF earlier <= end - C!SevenDays THEN 0 ELSE f[earlier]
  IN IF later = C!Never \/ earlier = C!Never THEN 0 ELSE IF rest < gap THEN gap ELSE rest

\* The walk looks further back only.
LEMMA WalkBack ==
  ASSUME NEW s, OnClock(s), NEW end \in Nat, NEW later \in C!Never..end, NEW f, NEW g,
         \A e \in C!Never..end : e < later => f[e] = g[e]
  PROVE  Walked(s, end, f, later) = Walked(s, end, g, later)
<1> DEFINE earlier == C!Prev(s, later - 1)
<1>1. C!Never \in Int /\ later \in Int
  BY DEF C!Never
<1>2. earlier \in Int /\ (earlier # C!Never => earlier <= later - 1)
  BY <1>1, SearchBack
<1>3. C!SevenDays \in Int /\ C!Never <= end - C!SevenDays
  <2>1. C!SevenDays < -C!Never
    BY ScheduleQuestions DEF C!SchedulesAssumption
  <2>2. C!SevenDays \in Int
    BY DayLong DEF C!SevenDays
  <2> QED
    BY <2>1, <2>2 DEF C!Never
<1> HIDE DEF earlier
<1>4. ~(earlier <= end - C!SevenDays) /\ earlier # C!Never => f[earlier] = g[earlier]
  BY <1>1, <1>2, <1>3
<1> QED
  BY <1>4 DEF Walked, earlier

\* So it is a function: what it finds from any time on is what it finds from
\* there with itself.
LEMMA WidestIs ==
  ASSUME NEW s, OnClock(s), NEW end \in Nat
  PROVE  \A later \in C!Never..end :
            C!Widest(s, end)[later] = Walked(s, end, C!Widest(s, end), later)
<1> DEFINE Never == C!Never
           Walk(w, m) == w = [later \in Never..(Never + m - 1) |-> Walked(s, end, w, later)]
           Steps == end - Never + 1
           Missing == {m \in 0..Steps : ~\E w : Walk(w, m)}
<1>1. Never \in Int /\ Steps \in Nat /\ Never + Steps - 1 = end
  BY DEF C!Never
<1> HIDE DEF Never, Steps
<1>2. Missing = {}
  <2> SUFFICES ASSUME Missing # {} PROVE FALSE
    OBVIOUS
  <2>1. PICK m \in Missing : \A k \in Missing : m <= k
    <3>1. Missing \in SUBSET Nat
      BY <1>1
    <3> HIDE DEF Missing
    <3> QED
      BY <3>1, NatMin
  <2>2. m \in Nat /\ m <= Steps /\ ~\E w : Walk(w, m)
    BY <1>1, <2>1
  <2>3. m # 0
    <3> SUFFICES ASSUME m = 0 PROVE FALSE
      OBVIOUS
    <3> DEFINE w == [later \in {} |-> 0]
    <3>1. Never..(Never + m - 1) = {}
      BY <1>1
    <3>2. w = [later \in Never..(Never + m - 1) |-> Walked(s, end, w, later)]
      BY <3>1
    <3> QED
      BY <2>2, <3>2
  <2>4. m - 1 \in 0..Steps /\ m - 1 \notin Missing
    BY <1>1, <2>1, <2>2, <2>3
  <2>5. PICK g : Walk(g, m - 1)
    BY <2>4
  <2> DEFINE k == Never + m - 1
             w == [later \in Never..k |-> IF later = k THEN Walked(s, end, g, k) ELSE g[later]]
  <2>6. k \in Int /\ k <= end /\ Never <= k /\ Never + (m - 1) - 1 = k - 1
    BY <1>1, <2>2, <2>3
  <2>7. DOMAIN g = Never..(k - 1) /\ \A later \in Never..(k - 1) : g[later] = Walked(s, end, g, later)
    <3>1. g = [later \in Never..(k - 1) |-> Walked(s, end, g, later)]
      BY <2>5, <2>6
    <3> QED
      BY <3>1
  <2> HIDE DEF k
  <2>8. ASSUME NEW later \in Never..k PROVE w[later] = Walked(s, end, w, later)
    <3>1. \A e \in Never..end : e < later => g[e] = w[e]
      BY <1>1, <2>6
    <3>2. later \in Never..end
      BY <1>1, <2>6
    <3>3. Walked(s, end, g, later) = Walked(s, end, w, later)
      <4> HIDE DEF w
      <4> QED
        BY <3>1, <3>2, WalkBack DEF Never
    <3>4. w[later] = Walked(s, end, g, later)
      BY <1>1, <2>6, <2>7
    <3> QED
      BY <3>3, <3>4
  <2>9. w = [later \in Never..k |-> Walked(s, end, w, later)]
    BY <2>8
  <2>10. Walk(w, m)
    BY <2>9 DEF k
  <2> QED
    BY <2>2, <2>10
<1>3. PICK v : v = [later \in Never..end |-> Walked(s, end, v, later)]
  <2>1. Steps \in 0..Steps /\ Steps \notin Missing
    <3>1. Steps \in 0..Steps
      BY <1>1
    <3> HIDE DEF Missing
    <3> QED
      BY <3>1, <1>2
  <2>2. PICK v : Walk(v, Steps)
    BY <2>1
  <2> QED
    BY <2>2, <1>1
<1>4. C!Widest(s, end) = CHOOSE w : w = [later \in Never..end |-> Walked(s, end, w, later)]
  BY DEF C!Widest, Walked, Never
<1> DEFINE Wide == C!Widest(s, end)
<1>5. Wide = [later \in Never..end |-> Walked(s, end, Wide, later)]
  BY <1>3, <1>4
<1> HIDE DEF Wide
<1> QED
  BY <1>5 DEF Wide, Never

\* A walk from the latest of the fires back that stops a week before the end
\* meets the fires whose gap counts, and no others.
LEMMA WalkMeets ==
  ASSUME NEW lo \in Int, NEW end \in Int, NEW F \in SUBSET (lo..end), F # {},
         \A v \in C!Judged(F, end) : C!Before(F, v) # {},
         NEW Wide,
         \A v \in C!Judged(F, end) :
            LET earlier == C!Highest(C!Before(F, v))
                gap == v - earlier
                rest == IF earlier <= end - C!SevenDays THEN 0 ELSE Wide[earlier]
            IN Wide[v] = IF rest < gap THEN gap ELSE rest
  PROVE  Wide[C!Highest(F)] = C!WidestNeighbours(F, end)
<1> DEFINE J == C!Judged(F, end)
           top == C!Highest(F)
           prev(v) == C!Highest(C!Before(F, v))
           Upto(v) == {u - prev(u) : u \in {x \in J : x <= v}}
           from == end - C!SevenDays
<1>1. from \in Int
  BY DayLong DEF C!SevenDays
<1>2. top \in F /\ \A n \in F : n <= top
  BY GreatestOf
<1>3. /\ J \in SUBSET F /\ top \in J
      /\ \A v \in F : v > from => v \in J
      /\ \A u, v \in J : u < v => u > from
  <2>1. \A v \in F : v \in Int
    OBVIOUS
  <2> DEFINE inWeek == {t \in F : t > from}
  <2>2. J = IF inWeek = {} /\ F # {} THEN {top} ELSE inWeek
    BY DEF C!Judged
  <2>6. \A v \in F : v \in inWeek <=> v > from
    OBVIOUS
  <2>7. inWeek \subseteq F
    OBVIOUS
  <2> HIDE DEF J, top, from, inWeek
  <2>3. CASE inWeek = {}
    <3>1. J = {top}
      BY <2>2, <2>3
    <3>2. \A u, v \in J : ~(u < v)
      BY <3>1, <2>1, <1>2
    <3> QED
      BY <3>1, <3>2, <2>3, <2>6, <1>2
  <2>4. CASE inWeek # {}
    <3>1. J = inWeek
      BY <2>2, <2>4
    <3>2. PICK v \in F : v > from
      BY <2>4, <2>6, <2>7
    <3>3. top > from
      BY <3>2, <2>1, <1>1, <1>2
    <3> QED
      BY <3>1, <3>3, <2>6, <2>7, <1>2
  <2> QED
    BY <2>3, <2>4
<1>4. ASSUME NEW v \in J
      PROVE  prev(v) \in F /\ prev(v) < v /\ \A u \in F : u < v => u <= prev(v)
  <2>1. C!Before(F, v) \in SUBSET (lo..end) /\ C!Before(F, v) # {}
    BY DEF C!Before
  <2>2. prev(v) \in C!Before(F, v) /\ \A u \in C!Before(F, v) : u <= prev(v)
    BY <2>1, GreatestOf
  <2> QED
    BY <2>2 DEF C!Before
<1>5. \A v \in F : v \in Int /\ lo <= v /\ v <= end
  OBVIOUS
<1>6. ASSUME NEW v \in J
      PROVE  Wide[v] = IF (IF prev(v) <= from THEN 0 ELSE Wide[prev(v)]) < v - prev(v)
                      THEN v - prev(v) ELSE IF prev(v) <= from THEN 0 ELSE Wide[prev(v)]
  OBVIOUS
<1> HIDE DEF J, top, prev, from
<1>7. ASSUME NEW v \in J
      PROVE  Upto(v) \in SUBSET (1..(end - lo)) /\ Upto(v) # {} /\ v - prev(v) \in Upto(v)
  <2>1. ASSUME NEW u \in J PROVE u - prev(u) \in 1..(end - lo)
    <3>1. u \in Int /\ u <= end /\ prev(u) \in Int /\ lo <= prev(u) /\ prev(u) < u
      BY <1>3, <1>4, <1>5
    <3> QED
      BY <3>1
  <2>2. v \in {x \in J : x <= v}
    BY <1>3, <1>5
  <2> QED
    BY <2>1, <2>2
<1> DEFINE Wrong == {v \in J : Wide[v] # C!Highest(Upto(v))}
<1>8. Wrong = {}
  <2> SUFFICES ASSUME Wrong # {} PROVE FALSE
    OBVIOUS
  <2>1. PICK v \in Wrong : \A u \in Wrong : v <= u
    <3>1. Wrong \in SUBSET (lo..end)
      BY <1>3, <1>5
    <3> HIDE DEF Wrong
    <3> QED
      BY <3>1, LeastOf
  <2>2. v \in J /\ Wide[v] # C!Highest(Upto(v)) /\ v \in Int
    BY <2>1, <1>3, <1>5
  <2> DEFINE e == prev(v)
             gap == v - e
  <2>3. e \in F /\ e \in Int /\ e < v /\ gap \in Int /\ gap > 0
    <3>1. e \in F /\ e < v
      BY <2>2, <1>4
    <3>2. e \in Int /\ v \in Int
      BY <3>1, <2>2, <1>5
    <3> HIDE DEF e
    <3> QED
      BY <3>1, <3>2
  <2>4. gap \in Upto(v) /\ Upto(v) \in SUBSET Int
    BY <2>2, <1>7, SMTT(30)
  <2> HIDE DEF e
  <2>5. CASE e <= from
    <3>1. Wide[v] = gap
      BY <2>2, <2>3, <2>5, <1>6 DEF e
    <3>2. \A u \in J : u <= v => u = v
      <4> SUFFICES ASSUME NEW u \in J, u <= v, u # v PROVE FALSE
        OBVIOUS
      <4>1. u \in Int /\ u < v /\ u > from /\ u <= e
        BY <2>2, <1>3, <1>4, <1>5 DEF e
      <4> QED
        BY <4>1, <2>3, <2>5, <1>1
    <3>3. \A n \in Upto(v) : n <= gap
      BY <3>2, <2>3 DEF e
    <3>4. C!Highest(Upto(v)) = gap
      <4> HIDE DEF Upto, gap
      <4> QED
        BY <3>3, <2>4, HighestIs
    <3> QED
      BY <3>1, <3>4, <2>2
  <2>6. CASE ~(e <= from)
    <3>1. e \in J /\ e \notin Wrong
      BY <2>1, <2>2, <2>3, <2>6, <1>1, <1>3
    <3> DEFINE rest == C!Highest(Upto(e))
    <3>2. Wide[e] = rest
      BY <3>1
    <3>3. rest \in Upto(e) /\ rest \in Int /\ \A n \in Upto(e) : n <= rest
      <4> DEFINE S == Upto(e)
                 hi == end - lo
      <4>1. S \in SUBSET (1..hi) /\ S # {}
        <5> HIDE DEF Upto, S
        <5> QED
          BY <3>1, <1>7 DEF S
      <4>2. 1 \in Int /\ hi \in Int
        OBVIOUS
      <4> HIDE DEF Upto, S, hi
      <4>3. C!Highest(S) \in S /\ \A n \in S : n <= C!Highest(S)
        BY <4>1, <4>2, GreatestOf
      <4> QED
        BY <4>1, <4>2, <4>3 DEF S
    <3>4. Wide[v] = IF rest < gap THEN gap ELSE rest
      BY <2>2, <2>6, <3>2, <1>6 DEF e
    <3>5. \A u \in J : u <= v => u = v \/ u <= e
      BY <2>2, <1>3, <1>4, <1>5 DEF e
    <3>6. \A u \in J : u <= e => u <= v
      BY <2>2, <2>3, <1>3, <1>5
    <3>7. Upto(v) = Upto(e) \cup {gap}
      <4>1. {x \in J : x <= v} = {x \in J : x <= e} \cup {v}
        <5> HIDE DEF Upto, Wrong, gap
        <5>1. \A x \in J : x <= v <=> x <= e \/ x = v
          BY <3>5, <3>6, <2>2
        <5> QED
          BY <5>1, <2>2
      <4> QED
        BY <4>1 DEF e
    <3> HIDE DEF Upto, rest, gap
    <3> DEFINE m == IF rest < gap THEN gap ELSE rest
    <3>8. m \in Upto(v) /\ \A n \in Upto(v) : n <= m
      <4>1. \A n \in Upto(v) : n \in Int
        BY <2>4
      <4> QED
        BY <4>1, <3>3, <3>7, <2>3
    <3>9. C!Highest(Upto(v)) = m
      <4> HIDE DEF m
      <4> QED
        BY <3>8, <2>4, HighestIs
    <3> QED
      BY <3>4, <3>9, <2>2
  <2> QED
    BY <2>5, <2>6
<1>9. Wide[top] = C!Highest(Upto(top))
  BY <1>3, <1>8
<1>10. Upto(top) = {u - prev(u) : u \in J}
  BY <1>2, <1>3
<1>11. C!WidestNeighbours(F, end) = C!Highest({u - prev(u) : u \in J})
  BY DEF C!WidestNeighbours, J, prev
<1> QED
  BY <1>9, <1>10, <1>11 DEF top

\* The horizon of the comparison is within what is searched.
LEMMA Horizon ==
  /\ Reach \in Nat /\ SearchDays * C!Day \in Nat
  /\ (SearchDays - 1) * C!Day = SearchDays * C!Day - C!Day
  /\ Reach <= (SearchDays - 1) * C!Day
  /\ 2 * (SearchDays * C!Day) < -C!Never /\ C!Never \in Int
  /\ C!SevenDays \in Int /\ C!SevenDays < -C!Never
<1>1. SearchDays \in Nat \ {0} /\ C!Day \in Nat \ {0}
  BY DayLong, ScheduleQuestions DEF C!SchedulesAssumption
<1>2. /\ Reach \in 0..(SearchDays - 1) * C!Day
      /\ 2 * (SearchDays * C!Day) < -C!Never /\ C!SevenDays < -C!Never
  BY ScheduleQuestions DEF C!SchedulesAssumption
<1>3. SearchDays * C!Day \in Nat /\ (SearchDays - 1) * C!Day = SearchDays * C!Day - C!Day
  BY <1>1
<1>4. C!SevenDays \in Int
  BY <1>1 DEF C!SevenDays
<1>5. Reach \in Nat /\ Reach <= (SearchDays - 1) * C!Day
  <2>1. (SearchDays - 1) * C!Day \in Int
    BY <1>1, <1>3
  <2> QED
    BY <1>2, <2>1
<1> QED
  BY <1>2, <1>3, <1>4, <1>5 DEF C!Never

\* Where the fires before an end are known, Prev finds the last of them.
LEMMA PrevOfKnown ==
  ASSUME NEW s, OnClock(s), NEW end \in Nat, NEW F,
         F = {t \in (end - Reach)..end : HasFire(s, t)},
         NEW x \in Int, x <= end, NEW b \in F, b <= x
  PROVE  LET p == C!Prev(s, x)
         IN p # C!Never /\ p \in F /\ p <= x /\ \A u \in F : u <= x => u <= p
<1> DEFINE p == C!Prev(s, x)
           D == C!Day
           Far == SearchDays * D
<1>1. /\ Reach \in Nat /\ Far \in Nat /\ (SearchDays - 1) * D = Far - D
      /\ Reach <= Far - D /\ 2 * Far < -C!Never /\ C!Never \in Int /\ D \in Nat \ {0}
  BY Horizon, DayLong
<1>2. b \in Int /\ end - Reach <= b /\ HasFire(s, b)
  BY <1>1
<1>3. Searchable(x)
  <2>1. Searchable(x) <=> x - Far > C!Never
    BY DEF Searchable
  <2> HIDE DEF D, Far
  <2> QED
    BY <2>1, <1>1, <1>2
<1>4. /\ p \in Int
      /\ p # C!Never => p <= x /\ HasFire(s, p) /\ \A u \in Int : p < u /\ u <= x => ~HasFire(s, u)
      /\ p = C!Never => \A u \in (x - (Far - D))..x : ~HasFire(s, u)
  BY <1>1, <1>3, SearchBack
<1> HIDE DEF p, D, Far
<1>5. b \in (x - (Far - D))..x
  BY <1>1, <1>2
<1>6. p # C!Never /\ p <= x /\ HasFire(s, p)
  BY <1>2, <1>4, <1>5
<1>7. \A u \in F : u \in Int /\ HasFire(s, u)
  BY <1>1
<1>8. \A u \in F : u <= x => u <= p
  BY <1>4, <1>6, <1>7
<1>9. p \in (end - Reach)..end
  BY <1>1, <1>2, <1>4, <1>6, <1>8
<1>10. p \in F
  BY <1>6, <1>9
<1> QED
  BY <1>6, <1>8, <1>10 DEF p

\* MaxGap is the widest distance between neighbours among the fires it judges.
LEMMA GapIs ==
  ASSUME NEW s, OnClock(s), NEW end \in Nat, NEW F,
         F = {t \in (end - Reach)..end : HasFire(s, t)}
  PROVE  C!GapFaithful(F, end, C!MaxGap(s, end))
<1> SUFFICES ASSUME F # {}, \A u \in C!Judged(F, end) : C!Before(F, u) # {}
             PROVE  C!MaxGap(s, end) = C!WidestNeighbours(F, end)
  BY DEF C!GapFaithful
<1> DEFINE Wide == C!Widest(s, end)
           lo == end - Reach
           J == C!Judged(F, end)
<1>1. Reach \in Nat /\ lo \in Int /\ C!Never < lo /\ C!Never \in Int
  <2> DEFINE Far == SearchDays * C!Day
  <2>1. /\ Reach \in Nat /\ Far \in Nat /\ Reach <= Far - C!Day /\ 2 * Far < -C!Never /\ C!Never \in Int /\ C!Day \in Nat
    BY Horizon, DayLong
  <2> HIDE DEF Far
  <2> QED
    BY <2>1
<1>2. F \in SUBSET (lo..end) /\ end \in Int
  OBVIOUS
<1>3. C!Highest(F) \in F /\ \A n \in F : n <= C!Highest(F)
  BY <1>1, <1>2, GreatestOf
<1>4. \A v \in F : v \in Int /\ lo <= v /\ v <= end
  BY <1>1
<1>5. C!Prev(s, end) = C!Highest(F)
  <2>1. /\ C!Prev(s, end) \in F
        /\ \A u \in F : u <= end => u <= C!Prev(s, end)
    BY <1>2, <1>3, <1>4, PrevOfKnown
  <2>2. C!Prev(s, end) <= C!Highest(F) /\ C!Highest(F) <= C!Prev(s, end)
    BY <2>1, <1>3, <1>4
  <2>3. C!Prev(s, end) \in Int /\ C!Highest(F) \in Int
    BY <2>1, <1>3, <1>4
  <2> QED
    BY <2>2, <2>3
<1>6. J \subseteq F
  <2>1. J = {C!Highest(F)} \/ J = {t \in F : t > end - C!SevenDays}
    BY DEF C!Judged
  <2> QED
    BY <2>1, <1>3
<1> HIDE DEF Wide, lo, J
<1>7. ASSUME NEW v \in J
      PROVE  LET earlier == C!Highest(C!Before(F, v))
                 gap == v - earlier
                 rest == IF earlier <= end - C!SevenDays THEN 0 ELSE Wide[earlier]
             IN Wide[v] = IF rest < gap THEN gap ELSE rest
  <2> DEFINE e == C!Prev(s, v - 1)
  <2>1. v \in F /\ v \in Int /\ lo <= v /\ v <= end
    BY <1>4, <1>6
  <2>2. PICK b \in F : b < v
    BY DEF C!Before, J
  <2>3. v - 1 \in Int /\ v - 1 <= end /\ b <= v - 1
    BY <2>1, <2>2, <1>4
  <2>4. e # C!Never /\ e \in F /\ e <= v - 1 /\ \A u \in F : u <= v - 1 => u <= e
    BY <2>3, <1>2, PrevOfKnown
  <2> HIDE DEF e
  <2>5. e \in C!Before(F, v) /\ C!Before(F, v) \in SUBSET Int /\ \A u \in C!Before(F, v) : u <= e
    <3>1. C!Before(F, v) = {u \in F : u < v}
      BY DEF C!Before
    <3>2. \A u \in F : u < v <=> u <= v - 1
      BY <2>1, <1>4
    <3> QED
      BY <3>1, <3>2, <2>4, <1>4
  <2>6. C!Highest(C!Before(F, v)) = e
    BY <2>5, HighestIs
  <2>7. v \in C!Never..end /\ v # C!Never
    BY <2>1, <1>1
  <2>8. Wide[v] = Walked(s, end, Wide, v)
    BY <2>7, WidestIs DEF Wide
  <2>9. Wide[v] = LET gap == v - e
                   rest == IF e <= end - C!SevenDays THEN 0 ELSE Wide[e]
               IN IF rest < gap THEN gap ELSE rest
    BY <2>4, <2>7, <2>8 DEF Walked, e
  <2> QED
    BY <2>6, <2>9
<1>8. Wide[C!Highest(F)] = C!WidestNeighbours(F, end)
  <2>1. \A v \in C!Judged(F, end) :
          LET earlier == C!Highest(C!Before(F, v))
              gap == v - earlier
              rest == IF earlier <= end - C!SevenDays THEN 0 ELSE Wide[earlier]
          IN Wide[v] = IF rest < gap THEN gap ELSE rest
    BY <1>7 DEF J
  <2> QED
    BY <2>1, <1>1, <1>2, WalkMeets
<1> QED
  BY <1>5, <1>8 DEF C!MaxGap, Wide

\* Parse, Prev, Next and MaxGap of every expression and at every time of this
\* century say what the five fields mean, minute by minute (internal/cron).
THEOREM SchedulesAreExact ==
  \A fields \in Seq(Seq(C!Items)), t \in Nat : C!Faithful(fields, t)
<1> SUFFICES ASSUME NEW fields \in Seq(Seq(C!Items)), NEW t \in Nat, C!Parses(fields)
             PROVE  /\ C!PrevFaithful(fields, t, C!Prev(C!Schedule(fields), t))
                    /\ C!NextFaithful(fields, t, C!Next(C!Schedule(fields), t))
                    /\ C!GapFaithful(C!FiresBetween(fields, t - Reach, t), t, C!MaxGap(C!Schedule(fields), t))
  BY DEF C!Faithful
<1> DEFINE s == C!Schedule(fields)
           Fires(a, b) == C!FiresBetween(fields, a, b)
<1>1. OnClock(s) /\ \A u \in Int : C!Fires(fields, u) <=> HasFire(s, u)
  BY Parsed
<1> HIDE DEF s
<1>2. ASSUME NEW a \in Int, NEW b \in Int
      PROVE  Fires(a, b) = {u \in a..b : HasFire(s, u)}
  <2>1. \A u \in a..b : C!Fires(fields, u) <=> HasFire(s, u)
    BY <1>1
  <2> QED
    BY <2>1 DEF C!FiresBetween
<1> DEFINE Far == SearchDays * C!Day
<1>3. /\ Reach \in Nat /\ Far \in Nat /\ (SearchDays - 1) * C!Day = Far - C!Day
      /\ Reach <= Far - C!Day /\ 2 * Far < -C!Never /\ C!Never \in Int /\ C!Day \in Nat
  BY Horizon, DayLong
<1>4. Searchable(t)
  <2>1. Searchable(t) <=> t - Far > C!Never
    BY DEF Searchable
  <2> HIDE DEF Far
  <2> QED
    BY <2>1, <1>3
<1>5. C!PrevFaithful(fields, t, C!Prev(s, t))
  <2> DEFINE p == C!Prev(s, t)
  <2>4. t \in Int
    OBVIOUS
  <2>5. /\ p \in Int
        /\ p # C!Never => p <= t /\ HasFire(s, p) /\ \A u \in Int : p < u /\ u <= t => ~HasFire(s, u)
        /\ p = C!Never => \A u \in (t - (SearchDays - 1) * C!Day)..t : ~HasFire(s, u)
    BY <1>1, <1>4, <2>4, SearchBack
  <2> HIDE DEF p, Far
  <2>1. /\ p \in Int
        /\ p # C!Never => p <= t /\ HasFire(s, p) /\ \A u \in Int : p < u /\ u <= t => ~HasFire(s, u)
        /\ p = C!Never => \A u \in (t - (Far - C!Day))..t : ~HasFire(s, u)
    BY <1>3, <2>5
  <2>2. p # C!Never => C!Fires(fields, p) /\ p <= t /\ Fires(p + 1, t) = {}
    <3>1. Fires(p + 1, t) = {u \in (p + 1)..t : HasFire(s, u)}
      BY <2>1, <1>2
    <3>2. \A u \in (p + 1)..t : u \in Int /\ p < u /\ u <= t
      BY <2>1
    <3> HIDE DEF Fires
    <3> QED
      BY <3>1, <3>2, <2>1, <1>1
  <2>3. p = C!Never => Fires(t - Reach, t) = {}
    <3>1. Fires(t - Reach, t) = {u \in (t - Reach)..t : HasFire(s, u)}
      BY <1>2, <1>3
    <3>2. \A u \in (t - Reach)..t : u \in (t - (Far - C!Day))..t
      BY <1>3
    <3> HIDE DEF Fires
    <3> QED
      BY <3>1, <3>2, <2>1
  <2> QED
    BY <2>2, <2>3 DEF C!PrevFaithful, p
<1>6. C!NextFaithful(fields, t, C!Next(s, t))
  <2> DEFINE n == C!Next(s, t)
  <2>1. /\ n # C!Never => n \in Int /\ t < n /\ HasFire(s, n) /\ \A u \in Int : t < u /\ u < n => ~HasFire(s, u)
        /\ n = C!Never => \A u \in (t + 1)..(t + (Far - C!Day)) : ~HasFire(s, u)
    BY <1>1, <1>3, SearchAhead
  <2> HIDE DEF n, Far
  <2>2. n # C!Never => C!Fires(fields, n) /\ t < n /\ Fires(t + 1, n - 1) = {}
    <3> SUFFICES ASSUME n # C!Never PROVE C!Fires(fields, n) /\ t < n /\ Fires(t + 1, n - 1) = {}
      OBVIOUS
    <3>1. n \in Int
      BY <2>1
    <3>2. Fires(t + 1, n - 1) = {u \in (t + 1)..(n - 1) : HasFire(s, u)}
      BY <3>1, <1>2
    <3>3. \A u \in (t + 1)..(n - 1) : u \in Int /\ t < u /\ u < n
      BY <3>1
    <3> HIDE DEF Fires
    <3> QED
      BY <3>2, <3>3, <2>1, <1>1
  <2>3. n = C!Never => Fires(t + 1, t + Reach) = {}
    <3>1. Fires(t + 1, t + Reach) = {u \in (t + 1)..(t + Reach) : HasFire(s, u)}
      BY <1>2, <1>3
    <3>2. \A u \in (t + 1)..(t + Reach) : u \in (t + 1)..(t + (Far - C!Day))
      BY <1>3
    <3> HIDE DEF Fires
    <3> QED
      BY <3>1, <3>2, <2>1
  <2> QED
    BY <2>2, <2>3 DEF C!NextFaithful, n
<1>7. C!GapFaithful(C!FiresBetween(fields, t - Reach, t), t, C!MaxGap(s, t))
  BY <1>1, <1>2, <1>3, GapIs
<1> QED
  BY <1>5, <1>6, <1>7 DEF s

\* What a behaviour of the schedules is asked is one of the questions.
QuestionTyped == question \in {<<>>} \cup {<<q>> : q \in ScheduleInputs}

\* A schedule of a page fires when its five fields say so, whichever of cron's
\* searches one asks (cron.Prev, Next, MaxGap).
THEOREM SchedulesFireAsWritten == Spec => []SchedulesFaithful
<1>1. Init => QuestionTyped
  BY DEF Init, C!SchedulesInit, QuestionTyped
<1>2. QuestionTyped /\ [Next]_vars => QuestionTyped'
  <2> SUFFICES ASSUME QuestionTyped, [Next]_vars PROVE QuestionTyped'
    OBVIOUS
  <2>1. [C!SchedulesNext]_question
    BY Parts
  <2> QED
    BY <2>1 DEF C!SchedulesNext, QuestionTyped
<1>3. QuestionTyped => SchedulesFaithful
  <2> SUFFICES ASSUME QuestionTyped, NEW i \in DOMAIN question
               PROVE  C!Faithful(question[i].fields, question[i].time)
    BY DEF SchedulesFaithful, C!SchedulesHold
  <2>1. PICK q \in ScheduleInputs : question = <<q>>
    BY DEF QuestionTyped
  <2>2. question[i] = q
    BY <2>1
  <2>3. q.fields \in Seq(Seq(C!Items)) /\ q.time \in Nat
    BY ScheduleQuestions DEF C!SchedulesAssumption
  <2> QED
    BY <2>2, <2>3, SchedulesAreExact
<1> QED
  BY <1>1, <1>2, <1>3, PTL DEF Spec
=============================================================================
