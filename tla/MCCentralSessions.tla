------------------------ MODULE MCCentralSessions ------------------------
(***************************************************************************)
(* An instance of CentralSessions for TLC.  SignIn races sign-in with     *)
(* logout, AccessList with grants, revocations and Auth's access events,  *)
(* and Idle runs requests past the idle and the absolute limit.           *)
(***************************************************************************)
EXTENDS CentralSessions, TLC

OneSubject == [g \in Centrals |-> CHOOSE s \in Subjects : TRUE]
AllEmails  == [s \in Subjects |-> Emails]

SignIn     == [ops |-> {"signin", "logout"}, emails |-> {"e1"},
               centrals |-> {"g1", "g2"}, sessions |-> 2, time |-> 3]
AccessList == [ops |-> {"signin", "grant", "revoke", "access"}, emails |-> {"e1", "e2"},
               centrals |-> {"g1"}, sessions |-> 1, time |-> 0]
Idle       == [ops |-> {"signin", "validate", "signout"}, emails |-> {"e1"},
               centrals |-> {"g1"}, sessions |-> 1, time |-> 6]
AllMixes == {SignIn, AccessList, Idle}
OnlyIdle == {[Idle EXCEPT !.ops = {"signin", "validate"}]}

AnyOrder == Permutations(Calls)
==========================================================================
