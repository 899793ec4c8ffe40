-------------------------- MODULE MCContentAccess --------------------------
(***************************************************************************)
(* An instance of ContentAccess for TLC: one page and two portals.        *)
(* The Guess mixes try the passwords from several connections, TwoDoors   *)
(* tries one submission at the page and at two portals, the Turns mixes   *)
(* rotate a password under reads and sign-ins, Revoking lets staff take   *)
(* access away in every way, and Sharing lets two people curate portals.  *)
(***************************************************************************)
EXTENDS ContentAccess, TLC

OnePage(hash) == [p \in Pages |-> [state |-> "open", published |-> 1, hash |-> hash, copy |-> NoCopy]]
NoPortal == [life |-> "none", hash |-> NoHash, copy |-> NoCopy, home |-> 0, members |-> {}]
Portal(hash, ps) == [life |-> "live", hash |-> hash, copy |-> NoCopy, home |-> 0, members |-> ps]

H1 == [salt |-> 1, secret |-> "a"]
H2 == [salt |-> 2, secret |-> "b"]
H3 == [salt |-> 3, secret |-> "b"]

Mix(ops, requests, n, fanout, hash, q1, q2) ==
  [ops |-> ops, calls |-> requests, salts |-> n, fanout |-> fanout, pages |-> OnePage(hash),
   portals |-> (1 :> q1) @@ (2 :> q2)]

GuessPortal == Mix({"unlock portal"}, Calls, 3, 2, NoHash, Portal(H2, Pages), NoPortal)
GuessBoth   == Mix({"unlock"}, Calls, 3, 2, H1, Portal(H2, Pages), NoPortal)
TwoDoors    == Mix({"unlock", "lock portal"}, {"c1"}, 3, 2, H1, Portal(H2, Pages), Portal(H3, Pages))
PageTurns   == Mix({"get", "unlock", "password"}, Calls, 4, 2, H1, NoPortal, NoPortal)
PortalTurns == Mix({"get", "unlock portal", "password"}, Calls, 4, 2, NoHash, Portal(H2, Pages), NoPortal)
Revoking    == Mix({"get", "exchange", "password", "pages", "portals"}, {"c1"}, 4, 2, NoHash,
                   Portal(H2, Pages), NoPortal)
Sharing     == Mix({"add", "portals", "pages"}, Calls, 4, 1, H1, Portal(H2, {}), NoPortal)
AllMixes == {GuessPortal, GuessBoth, TwoDoors, PageTurns, PortalTurns, Revoking, Sharing}
=============================================================================
