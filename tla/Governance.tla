----------------------------- MODULE Governance -----------------------------
(***************************************************************************)
(* What the page/version state machine promises its human administrators, *)
(* without pages rows, versions, deploys or audit: agents change what a   *)
(* slug shows only while no human holds it, and a version a human refused *)
(* is never shown again.  PageVersions implements this specification.     *)
(***************************************************************************)
CONSTANTS Slugs, Versions, Nothing

VARIABLES
  shown,    \* per slug: the version visitors get, or Nothing
  held,     \* per slug: taken down or under the approval gate
  refused,  \* the versions a human rejected
  by        \* whose step was last

gvars == <<shown, held, refused, by>>

Init ==
  /\ shown = [s \in Slugs |-> Nothing]
  /\ held = [s \in Slugs |-> FALSE]
  /\ refused = {}
  /\ by = "user"

Show(s, w, h) ==
  /\ w \notin refused
  /\ shown' = [shown EXCEPT ![s] = w]
  /\ held' = [held EXCEPT ![s] = h]

\* An agent publishes, rolls back, retires or creates on a free slug ...
AgentActs(s, w, h) ==
  /\ ~held[s]
  /\ Show(s, w, h)
  /\ by' = "agent" /\ UNCHANGED refused

\* ... and may queue work anywhere.
AgentQueues == by' = "agent" /\ UNCHANGED <<shown, held, refused>>

HumanActs(s, w, h) ==
  /\ Show(s, w, h)
  /\ by' = "user" /\ UNCHANGED refused

\* A human refuses a version nobody is being shown.
HumanRefuses(v) ==
  /\ \A s \in Slugs : shown[s] # v
  /\ refused' = refused \cup {v}
  /\ by' = "user" /\ UNCHANGED <<shown, held>>

Next ==
  \/ \E s \in Slugs, w \in Versions \cup {Nothing}, h \in BOOLEAN :
        AgentActs(s, w, h) \/ HumanActs(s, w, h)
  \/ \E v \in Versions : HumanRefuses(v)
  \/ AgentQueues

Spec == Init /\ [][Next]_gvars
=============================================================================
