-------------------------- MODULE MCPageVersions --------------------------
(* Small instances of PageVersions for TLC.                                *)
EXTENDS PageVersions, TLC

CONSTANTS l1, l2, dk

Doc(l, k, x, t) == [layout |-> l, config |-> k, data |-> x, asOf |-> t, stamp |-> 0]

\* Two plain documents and no managed ones: governance alone.
PlainUploads == {Doc(l1, 0, 0, 0), Doc(l2, 0, 0, 0)}
NoSchemas    == [l \in {} |-> {}]

\* Two managed layouts with different schemas (data 1 fits only l1, data 2
\* both), a managed document with coverage, and two states of a deck.
DataUploads == {Doc(l1, 0, 1, 0), Doc(l2, 0, 2, 0), Doc(l1, 0, 0, 1), Doc(dk, 0, 0, 0), Doc(dk, 0, 1, 0)}
DataSchemas == (l1 :> {0, 1, 2}) @@ (l2 :> {2})

Stored == {versions[v].doc : v \in {w \in VersionIds : versions[w].status # "none"}}

\* Two worlds: a user's refreshes in flight on two managed layouts, or edits of
\* one managed layout and of decks.  Takedowns, and what an agent may not do,
\* are left to the governance run; a gated page with managed documents holds two
\* versions, not three.  When a transaction began matters to saves alone: only
\* among decks does it differ.
RefreshWorld ==
  /\ \A d \in Stored : d.layout # dk /\ d.config = 0 /\ d.data # 0
  /\ last.actor = "user" \/ (last = Done("agent") /\ \E c \in Clients : inflight[c] # Idle)
EditWorld ==
  /\ \A d \in Stored : d.layout # l2 /\ d.data # 2 /\ (d.layout = l1 => d.asOf = 1)
  /\ \A c \in Clients : inflight[c] = Idle
Decks == \A d \in Stored : d.layout = dk
SameTime == \A v \in VersionIds : versions[v].created =< 1
OneWorld ==
  /\ RefreshWorld \/ EditWorld
  /\ \A p \in PageIds : ~pages[p].disabled /\ (pages[p].gated => inserted =< 2 \/ Decks)
  /\ SameTime \/ (Decks /\ last.actor = "user")
=============================================================================
