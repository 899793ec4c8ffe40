------------------------------- MODULE Answers -------------------------------
(***************************************************************************)
(* What the page tools of the MCP surface answer (internal/mcp): a call    *)
(* commits its mutation first and reads the page by its slug afterwards,   *)
(* the consumer of a staged upload reads inside its transaction, and a     *)
(* retried upload answers from its receipt.  The rows of pages hold one    *)
(* slug in turn.  Agents call; staff review, disable, delete and restore.   *)
(***************************************************************************)
EXTENDS Integers, Sequences, FiniteSets, FiniteSetsExt

CONSTANTS Callers,
          Contents,     \* documents, up to what a deploy dedupes on
          Staged,       \* the verified uploads: the document of each
          MaxVersions   \* bound

VARIABLES
  pages,     \* rows of pages
  versions,  \* rows of page_versions, by id
  calls,     \* per caller: the tool call under way
  receipts,  \* committed uploads, by id
  answer     \* what this step answers

answersVars == <<pages, versions, calls, receipts, answer>>

Rows == 1..2
None == 0
VersionIds == 0..MaxVersions
Files == DOMAIN Staged
NewRow == [life |-> "live", disabled |-> FALSE, gated |-> FALSE, live |-> None]
Idle == [at |-> "idle"]
NoReceipt == [key |-> None]
NoAnswer == [kind |-> "none"]

Of(p) == {v \in DOMAIN versions : versions[v].page = p}
Live == {p \in Rows : pages[p].life = "live"}
Published == {pages[p].live : p \in Live}

\* What the slug serves.
Serves == {pages[p].live : p \in {q \in Live : ~pages[q].disabled}} \ {None}

Results == [version : VersionIds \ {None}, deduped : BOOLEAN, gated : BOOLEAN, approved : BOOLEAN]
AnswersTypeOK ==
  /\ pages \in [Rows -> [life : {"none", "live", "deleted"}, disabled : BOOLEAN, gated : BOOLEAN, live : VersionIds]]
  /\ versions \in Seq([page : Rows, content : Contents, status : {"draft", "pending", "approved"}])
  /\ \A c \in Callers :
       calls[c] \in {Idle}
         \cup [at : {"patch"}, pointer : VersionIds, content : Contents]
         \cup [at : {"tell"}, tool : {"deploy", "data", "patch", "publish"}, result : Results,
               publish : BOOLEAN, pointer : VersionIds, over : VersionIds]
  /\ DOMAIN receipts = Files
  /\ answer.kind \in {"none", "error", "fresh", "replay"}

---------------------------------------------------------------------------
(* The mutations, one committed transaction each (internal/versions).      *)

Creatable(p) == Live = {} /\ pages[p].life = "none" /\ (p = 2 => pages[1].life # "none")
Row(p) == IF pages[p].life = "live" THEN pages[p] ELSE NewRow

\* DeployLocked for an agent: what it stores or dedupes onto, and the pointer.
Hits(p, content) ==
  {v \in Of(p) : /\ versions[v].content = content
                 /\ versions[v].status # IF Row(p).gated THEN "draft" ELSE "pending"}
Goes(p, publish) == publish /\ ~Row(p).gated
Landed(p, content) == IF Hits(p, content) = {} THEN Len(versions) + 1 ELSE Max(Hits(p, content))
Land(p, content, publish, expected) ==
  LET v == Landed(p, content)
      stored == IF v \in DOMAIN versions THEN versions
                ELSE Append(versions, [page |-> p, content |-> content, status |-> IF Row(p).gated THEN "pending" ELSE "draft"])
  IN /\ v <= MaxVersions
     /\ expected # None => expected = Row(p).live
     /\ Goes(p, publish) => ~Row(p).disabled
     /\ versions' = IF Goes(p, publish) THEN [stored EXCEPT ![v].status = "approved"] ELSE stored
     /\ pages' = [pages EXCEPT ![p] = IF Goes(p, publish) THEN [Row(p) EXCEPT !.live = v] ELSE Row(p)]
ResultOf(p, content) ==
  LET v == Landed(p, content)
  IN [version |-> v, deduped |-> v \in DOMAIN versions, gated |-> Row(p).gated, approved |-> versions'[v].status = "approved"]

Tell(tool, result, publish, pointer, over) ==
  [at |-> "tell", tool |-> tool, result |-> result, publish |-> publish, pointer |-> pointer, over |-> over]

\* deploy_page creates a page that is missing; update_page and
\* update_page_data need one, and the data call its version.
Inline(c, tool, content, publish, expected) ==
  /\ calls[c] = Idle
  /\ \E p \in Rows :
       /\ p \in Live \/ (tool = "deploy" /\ Creatable(p) /\ expected = None)
       /\ tool = "data" => expected # None
       /\ Land(p, content, publish, expected)
       /\ calls' = [calls EXCEPT ![c] = Tell(tool, ResultOf(p, content), publish, None, None)]
  /\ answer' = NoAnswer /\ UNCHANGED receipts

\* patch_page reads the pointer and a version of the page, edits it, and
\* deploys the outcome in a later transaction, under the pointer it read.
PatchRead(c, base, content) ==
  /\ calls[c] = Idle
  /\ \E p \in Live :
       /\ base \in Of(p) /\ versions[base].content # content
       /\ calls' = [calls EXCEPT ![c] = [at |-> "patch", pointer |-> pages[p].live, content |-> content]]
  /\ answer' = NoAnswer /\ UNCHANGED <<pages, versions, receipts>>

PatchStore(c) ==
  /\ calls[c].at = "patch"
  /\ \E p \in Live :
       /\ Land(p, calls[c].content, TRUE, calls[c].pointer)
       /\ calls' = [calls EXCEPT ![c] =
            Tell("patch", ResultOf(p, calls[c].content), TRUE, calls[c].pointer, pages[p].live)]
  /\ answer' = NoAnswer /\ UNCHANGED receipts

Moved(p, v) ==
  /\ versions' = [versions EXCEPT ![v].status = "approved"]
  /\ pages' = [pages EXCEPT ![p].live = v]

\* publish_page (a draft) and rollback_page (an approved version).
PublishedResult(c, v) ==
  /\ calls[c] = Idle
  /\ \E p \in Live :
       /\ v \in Of(p) /\ ~pages[p].disabled /\ ~pages[p].gated /\ versions[v].status # "pending"
       /\ Moved(p, v)
       /\ calls' = [calls EXCEPT ![c] =
            Tell("publish", [version |-> v, deduped |-> FALSE, gated |-> FALSE, approved |-> TRUE], TRUE, None, None)]
  /\ answer' = NoAnswer /\ UNCHANGED receipts

\* A call whose second read finds no page, or that is cut off, leaves what it did.
Abandon(c) ==
  /\ calls[c] # Idle /\ calls' = [calls EXCEPT ![c] = Idle]
  /\ answer' = NoAnswer /\ UNCHANGED <<pages, versions, receipts>>

---------------------------------------------------------------------------
(* Staff: among other things they approve a pending version or publish a   *)
(* draft (Approve).                                                        *)

Staff(rows) == pages' = rows /\ answer' = NoAnswer /\ UNCHANGED <<calls, receipts>>
DeletePage(p) == pages[p].life = "live" /\ Staff([pages EXCEPT ![p].life = "deleted"]) /\ UNCHANGED versions
RestorePage(p) == pages[p].life = "deleted" /\ Live = {} /\ Staff([pages EXCEPT ![p].life = "live"]) /\ UNCHANGED versions
SetDisabled(p) == pages[p].life = "live" /\ Staff([pages EXCEPT ![p].disabled = ~@]) /\ UNCHANGED versions
SetApproval(p) == pages[p].life = "live" /\ Staff([pages EXCEPT ![p].gated = ~@]) /\ UNCHANGED versions
Approve(v) ==
  /\ versions[v].status # "approved" /\ pages[versions[v].page].life = "live"
  /\ Moved(versions[v].page, v) /\ answer' = NoAnswer /\ UNCHANGED <<calls, receipts>>

---------------------------------------------------------------------------
(* The answers.                                                            *)

\* deployGuidance, dataUpdateResult and publishedResult, of a result and of
\* the disabled flag and the pointer read for it.
DeployNext(r, disabled, live) ==
  IF disabled THEN "disabled"
  ELSE IF r.version = live THEN "share"
  ELSE CASE r.gated /\ r.approved -> "a human publishes"
         [] r.gated /\ ~r.approved -> "a human approves"
         [] ~r.gated /\ r.approved -> "roll back"
         [] OTHER -> "publish"
DataNext(r, publish, disabled, live) ==
  IF disabled THEN "disabled"
  ELSE IF r.version = live THEN IF r.deduped THEN "no new version" ELSE "share"
  ELSE CASE r.gated -> IF live # None THEN "previous remains" ELSE "none live"
         [] ~r.gated /\ ~publish -> "draft saved"
         [] OTHER -> "moved concurrently"
PublishNext(r, disabled, live) == IF ~disabled /\ r.version = live THEN "share" ELSE "moved again"

Guidance(kind, tool, r, publish, disabled, live) ==
  [kind |-> kind, version |-> r.version, live |-> live,
   versionLive |-> ~disabled /\ r.version = live,
   pageLive |-> live # None /\ ~disabled,
   next |-> CASE tool = "data" -> DataNext(r, publish, disabled, live)
              [] tool = "publish" -> PublishNext(r, disabled, live)
              [] OTHER -> DeployNext(r, disabled, live)]

\* currentPageState: a second read, by the slug, after the commit.
CurrentPageState(c) ==
  /\ calls[c].at = "tell"
  /\ answer' = IF Live = {} THEN [kind |-> "error"]
               ELSE LET row == pages[CHOOSE p \in Live : TRUE]
                    IN Guidance("fresh", calls[c].tool, calls[c].result, calls[c].publish, row.disabled, row.live)
  /\ calls' = [calls EXCEPT ![c] = Idle]
  /\ UNCHANGED <<pages, versions, receipts>>

\* What the receipt of an upload is bound to: the options of the call.
CommitKey(tool, publish, expected) == <<tool, publish, expected>>

\* deploy_page_upload and update_page_data_upload: the mutation, the state
\* read for the answer and the receipt are one transaction.
DeployUpload(f, tool, publish, expected) ==
  /\ receipts[f] = NoReceipt
  /\ \E p \in Rows :
       /\ p \in Live \/ (tool = "deploy" /\ Creatable(p) /\ expected = None)
       /\ tool = "data" => expected # None
       /\ Land(p, Staged[f], publish, expected)
       /\ receipts' = [receipts EXCEPT ![f] =
            [key |-> CommitKey(tool, publish, expected), version |-> Landed(p, Staged[f]), page |-> p]]
       /\ answer' = Guidance("fresh", tool, ResultOf(p, Staged[f]), publish, pages'[p].disabled, pages'[p].live)
  /\ UNCHANGED calls

\* replayPageUpload: the receipt stands, what is served is read anew, of the
\* row the upload was committed to.
Replay(version, row) ==
  LET deleted == row.life # "live"
      live == IF deleted THEN None ELSE row.live
      pageLive == live # None /\ ~row.disabled
  IN [kind |-> "replay", version |-> version, live |-> live, pageLive |-> pageLive,
      versionLive |-> pageLive /\ version = live,
      next |-> CASE deleted -> "page deleted"
                 [] ~deleted /\ row.disabled -> "disabled"
                 [] pageLive /\ version = live -> "share"
                 [] OTHER -> "read the page"]
ReplayUpload_BySlug(f, tool, publish, expected) ==
  LET r == receipts[f]
  IN /\ r # NoReceipt /\ r.key = CommitKey(tool, publish, expected) /\ Live # {}
     /\ answer' = Replay(r.version, pages[CHOOSE p \in Live : TRUE])
     /\ UNCHANGED <<pages, versions, calls, receipts>>
ReplayUpload(f, tool, publish, expected) ==
  LET r == receipts[f]
  IN /\ r # NoReceipt /\ r.key = CommitKey(tool, publish, expected)
     /\ answer' = Replay(r.version, pages[r.page])
     /\ UNCHANGED <<pages, versions, calls, receipts>>

---------------------------------------------------------------------------
AnswersInit ==
  /\ pages = [p \in Rows |-> [NewRow EXCEPT !.life = "none"]]
  /\ versions = <<>> /\ answer = NoAnswer
  /\ calls = [c \in Callers |-> Idle] /\ receipts = [f \in Files |-> NoReceipt]

AnswersNext ==
  \/ \E p \in Rows : DeletePage(p) \/ RestorePage(p) \/ SetDisabled(p) \/ SetApproval(p)
  \/ \E v \in DOMAIN versions : Approve(v)
  \/ \E c \in Callers, tool \in {"deploy", "data"}, x \in Contents, pub \in BOOLEAN, e \in {None} \cup Published : Inline(c, tool, x, pub, e)
  \/ \E c \in Callers, v \in DOMAIN versions, x \in Contents : PatchRead(c, v, x)
  \/ \E c \in Callers : PatchStore(c) \/ CurrentPageState(c) \/ Abandon(c)
  \/ \E c \in Callers, v \in DOMAIN versions : PublishedResult(c, v)
  \/ \E f \in Files, tool \in {"deploy", "data"}, pub \in BOOLEAN, e \in {None} \cup Published : DeployUpload(f, tool, pub, e)
  \/ \E f \in Files, tool \in {"deploy", "data"}, pub \in BOOLEAN, e \in VersionIds : ReplayUpload(f, tool, pub, e)

---------------------------------------------------------------------------
(* Properties.                                                             *)

\* An answer says what the slug serves when it is given, and tells to share
\* the page exactly when that is the version the call was about.
AnswersCurrent ==
  answer.kind \in {"fresh", "replay"} =>
    /\ answer.versionLive <=> answer.version \in Serves
    /\ answer.next \in {"share", "no new version"} <=> answer.versionLive
    /\ answer.kind = "fresh" => (answer.pageLive <=> Serves # {})

\* A retried upload claims nothing about a page that has taken the slug over.
ReplaysKeepToTheirPage ==
  answer.kind = "replay" =>
    /\ answer.live # None => versions[answer.live].page = versions[answer.version].page
    /\ answer.pageLive <=> answer.live \in Serves

\* A patch of a published page that took the pointer took it from the version
\* its author read: a publication in between is not overwritten unseen.
PatchesSeen ==
  \A c \in Callers :
    (calls[c].at = "tell" /\ calls[c].tool = "patch" /\ calls[c].pointer # None) => calls[c].over = calls[c].pointer

AnswersTruthful == AnswersCurrent /\ ReplaysKeepToTheirPage /\ PatchesSeen
=============================================================================
