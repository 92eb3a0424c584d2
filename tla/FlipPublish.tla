----------------------------- MODULE FlipPublish -----------------------------
(***************************************************************************)
(* Two writers of flips.json submit flips to the node.                     *)
(*                                                                         *)
(* The main process: publishPending and publishDraft of                    *)
(* src/main/flip-generation-runtime.js, called by the 30 second timer.     *)
(* The renderer: flipMachine of src/renderer/screens/flips/machines.js, one*)
(* per flip of the list page, the editor page, and the rewriting of the    *)
(* whole collection by archiveFlipsForEpoch and handleOutdatedFlips.       *)
(*                                                                         *)
(* Each call of src/main/stores/flips.js runs to completion in the main    *)
(* process; the renderer reaches it by synchronous IPC, so a getFlips and  *)
(* the saveFlips that follows are two calls.                               *)
(***************************************************************************)
EXTENDS Integers, FiniteSets

CONSTANTS
  Drafts,        \* scheduled drafts, one per keyword pair, numbered as they come
                 \* in flips.json: no writer changes their order
  Ticks,         \* activations of publishPending
  Handled,       \* bound: drafts the user opens and handles on the pages
  InitialStores, \* contents of flips.json the model starts from
  MaxEpoch,      \* bound: epochs explored; the drafts are of epoch 1
  MaxCrashes,    \* bound: crashes of the application
  MaxEdits,      \* bound: edits of a draft in the editor
  MaxRewrites,   \* bound: rewrites of the collection that are not one step; one
                 \* behaviour has crashes, edits or these, and no new epoch with these
  None

\* "gone": the record has been deleted; its other fields are history.
Types    == {"draft", "publishing", "published", "deleting", "archived", "invalid", "gone"}
Claims   == {"none", "submitting", "submitted", "unknown", "audit_failed"}
Contents == {"audited", "unaudited"}

\* A record of flips.json: its type, requiresManualReview,
\* autoPublishSubmission.status, and whether images and order still match
\* autoPublishAudit.
Flips == [type: Types, review: BOOLEAN, claim: Claims, content: Contents]

\* Nothing of what is stored at first is on the node.
ASSUME PublishAssumption ==
  /\ Drafts \subseteq Nat
  /\ Handled \subseteq Drafts
  /\ InitialStores \subseteq [Drafts -> Flips]
  /\ \A flips \in InitialStores, d \in Drafts :
       flips[d].type # "published" /\ flips[d].claim # "submitted"
  /\ MaxEpoch \in Nat \ {0} /\ MaxCrashes \in Nat /\ MaxEdits \in Nat /\ MaxRewrites \in Nat
  /\ None \notin [Drafts -> Flips]

VARIABLES
  epoch, period,  \* what the node reports
  onNode,         \* onNode[d]: what became of the flip on the node
  store,          \* flips.json
  up,             \* the main process is running
  publishing,     \* its latch
  pc,             \* pc[t]: where activation t of publishPending waits
  view,           \* view[t]: period and epoch read when its snapshot began
  target,         \* target[t]: the draft it submits
  page,           \* what the renderer shows: no page, the list or the editor
  ui,             \* ui[d]: state of the flip's machine on that page
  copy,           \* copy[d]: context of that machine, a copy of the record
  rewrite,        \* the collection a rewrite in progress has read
  viewed,         \* drafts the user has looked at
  autoSent,       \* autoSent[d]: flip_submit calls of the main process
  handSent,       \* drafts the renderer has called flip_submit for
  crashes, edits, rewrites

chain    == <<epoch, period>>
process  == <<up, publishing, pc, view, target>>
renderer == <<page, ui, copy, rewrite, viewed>>
counters == <<autoSent, handSent, crashes, edits, rewrites>>
vars == <<epoch, period, onNode, store, up, publishing, pc, view, target,
          page, ui, copy, rewrite, viewed, autoSent, handSent, crashes, edits, rewrites>>

Waits  == {"none", "snapshot", "claimed", "accepted", "refused"}
Panels == {"closed", "idle", "editor", "preparing", "accepted", "refused",
           "mining", "failure", "done", "invalid",
           "deleting", "deleteAccepted", "deleteFailed", "deleteMining", "deleted"}

\* A flip is in the mempool, then mined; a delete transaction withdraws it.
Fates == {"none", "mempool", "mined", "withdrawing", "withdrawn"}

\* The identity lists the keyword pair of the draft as used.
PairUsed(d) == onNode[d] \in {"mined", "withdrawing"}

-----------------------------------------------------------------------------
(* The store.                                                               *)

\* Mutant: the context replaces the stored record.
Replace(old, new) == new

\* updateDraft: the stored record overlaid with the fields that are given, if
\* there still is one. A context without autoPublishSubmission leaves the stored one.
Overlay(old, new) ==
  IF old.type = "gone" THEN old
  ELSE [new EXCEPT !.claim = IF @ = "none" THEN old.claim ELSE @]

\* updateDraft with some fields of the record of d
Write(d, new) == store' = [store EXCEPT ![d] = IF @.type = "gone" THEN @ ELSE new]

SetClaim(d, status) == Write(d, [store[d] EXCEPT !.claim = status])

\* persistFlip: updateDraft(context)
Persist(d, context) == store' = [store EXCEPT ![d] = Overlay(@, context)]

-----------------------------------------------------------------------------
(* publishPending in the main process.                                      *)

\* Activations are alike: a new one takes the name of one that is over.
StartPublish(t) ==
  /\ up /\ ~publishing /\ pc[t] = "none"
  /\ t = CHOOSE u \in Ticks : pc[u] = "none"
  /\ publishing' = TRUE
  /\ pc' = [pc EXCEPT ![t] = "snapshot"]
  /\ view' = [view EXCEPT ![t] = <<period, epoch>>]
  /\ UNCHANGED <<chain, onNode, store, up, target, renderer, counters>>

Leave(t) ==
  /\ publishing' = FALSE
  /\ pc' = [pc EXCEPT ![t] = "none"]
  /\ view' = [view EXCEPT ![t] = None]
  /\ target' = [target EXCEPT ![t] = None]
  /\ UNCHANGED <<chain, up, renderer, counters>>

\* Both reads of dna_epoch agree and no validation session is running.
SnapshotUsable(t) == view[t] = <<"None", epoch>> /\ period = "None"

\* Mutant: drafts nobody reviewed are pending too.
PendingUnreviewed(d) ==
  /\ store[d].type = "draft"
  /\ store[d].claim = "none"
  /\ epoch = 1
  /\ ~PairUsed(d)

\* A reviewed, unclaimed draft of this epoch and session.
Pending(d) ==
  /\ store[d].type = "draft"
  /\ ~store[d].review
  /\ store[d].claim = "none"
  /\ epoch = 1
  /\ ~PairUsed(d)

\* Mutant: the first draft is taken before the others are filtered out.
FirstDraft(d) ==
  /\ Pending(d)
  /\ \A e \in Drafts : e < d => store[e].type # "draft"

\* const [draft] = pendingDrafts(current)
First(d) ==
  /\ Pending(d)
  /\ \A e \in Drafts : e < d => ~Pending(e)

\* skipped, idle, or the snapshot threw.
NothingPublished(t) ==
  /\ pc[t] = "snapshot"
  /\ Leave(t)
  /\ UNCHANGED <<onNode, store>>

\* Mutant: the claim is persisted with the answer only.
ClaimUnsaved(t) ==
  \E d \in Drafts :
    /\ pc[t] = "snapshot" /\ SnapshotUsable(t)
    /\ First(d) /\ store[d].content = "audited"
    /\ target' = [target EXCEPT ![t] = d]
    /\ pc' = [pc EXCEPT ![t] = "claimed"]
    /\ view' = [view EXCEPT ![t] = None]
    /\ UNCHANGED <<chain, onNode, store, up, publishing, renderer, counters>>

\* The claim is persisted in the step that selected and checked the draft.
ClaimDraft(t) ==
  \E d \in Drafts :
    /\ pc[t] = "snapshot" /\ SnapshotUsable(t)
    /\ First(d) /\ store[d].content = "audited"
    /\ SetClaim(d, "submitting")
    /\ target' = [target EXCEPT ![t] = d]
    /\ pc' = [pc EXCEPT ![t] = "claimed"]
    /\ view' = [view EXCEPT ![t] = None]
    /\ UNCHANGED <<chain, onNode, up, publishing, renderer, counters>>

AuditFails(t) ==
  \E d \in Drafts :
    /\ pc[t] = "snapshot" /\ SnapshotUsable(t)
    /\ First(d) /\ store[d].content = "unaudited"
    /\ SetClaim(d, "audit_failed")
    /\ Leave(t)
    /\ UNCHANGED onNode

\* The node decides; a flip is never accepted inside a validation session.
NodeAnswers(d, answer) ==
  \/ /\ answer = "accepted" /\ period = "None"
     /\ onNode' = [onNode EXCEPT ![d] = IF PairUsed(d) THEN @ ELSE "mempool"]
  \/ answer = "refused" /\ UNCHANGED onNode

\* readRpc('flip_submit')
SubmitFlip(t) ==
  /\ pc[t] = "claimed"
  /\ autoSent' = [autoSent EXCEPT ![target[t]] = @ + 1]
  /\ \E answer \in {"accepted", "refused"} :
       /\ NodeAnswers(target[t], answer)
       /\ pc' = [pc EXCEPT ![t] = answer]
  /\ UNCHANGED <<chain, store, up, publishing, view, target, renderer,
                 handSent, crashes, edits, rewrites>>

\* Mutant: the answer is not looked at.
PublishedAnyway(t) ==
  /\ pc[t] \in {"accepted", "refused"}
  /\ Write(target[t], [store[target[t]] EXCEPT !.type = "published", !.claim = "submitted"])
  /\ Leave(t)
  /\ UNCHANGED onNode

\* The answer carries a transaction hash and a CID.
Published(t) ==
  /\ pc[t] = "accepted"
  /\ Write(target[t], [store[target[t]] EXCEPT !.type = "published", !.claim = "submitted"])
  /\ Leave(t)
  /\ UNCHANGED onNode

\* An error, a lost answer or a malformed one. If the store has lost the claim the
\* catch block takes the error for a failed audit.
OutcomeUnknown(t) ==
  /\ pc[t] \in {"claimed", "accepted", "refused"}
  /\ SetClaim(target[t], IF store[target[t]].claim = "none"
                           THEN "audit_failed" ELSE "unknown")
  /\ Leave(t)
  /\ UNCHANGED onNode

-----------------------------------------------------------------------------
(* The renderer: flipMachine and the editor.                                *)

Main == <<chain, process>>

\* The list has a machine for each record. One of a draft the user does not handle
\* stays idle, so it is left out.
Listed(d) == d \in Handled /\ store[d].type # "gone"

OpenList ==
  /\ page = "none" /\ page' = "list"
  /\ copy' = [d \in Drafts |-> IF Listed(d) THEN store[d] ELSE None]
  /\ ui' = [d \in Drafts |->
              IF ~Listed(d) THEN "closed"
              ELSE CASE store[d].type = "publishing" -> "mining"
                     [] store[d].type = "deleting"   -> "deleteMining"
                     [] OTHER                        -> "idle"]
  /\ UNCHANGED <<Main, onNode, store, rewrite, viewed, counters>>

\* Leaving the page or reloading the window stops the machines.
CloseList ==
  /\ page # "none" /\ page' = "none"
  /\ ui' = [d \in Drafts |-> "closed"]
  /\ copy' = [d \in Drafts |-> None]
  /\ UNCHANGED <<Main, onNode, store, rewrite, viewed, counters>>

OpenEditor(d) ==
  /\ page = "none" /\ page' = "editor"
  /\ store[d].type \in {"draft", "invalid"}
  /\ ui' = [ui EXCEPT ![d] = "editor"]
  /\ copy' = [copy EXCEPT ![d] = store[d]]
  /\ viewed' = viewed \cup {d}
  /\ UNCHANGED <<Main, onNode, store, rewrite, counters>>

\* The editor is open and no submission is under way.
Editing(d) == page = "editor" /\ ui[d] \in {"editor", "failure"}

\* Mutant: the editor persists a draft without its type.
EditUntyped(d) ==
  /\ Editing(d) /\ edits < MaxEdits /\ crashes + rewrites = 0
  /\ edits' = edits + 1
  /\ copy' = [copy EXCEPT ![d].content = "unaudited"]
  /\ store' = [store EXCEPT ![d].content = "unaudited", ![d].type = None]
  /\ UNCHANGED <<Main, onNode, page, ui, rewrite, viewed, autoSent, handSent,
                 crashes, rewrites>>

\* The editor persists images, order and type, not the audit fields.
EditDraft(d) ==
  /\ Editing(d) /\ edits < MaxEdits /\ crashes + rewrites = 0
  /\ edits' = edits + 1
  /\ copy' = [copy EXCEPT ![d].content = "unaudited"]
  /\ Write(d, [store[d] EXCEPT !.content = "unaudited", !.type = copy[d].type])
  /\ UNCHANGED <<Main, onNode, page, ui, rewrite, viewed, autoSent, handSent,
                 crashes, rewrites>>

\* PUBLISH on the list needs a reviewed draft; the editor shows the panels.
\* publishFlip refuses a flip whose images the store has as published.
Publish(d) ==
  /\ \/ /\ page = "list"
        /\ ui[d] \in {"idle", "failure", "deleted"} /\ ~copy[d].review
        /\ copy[d].type \in {"draft", "invalid"}
     \/ Editing(d)
  /\ ui' = [ui EXCEPT ![d] = IF store[d].type = "published"
                                /\ store[d].content = copy[d].content
                               THEN "failure" ELSE "preparing"]
  /\ UNCHANGED <<Main, onNode, store, page, copy, rewrite, viewed, counters>>

\* flip_submit once the images are compressed.
SendFlip(d) ==
  /\ ui[d] = "preparing"
  /\ handSent' = handSent \cup {d}
  /\ \E answer \in {"accepted", "refused"} :
       NodeAnswers(d, answer) /\ ui' = [ui EXCEPT ![d] = answer]
  /\ UNCHANGED <<Main, store, page, copy, rewrite, viewed, autoSent,
                 crashes, edits, rewrites>>

Update(d, type, panel) ==
  /\ copy' = [copy EXCEPT ![d].type = type]
  /\ Persist(d, [copy[d] EXCEPT !.type = type])
  /\ ui' = [ui EXCEPT ![d] = panel]
  /\ UNCHANGED <<Main, onNode, page, rewrite, viewed, counters>>

FlipSent(d) == ui[d] = "accepted" /\ Update(d, "publishing", "mining")

SendFailed(d) ==
  /\ ui[d] \in {"preparing", "accepted", "refused"}
  /\ ui' = [ui EXCEPT ![d] = "failure"]
  /\ UNCHANGED <<Main, onNode, store, page, copy, rewrite, viewed, counters>>

InBlock(d) == onNode[d] \in {"mined", "withdrawing", "withdrawn"}

\* The editor only leaves for the list once the flip is mined.
Mined(d) ==
  page = "list" /\ ui[d] = "mining" /\ InBlock(d) /\ Update(d, "published", "done")

\* bcn_transaction failed, for whatever reason.
TxNull(d) ==
  page = "list" /\ ui[d] \in {"mining", "deleteMining"} /\ Update(d, "invalid", "invalid")

\* The card of a published flip offers DELETE.
Delete(d) ==
  /\ ui[d] \in {"idle", "done", "deleteFailed"} /\ copy[d].type = "published"
  /\ ui' = [ui EXCEPT ![d] = "deleting"]
  /\ UNCHANGED <<Main, onNode, store, page, copy, rewrite, viewed, counters>>

SendDelete(d) ==
  /\ ui[d] = "deleting"
  /\ \/ /\ onNode[d] = "mined"
        /\ onNode' = [onNode EXCEPT ![d] = "withdrawing"]
        /\ ui' = [ui EXCEPT ![d] = "deleteAccepted"]
     \/ /\ ui' = [ui EXCEPT ![d] = "deleteFailed"]
        /\ UNCHANGED onNode
  /\ UNCHANGED <<Main, store, page, copy, rewrite, viewed, counters>>

DeleteSent(d) == ui[d] = "deleteAccepted" /\ Update(d, "deleting", "deleteMining")

DeleteMined(d) ==
  ui[d] = "deleteMining" /\ onNode[d] = "withdrawn" /\ Update(d, "draft", "deleted")

Archive(d) ==
  /\ ui[d] = "idle"
  /\ Update(d, "archived", "idle")

\* A person who has reviewed the flip clears requiresManualReview in the store.
\* No code of the repository does; its tests do it by hand.
Review(d) ==
  /\ store[d].review /\ store[d].type = "draft"
  /\ store' = [store EXCEPT ![d].review = FALSE]
  /\ viewed' = viewed \cup {d}
  /\ UNCHANGED <<Main, onNode, page, ui, copy, rewrite, counters>>

-----------------------------------------------------------------------------
(* Rewriting the collection: saveFlips(getFlips().map(...)).                *)

\* handleOutdatedFlips, when the list is opened or a new epoch seen, saves only the
\* records modified in the last 30 days. Which are older is left open.
WithoutOutdated(flips, outdated) ==
  [d \in Drafts |-> IF d \in outdated THEN [flips[d] EXCEPT !.type = "gone"] ELSE flips[d]]

\* archiveFlips of the settings page archives every record, archiveFlipsForEpoch
\* those of epochs that are over, and keeps the others as they were read.
Archived(flips) ==
  [d \in Drafts |-> IF flips[d].type = "gone" THEN flips[d]
                   ELSE [flips[d] EXCEPT !.type = "archived"]]

Rewritten(flips) ==
  {WithoutOutdated(flips, outdated) : outdated \in SUBSET Drafts}
    \cup IF page = "none" \/ epoch # 1 THEN {Archived(flips)} ELSE {}

RewriteAtOnce ==
  /\ store' \in Rewritten(store)
  /\ UNCHANGED <<Main, onNode, renderer, counters>>

\* The main process may come between the two calls.
RewriteReads ==
  /\ rewrites < MaxRewrites /\ crashes + edits = 0 /\ epoch = 1 /\ period = "None"
  /\ rewrites' = rewrites + 1
  /\ rewrite' = store
  /\ UNCHANGED <<Main, onNode, store, page, ui, copy, viewed, autoSent, handSent,
                 crashes, edits>>

RewriteSaves ==
  /\ rewrite # None
  /\ store' \in Rewritten(rewrite)
  /\ rewrite' = None
  /\ UNCHANGED <<Main, onNode, page, ui, copy, viewed, counters>>

-----------------------------------------------------------------------------
Crash ==
  /\ up /\ crashes < MaxCrashes /\ edits + rewrites = 0
  /\ crashes' = crashes + 1
  /\ up' = FALSE /\ publishing' = FALSE
  /\ pc' = [t \in Ticks |-> "none"]
  /\ view' = [t \in Ticks |-> None]
  /\ target' = [t \in Ticks |-> None]
  /\ page' = "none"
  /\ ui' = [d \in Drafts |-> "closed"]
  /\ copy' = [d \in Drafts |-> None]
  /\ rewrite' = None
  /\ UNCHANGED <<chain, onNode, store, viewed, autoSent, handSent,
                 edits, rewrites>>

Restart ==
  /\ ~up /\ up' = TRUE
  /\ UNCHANGED <<chain, onNode, store, publishing, pc, view, target,
                 renderer, counters>>

SessionBegins ==
  /\ period = "None" /\ epoch < MaxEpoch /\ rewrites = 0
  /\ period' = "Session"
  /\ UNCHANGED <<epoch, onNode, store, process, renderer, counters>>

SessionEnds ==
  /\ period = "Session"
  /\ period' = "None" /\ epoch' = epoch + 1
  /\ UNCHANGED <<onNode, store, process, renderer, counters>>

\* The network mines flip and delete transactions.
Mine ==
  /\ \E d \in Drafts :
       \/ /\ onNode[d] = "mempool"
          /\ onNode' = [onNode EXCEPT ![d] = "mined"]
       \/ /\ onNode[d] = "withdrawing"
          /\ onNode' = [onNode EXCEPT ![d] = "withdrawn"]
  /\ UNCHANGED <<chain, store, process, renderer, counters>>

Init ==
  /\ epoch = 1 /\ period = "None" /\ onNode = [d \in Drafts |-> "none"]
  /\ store \in InitialStores
  /\ up = TRUE /\ publishing = FALSE
  /\ pc = [t \in Ticks |-> "none"]
  /\ view = [t \in Ticks |-> None]
  /\ target = [t \in Ticks |-> None]
  /\ page = "none" /\ ui = [d \in Drafts |-> "closed"]
  /\ copy = [d \in Drafts |-> None]
  /\ rewrite = None
  /\ viewed = {d \in Drafts : ~store[d].review}
  /\ autoSent = [d \in Drafts |-> 0]
  /\ handSent = {}
  /\ crashes = 0 /\ edits = 0 /\ rewrites = 0

\* How an activation of publishPending with a usable snapshot goes on.
Handle(t) == ClaimDraft(t) \/ AuditFails(t)

MainProcess(t) ==
  \/ StartPublish(t) \/ NothingPublished(t) \/ Handle(t)
  \/ SubmitFlip(t) \/ Published(t) \/ OutcomeUnknown(t)

\* Between the two calls of a rewrite the renderer does nothing else.
Renderer ==
  /\ up
  /\ \/ /\ rewrite = None
        /\ \/ OpenList \/ CloseList
           \/ \E d \in Handled :
                \/ OpenEditor(d) \/ EditDraft(d) \/ Publish(d) \/ SendFlip(d)
                \/ FlipSent(d) \/ SendFailed(d) \/ Mined(d) \/ TxNull(d)
                \/ Delete(d) \/ SendDelete(d) \/ DeleteSent(d) \/ DeleteMined(d)
                \/ Archive(d)
           \/ \E d \in Drafts : Review(d)
           \/ RewriteAtOnce \/ RewriteReads
     \/ RewriteSaves

Next ==
  \/ \E t \in Ticks : MainProcess(t)
  \/ Renderer
  \/ Crash \/ Restart
  \/ SessionBegins \/ SessionEnds \/ Mine

Spec == Init /\ [][Next]_vars

-----------------------------------------------------------------------------
TypeOK ==
  /\ epoch \in 1..MaxEpoch /\ period \in {"None", "Session"}
  /\ onNode \in [Drafts -> Fates]
  /\ store \in [Drafts -> Flips]
  /\ up \in BOOLEAN /\ publishing \in BOOLEAN
  /\ pc \in [Ticks -> Waits]
  /\ view \in [Ticks -> ({"None", "Session"} \X (1..MaxEpoch)) \cup {None}]
  /\ target \in [Ticks -> Drafts \cup {None}]
  /\ page \in {"none", "list", "editor"} /\ ui \in [Drafts -> Panels]
  /\ copy \in [Drafts -> Flips \cup {None}]
  /\ rewrite \in [Drafts -> Flips] \cup {None}
  /\ viewed \subseteq Drafts
  /\ autoSent \in [Drafts -> Nat] /\ handSent \subseteq Drafts
  /\ crashes \in 0..MaxCrashes /\ edits \in 0..MaxEdits
  /\ rewrites \in 0..MaxRewrites

\* The main process submits a draft at most once ("An uncertain result must be
\* reconciled, never retried automatically, including after an app restart").
AutoSubmitsOnce == \A d \in Drafts : autoSent[d] <= 1

\* No flip leaves the machine unseen: whoever submits it, the user has looked
\* at its panels (requiresManualReview).
OnlyViewedSubmitted ==
  \A d \in Drafts : autoSent[d] > 0 \/ d \in handSent => d \in viewed

\* A record says "published", and a claim "submitted", only if the node took
\* the flip.
PublishedIsAccepted ==
  \A d \in Drafts :
    store[d].type = "published" \/ store[d].claim = "submitted" => onNode[d] # "none"

\* A flip the main process got onto the chain is not forgotten as long as its record
\* lasts: through a lost answer, a crash, an edit or an archive, the record keeps a
\* claim a person can reconcile. Two rewrites of the collection end that: a torn one,
\* and handleOutdatedFlips, which deletes a record nobody has modified for 30 days
\* together with its claim.
AcceptedLeavesTrace ==
  \A d \in Drafts :
    onNode[d] # "none" /\ d \notin handSent /\ rewrites = 0 /\ store[d].type # "gone"
      => store[d].claim \in {"submitting", "submitted", "unknown"}

\* A stale copy the renderer persists may turn "submitted" or "unknown" back into
\* "submitting"; all three keep the draft from being claimed again.
Recorded(status) ==
  CASE status = "none"         -> "free"
    [] status = "audit_failed" -> "rejected"
    [] OTHER                   -> "claimed"

Once == INSTANCE PaidOnce WITH
  Items  <- Drafts,
  claim  <- [d \in Drafts |-> Recorded(store[d].claim)],
  effect <- autoSent

\* Publishing implements PaidOnce, the claim being autoPublishSubmission and the
\* effect a flip_submit of the main process: no draft is submitted twice or
\* without its claim in the store, and no writer erases a claim, across stale
\* renderer copies, edits, crashes and restarts. A torn rewrite of the collection
\* ends what is promised (AutoSubmitsOnce).
PublishesOnce == Once!Init /\ [][rewrites' > 0 \/ Once!Next]_(Once!once)

\* The main process goes on: the 30 second timer keeps calling, a call returns,
\* the application is started again. A call whose snapshot could be usable again
\* and again (node ready, setting on) some time has one that is.
Fairness ==
  /\ WF_vars(Restart \/ \E t \in Ticks : MainProcess(t))
  /\ SF_vars(\E t \in Ticks : Handle(t))

FairSpec == Spec /\ Fairness

\* No reviewed draft is pending for ever once the application stays up and no
\* session runs: it is submitted or set aside, whatever the user does to it
\* meanwhile, and also when the draft before it in the queue has failed its audit
\* or its submission is uncertain.
QueueDrains ==
  <>[](up /\ period = "None") => []<>(\A d \in Drafts : ~Pending(d))
=============================================================================
