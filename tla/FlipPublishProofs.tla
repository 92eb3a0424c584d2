-------------------------- MODULE FlipPublishProofs --------------------------
(***************************************************************************)
(* Proofs about FlipPublish, for any drafts and activations, any stored    *)
(* collection nothing of which is on the node, and any bounds:             *)
(* types, the three properties about what was sent, and that publishing    *)
(* implements PaidOnce as long as no rewrite of the collection is torn.    *)
(*                                                                         *)
(* The argument: a claim, once it is in the store, is never lost, because  *)
(* the copies of the renderer were made of the store and can only put back *)
(* a claim of the same kind (CopyInv); the latch lets one activation work  *)
(* (LatchInv); and that one works on a draft it has claimed (TargetInv).   *)
(***************************************************************************)
EXTENDS FlipPublish, TLAPS

Working == {"claimed", "accepted", "refused"}

\* Panels that have shown the flip or submit it.
Shown == {"editor", "preparing", "accepted", "refused", "failure"}

\* One activation at a time, while the latch is closed.
LatchInv ==
  /\ \A t \in Ticks : pc[t] # "none" => publishing
  /\ \A t, u \in Ticks : pc[t] # "none" /\ pc[u] # "none" => t = u

\* What a record says about its draft is true.
Sound(d, flip) ==
  /\ flip.type = "published" \/ flip.claim = "submitted" => onNode[d] # "none"
  /\ ~flip.review => d \in viewed

StoreInv == \A d \in Drafts : Sound(d, store[d])

\* What a torn rewrite has read.
RewriteInv ==
  rewrite # None => rewrites > 0 /\ \A d \in Drafts : Sound(d, rewrite[d])

\* Copies of open pages; their claims are of the kind the store has.
CopyInv ==
  \A d \in Drafts : ui[d] # "closed" =>
    /\ copy[d] \in Flips /\ Sound(d, copy[d])
    /\ rewrites = 0 /\ copy[d].claim # "none" =>
         Recorded(copy[d].claim) = Recorded(store[d].claim)

PanelInv == \A d \in Drafts : ui[d] \in Shown => d \in viewed

\* An activation works on a reviewed draft it has claimed.
TargetInv ==
  \A t \in Ticks : pc[t] \in Working =>
    /\ target[t] \in Drafts /\ target[t] \in viewed
    /\ pc[t] = "accepted" => onNode[target[t]] # "none"
    /\ rewrites = 0 => Recorded(store[target[t]].claim) = "claimed"
    /\ rewrites = 0 /\ pc[t] = "claimed" => autoSent[target[t]] = 0

\* Without a claim nothing was sent, and with one once.
ClaimInv ==
  rewrites = 0 =>
    \A d \in Drafts : /\ autoSent[d] <= 1
                      /\ Recorded(store[d].claim) # "claimed" => autoSent[d] = 0

\* AcceptedLeavesTrace, also of records deleted meanwhile: as history they keep
\* their claim.
TraceInv ==
  \A d \in Drafts :
    onNode[d] # "none" /\ d \notin handSent /\ rewrites = 0
      => store[d].claim \in {"submitting", "submitted", "unknown"}

\* A session is of an epoch that has a successor.
ClockInv == period = "Session" => epoch < MaxEpoch

Inv == /\ TypeOK /\ ClockInv /\ LatchInv /\ StoreInv /\ RewriteInv /\ CopyInv /\ PanelInv
       /\ TargetInv /\ ClaimInv /\ OnlyViewedSubmitted /\ TraceInv

\* The record of d is written with this type, claim and review, and no other.
Stored(d, type, claim, review) ==
  /\ store' \in [Drafts -> Flips]
  /\ \A x \in Drafts \ {d} : store'[x] = store[x]
  /\ store'[d].type = type /\ store'[d].claim = claim /\ store'[d].review = review

\* What the actions that write records do to the store.
ClaimEffect(t) ==
  \E d \in Drafts :
    /\ store[d].claim = "none" /\ ~store[d].review
    /\ target' = [target EXCEPT ![t] = d]
    /\ Stored(d, store[d].type, "submitting", store[d].review)

AuditEffect ==
  \E d \in Drafts :
    /\ store[d].claim = "none"
    /\ Stored(d, store[d].type, "audit_failed", store[d].review)

\* A record that is gone stays as it was.
PublishedEffect(d) ==
  /\ d \in Drafts
  /\ UNCHANGED store \/ Stored(d, "published", "submitted", store[d].review)

UnknownEffect(d) ==
  /\ d \in Drafts
  /\ \/ UNCHANGED store
     \/ Stored(d, store[d].type,
               IF store[d].claim = "none" THEN "audit_failed" ELSE "unknown",
               store[d].review)

EditEffect(d) ==
  /\ copy[d] \in Flips /\ copy' \in [Drafts -> Flips \cup {None}]
  /\ \A x \in Drafts \ {d} : copy'[x] = copy[x]
  /\ copy'[d] \in Flips
  /\ copy'[d].type = copy[d].type /\ copy'[d].claim = copy[d].claim
  /\ copy'[d].review = copy[d].review
  /\ UNCHANGED store \/ Stored(d, copy[d].type, store[d].claim, store[d].review)

ReviewEffect(d) == Stored(d, store[d].type, store[d].claim, FALSE)

\* The records that were read are written, archived or deleted.
RewriteEffect(flips) ==
  /\ store' \in [Drafts -> Flips]
  /\ \A d \in Drafts : /\ store'[d].claim = flips[d].claim
                       /\ store'[d].review = flips[d].review
                       /\ store'[d].type \in {flips[d].type, "archived", "gone"}

Effects ==
  /\ \A t \in Ticks : /\ ClaimDraft(t) => ClaimEffect(t)
                      /\ AuditFails(t) => AuditEffect
                      /\ Published(t) => PublishedEffect(target[t])
                      /\ OutcomeUnknown(t) => UnknownEffect(target[t])
  /\ \A d \in Drafts : /\ EditDraft(d) => EditEffect(d)
                       /\ Review(d) => ReviewEffect(d)
  /\ RewriteAtOnce => RewriteEffect(store)
  /\ RewriteSaves => RewriteEffect(rewrite)

\* What the proofs need of the bounds.
LEMMA Bounds ==
  /\ MaxEpoch \in Nat \ {0} /\ MaxCrashes \in Nat /\ MaxEdits \in Nat /\ MaxRewrites \in Nat
  /\ None \notin [Drafts -> Flips]
BY PublishAssumption

\* A step is one of the actions; the bound on the drafts a user handles is dropped.
Step ==
  \/ \E t \in Ticks : MainProcess(t)
  \/ OpenList \/ CloseList
  \/ \E d \in Drafts :
       \/ OpenEditor(d) \/ EditDraft(d) \/ Publish(d) \/ SendFlip(d) \/ FlipSent(d)
       \/ SendFailed(d) \/ Mined(d) \/ TxNull(d) \/ Delete(d) \/ SendDelete(d)
       \/ DeleteSent(d) \/ DeleteMined(d) \/ Archive(d) \/ Review(d)
  \/ RewriteAtOnce \/ RewriteReads \/ RewriteSaves
  \/ Crash \/ Restart \/ SessionBegins \/ SessionEnds \/ Mine

\* Every step of the specification is such a step.
LEMMA NextIsStep ==
  ASSUME Next
  PROVE  Step
<1>1. Handled \subseteq Drafts
  BY PublishAssumption
<1>2. Renderer => Step
  BY <1>1 DEF Renderer, Step
<1> QED
  BY <1>2 DEF Next, Step

\* The kinds of claims.
LEMMA Kinds ==
  ASSUME NEW c \in Claims
  PROVE  /\ Recorded(c) = "free" <=> c = "none"
         /\ Recorded(c) = "rejected" <=> c = "audit_failed"
         /\ Recorded(c) = "claimed" <=> c \in {"submitting", "submitted", "unknown"}
BY DEF Recorded, Claims

\* What an overlaid record is made of.
LEMMA OverlayParts ==
  ASSUME NEW old \in Flips, NEW new \in Flips
  PROVE  /\ Overlay(old, new) \in Flips
         /\ \/ Overlay(old, new) = old
            \/ /\ Overlay(old, new).type = new.type
               /\ Overlay(old, new).review = new.review
               /\ Overlay(old, new).claim = IF new.claim = "none" THEN old.claim ELSE new.claim
BY DEF Overlay, Flips

\* The list page persists its copy with another type: what is stored stays true, and
\* the claim stays of its kind.
LEMMA UpdateKept ==
  ASSUME Inv, NEW d \in Drafts,
         FlipSent(d) \/ Mined(d) \/ TxNull(d) \/ DeleteSent(d) \/ DeleteMined(d) \/ Archive(d)
  PROVE  /\ Inv'
         /\ autoSent' = autoSent /\ rewrites' = rewrites
         /\ \A x \in Drafts : rewrites = 0 =>
              Recorded(store'[x].claim) = Recorded(store[x].claim)
<1>1. PICK type \in Types, panel \in Panels \ Shown :
        /\ Update(d, type, panel) /\ ui[d] # "closed"
        /\ type = "published" => onNode[d] # "none"
  BY DEF FlipSent, Mined, InBlock, TxNull, DeleteSent, DeleteMined, Archive, Types,
         Panels, Shown
<1> DEFINE new  == [copy[d] EXCEPT !.type = type]
           next == Overlay(store[d], new)
<1>2. /\ copy[d] \in Flips /\ Sound(d, copy[d])
      /\ rewrites = 0 /\ copy[d].claim # "none" =>
           Recorded(copy[d].claim) = Recorded(store[d].claim)
      /\ store \in [Drafts -> Flips] /\ Sound(d, store[d])
  BY <1>1 DEF Inv, CopyInv, StoreInv, TypeOK
<1>3. new \in Flips /\ new.type = type /\ new.review = copy[d].review /\ new.claim = copy[d].claim
  BY <1>1, <1>2 DEF Flips
<1> HIDE DEF new
<1>4. /\ next \in Flips
      /\ \/ next = store[d]
         \/ /\ next.type = type /\ next.review = copy[d].review
            /\ next.claim = IF copy[d].claim = "none" THEN store[d].claim ELSE copy[d].claim
  <2>1. store[d] \in Flips
    BY <1>2
  <2> QED
    BY <2>1, <1>3, OverlayParts
<1>5. /\ store' = [store EXCEPT ![d] = next]
      /\ ui' = [ui EXCEPT ![d] = panel] /\ copy' = [copy EXCEPT ![d] = new]
  BY <1>1, <1>2 DEF Update, Persist, TypeOK, Inv, new
<1>6. UNCHANGED <<epoch, period, onNode, up, publishing, pc, view, target, page, rewrite,
                  viewed, autoSent, handSent, crashes, edits, rewrites>>
  BY <1>1 DEF Update, Main, chain, process, counters
<1> HIDE DEF next
<1>7. Sound(d, next) /\ Sound(d, new)
  BY <1>1, <1>2, <1>3, <1>4 DEF Sound
<1>8. rewrites = 0 => Recorded(next.claim) = Recorded(store[d].claim)
  BY <1>2, <1>4
<1>9. /\ store' \in [Drafts -> Flips] /\ store'[d] = next
      /\ \A x \in Drafts : x # d => store'[x] = store[x]
  BY <1>2, <1>4, <1>5
<1>10. \A x \in Drafts : rewrites = 0 => Recorded(store'[x].claim) = Recorded(store[x].claim)
  BY <1>8, <1>9
<1>11. TypeOK'
  BY <1>3, <1>5, <1>6, <1>9 DEF Inv, TypeOK
<1>12. ClockInv' /\ LatchInv'
  BY <1>6 DEF Inv, ClockInv, LatchInv
<1>13. StoreInv'
  BY <1>6, <1>7, <1>9 DEF Inv, StoreInv, Sound
<1>14. RewriteInv'
  BY <1>6 DEF Inv, RewriteInv, Sound
<1>15. CopyInv'
  <2> SUFFICES ASSUME NEW x \in Drafts, ui'[x] # "closed"
               PROVE  /\ copy'[x] \in Flips /\ Sound(x, copy[x])'
                      /\ rewrites' = 0 /\ copy'[x].claim # "none" =>
                           Recorded(copy'[x].claim) = Recorded(store'[x].claim)
    BY DEF CopyInv
  <2>1. CASE x = d
    <3>1. copy'[x] = new
      BY <2>1, <1>5 DEF Inv, TypeOK
    <3> QED
      BY <2>1, <3>1, <1>2, <1>3, <1>6, <1>7, <1>10 DEF Sound
  <2>2. CASE x # d
    <3>1. copy'[x] = copy[x] /\ ui'[x] = ui[x]
      BY <2>2, <1>5 DEF Inv, TypeOK
    <3> QED
      BY <2>2, <3>1, <1>6, <1>10 DEF Inv, CopyInv, Sound
  <2> QED
    BY <2>1, <2>2
<1>16. PanelInv'
  BY <1>1, <1>5, <1>6 DEF Inv, PanelInv, TypeOK
<1>17. TargetInv'
  BY <1>6, <1>10 DEF Inv, TargetInv
<1>18. ClaimInv'
  BY <1>6, <1>10 DEF Inv, ClaimInv
<1>19. OnlyViewedSubmitted'
  BY <1>6 DEF Inv, OnlyViewedSubmitted
<1>20. TraceInv'
  BY <1>6, <1>9, <1>10, <1>2, Kinds DEF Inv, TraceInv, Flips
<1> QED
  BY <1>6, <1>10, <1>11, <1>12, <1>13, <1>14, <1>15, <1>16, <1>17, <1>18, <1>19, <1>20 DEF Inv

\* A claim is set if there is a record, and nothing else of it changes.
LEMMA SetClaimEffect ==
  ASSUME store \in [Drafts -> Flips], NEW d \in Drafts, NEW status \in Claims,
         SetClaim(d, status)
  PROVE  IF store[d].type = "gone" THEN UNCHANGED store
         ELSE Stored(d, store[d].type, status, store[d].review)
<1>1. store' = [store EXCEPT ![d] = IF store[d].type = "gone" THEN store[d]
                                    ELSE [store[d] EXCEPT !.claim = status]]
  BY DEF SetClaim, Write
<1> QED
  BY <1>1 DEF Stored, Flips

\* The effects, action by action.
LEMMA EffectsHold ==
  ASSUME Inv
  PROVE  Effects
<1>1. store \in [Drafts -> Flips] /\ copy \in [Drafts -> Flips \cup {None}]
  BY DEF Inv, TypeOK
<1>2. ASSUME NEW t \in Ticks, ClaimDraft(t)
     PROVE  ClaimEffect(t)
  <2>1. PICK d \in Drafts :
          /\ store[d].claim = "none" /\ ~store[d].review
          /\ store[d].type = "draft"
          /\ target' = [target EXCEPT ![t] = d] /\ SetClaim(d, "submitting")
    BY <1>2 DEF ClaimDraft, First, Pending
  <2> QED
    BY <1>1, <2>1, SetClaimEffect DEF Claims, ClaimEffect
<1>3. ASSUME NEW t \in Ticks, AuditFails(t)
     PROVE  AuditEffect
  <2>1. PICK d \in Drafts :
          store[d].claim = "none" /\ store[d].type = "draft" /\ SetClaim(d, "audit_failed")
    BY <1>3 DEF AuditFails, First, Pending
  <2> QED
    BY <1>1, <2>1, SetClaimEffect DEF Claims, AuditEffect
<1>4. ASSUME NEW t \in Ticks, Published(t) \/ OutcomeUnknown(t)
     PROVE  target[t] \in Drafts
  BY <1>4 DEF Published, OutcomeUnknown, Inv, TargetInv, Working
<1>5. ASSUME NEW t \in Ticks, Published(t)
     PROVE  PublishedEffect(target[t])
  <2>1. target[t] \in Drafts
    BY <1>4, <1>5
  <2>2. store' = [store EXCEPT ![target[t]] =
                    IF store[target[t]].type = "gone" THEN store[target[t]]
                    ELSE [store[target[t]] EXCEPT !.type = "published",
                                                  !.claim = "submitted"]]
    BY <1>5 DEF Published, Write
  <2> DEFINE old == store[target[t]]
             new == [old EXCEPT !.type = "published", !.claim = "submitted"]
  <2>3. old \in Flips
    BY <1>1, <2>1
  <2>4. /\ new \in Flips
        /\ new.type = "published" /\ new.claim = "submitted" /\ new.review = old.review
    BY <2>3 DEF Flips, Types, Claims
  <2> HIDE DEF new
  <2>5. CASE old.type = "gone"
    <3>1. UNCHANGED store
      BY <1>1, <2>2, <2>5
    <3> QED
      BY <2>1, <3>1 DEF PublishedEffect
  <2>6. CASE old.type # "gone"
    <3>1. store' = [store EXCEPT ![target[t]] = new]
      BY <2>2, <2>6 DEF new
    <3>2. Stored(target[t], "published", "submitted", old.review)
      BY <1>1, <2>1, <2>4, <3>1 DEF Stored
    <3> QED
      BY <2>1, <3>2 DEF PublishedEffect
  <2> QED
    BY <2>5, <2>6
<1>6. ASSUME NEW t \in Ticks, OutcomeUnknown(t)
     PROVE  UnknownEffect(target[t])
  <2> DEFINE status == IF store[target[t]].claim = "none" THEN "audit_failed" ELSE "unknown"
  <2>1. target[t] \in Drafts
    BY <1>4, <1>6
  <2>2. SetClaim(target[t], status) /\ status \in Claims
    BY <1>6 DEF OutcomeUnknown, Claims
  <2> HIDE DEF status
  <2>3. \/ UNCHANGED store
        \/ Stored(target[t], store[target[t]].type, status, store[target[t]].review)
    BY <1>1, <2>1, <2>2, SetClaimEffect
  <2> QED
    BY <2>1, <2>3 DEF UnknownEffect, status
<1>7. ASSUME NEW d \in Drafts, EditDraft(d)
     PROVE  EditEffect(d)
  <2>1. copy[d] \in Flips
    BY <1>7 DEF EditDraft, Editing, Inv, CopyInv
  <2>2. copy' = [copy EXCEPT ![d].content = "unaudited"]
    BY <1>7 DEF EditDraft
  <2>3. store' = [store EXCEPT ![d] =
                    IF store[d].type = "gone" THEN store[d]
                    ELSE [store[d] EXCEPT !.content = "unaudited", !.type = copy[d].type]]
    BY <1>7 DEF EditDraft, Write
  <2>4. UNCHANGED store \/ Stored(d, copy[d].type, store[d].claim, store[d].review)
    <3> DEFINE new == [store[d] EXCEPT !.content = "unaudited", !.type = copy[d].type]
    <3>1. store[d] \in Flips
      BY <1>1
    <3>2. /\ new \in Flips
          /\ new.type = copy[d].type /\ new.claim = store[d].claim
          /\ new.review = store[d].review
      BY <2>1, <3>1 DEF Flips, Contents
    <3> HIDE DEF new
    <3>3. CASE store[d].type = "gone"
      BY <1>1, <2>3, <3>3
    <3>4. CASE store[d].type # "gone"
      <4>1. store' = [store EXCEPT ![d] = new]
        BY <2>3, <3>4 DEF new
      <4> QED
        BY <1>1, <3>2, <4>1 DEF Stored
    <3> QED
      BY <3>3, <3>4
  <2> QED
    BY <1>1, <2>1, <2>2, <2>4 DEF EditEffect, Flips, Contents
<1>8. ASSUME NEW d \in Drafts, Review(d)
     PROVE  ReviewEffect(d)
  BY <1>1, <1>8 DEF Review, ReviewEffect, Stored, Flips
<1>9. ASSUME NEW flips \in [Drafts -> Flips], store' \in Rewritten(flips)
     PROVE  RewriteEffect(flips)
  <2>1. PICK outdated \in SUBSET Drafts :
          store' = WithoutOutdated(flips, outdated) \/ store' = Archived(flips)
    BY <1>9 DEF Rewritten
  <2> QED
    BY <2>1 DEF RewriteEffect, WithoutOutdated, Archived, Flips, Types
<1>10. RewriteAtOnce => RewriteEffect(store)
  BY <1>1, <1>9 DEF RewriteAtOnce
<1>11. RewriteSaves => RewriteEffect(rewrite)
  BY <1>9 DEF RewriteSaves, Inv, TypeOK
<1> QED
  BY <1>2, <1>3, <1>5, <1>6, <1>7, <1>8, <1>10, <1>11 DEF Effects

\* Every step keeps the types: what a page persists is the copy it opened.
LEMMA TypeOKKept ==
  ASSUME Inv, Next
  PROVE  TypeOK'
<1>1. Effects
  BY EffectsHold
<1> USE Bounds DEF Inv, TypeOK, Waits, TargetInv, Working, ClockInv
<1>2. ASSUME NEW t \in Ticks, StartPublish(t)
     PROVE  TypeOK'
  BY <1>2 DEF StartPublish, Main, chain, process, renderer, counters
<1>3. ASSUME NEW t \in Ticks, NothingPublished(t)
     PROVE  TypeOK'
  BY <1>3 DEF NothingPublished, Leave, Main, chain, process, renderer, counters
<1>4. ASSUME NEW t \in Ticks, ClaimDraft(t)
     PROVE  TypeOK'
  <2>1. ClaimEffect(t)
    BY <1>1, <1>4 DEF Effects
  <2> QED
    BY <1>4, <2>1
    DEF ClaimEffect, Stored, ClaimDraft, SnapshotUsable, Main, chain, process,
      renderer, counters
<1>5. ASSUME NEW t \in Ticks, AuditFails(t)
     PROVE  TypeOK'
  <2>1. AuditEffect
    BY <1>1, <1>5 DEF Effects
  <2> QED
    BY <1>5, <2>1
    DEF AuditEffect, Stored, AuditFails, SnapshotUsable, Leave, Main, chain, process,
      renderer, counters
<1>6. ASSUME NEW t \in Ticks, SubmitFlip(t)
     PROVE  TypeOK'
  BY <1>6
  DEF SubmitFlip, NodeAnswers, PairUsed, Fates, Main, chain, process, renderer,
      counters
<1>7. ASSUME NEW t \in Ticks, Published(t)
     PROVE  TypeOK'
  <2>1. PublishedEffect(target[t])
    BY <1>1, <1>7 DEF Effects
  <2> QED
    BY <1>7, <2>1
    DEF PublishedEffect, Stored, Published, Leave, Main, chain, process, renderer,
      counters
<1>8. ASSUME NEW t \in Ticks, OutcomeUnknown(t)
     PROVE  TypeOK'
  <2>1. UnknownEffect(target[t])
    BY <1>1, <1>8 DEF Effects
  <2> QED
    BY <1>8, <2>1
    DEF UnknownEffect, Stored, OutcomeUnknown, Leave, Main, chain, process, renderer,
      counters
<1>9. ASSUME OpenList \/ CloseList
     PROVE  TypeOK'
  BY <1>9 DEF OpenList, Listed, Panels, CloseList, Main, chain, process, renderer, counters
<1>10. ASSUME NEW d \in Drafts, OpenEditor(d)
     PROVE  TypeOK'
  BY <1>10 DEF OpenEditor, Panels, Main, chain, process, renderer, counters
<1>11. ASSUME NEW d \in Drafts, EditDraft(d)
     PROVE  TypeOK'
  <2>1. EditEffect(d)
    BY <1>1, <1>11 DEF Effects
  <2> QED
    BY <1>11, <2>1
    DEF EditEffect, Stored, EditDraft, Editing, Main, chain, process, renderer,
      counters
<1>12. ASSUME NEW d \in Drafts, Publish(d)
     PROVE  TypeOK'
  BY <1>12 DEF Publish, Editing, Panels, Main, chain, process, renderer, counters
<1>13. ASSUME NEW d \in Drafts, SendFlip(d)
     PROVE  TypeOK'
  BY <1>13
  DEF SendFlip, NodeAnswers, PairUsed, Panels, Fates, Main, chain, process, renderer,
      counters
<1>14. ASSUME NEW d \in Drafts, SendFailed(d)
     PROVE  TypeOK'
  BY <1>14 DEF SendFailed, Panels, Main, chain, process, renderer, counters
<1>15. ASSUME NEW d \in Drafts,
              FlipSent(d) \/ Mined(d) \/ TxNull(d) \/ DeleteSent(d) \/
                DeleteMined(d) \/ Archive(d)
     PROVE  TypeOK'
  BY <1>15, UpdateKept DEF Inv
<1>16. ASSUME NEW d \in Drafts, Delete(d)
     PROVE  TypeOK'
  BY <1>16 DEF Delete, Panels, Main, chain, process, renderer, counters
<1>17. ASSUME NEW d \in Drafts, SendDelete(d)
     PROVE  TypeOK'
  BY <1>17 DEF SendDelete, Panels, Fates, Main, chain, process, renderer, counters
<1>18. ASSUME NEW d \in Drafts, Review(d)
     PROVE  TypeOK'
  <2>1. ReviewEffect(d)
    BY <1>1, <1>18 DEF Effects
  <2> QED
    BY <1>18, <2>1
    DEF ReviewEffect, Stored, Review, Main, chain, process, renderer, counters
<1>19. ASSUME RewriteReads
     PROVE  TypeOK'
  BY <1>19 DEF RewriteReads, Main, chain, process, renderer, counters
<1>20. ASSUME RewriteAtOnce
     PROVE  TypeOK'
  <2>1. RewriteEffect(store)
    BY <1>1, <1>20 DEF Effects
  <2> QED
    BY <1>20, <2>1
    DEF RewriteEffect, Stored, RewriteAtOnce, Main, chain, process, renderer,
      counters
<1>21. ASSUME RewriteSaves
     PROVE  TypeOK'
  <2>1. RewriteEffect(rewrite)
    BY <1>1, <1>21 DEF Effects
  <2> QED
    BY <1>21, <2>1
    DEF RewriteEffect, Stored, RewriteSaves, Main, chain, process, renderer,
      counters
<1>22. ASSUME Crash
     PROVE  TypeOK'
  <2>1. view' \in [Ticks -> ({"None", "Session"} \X (1..MaxEpoch)) \cup {None}]
    BY <1>22 DEF Crash
  <2>2. pc' \in [Ticks -> Waits] /\ target' \in [Ticks -> Drafts \cup {None}]
    BY <1>22 DEF Crash
  <2>3. ui' \in [Drafts -> Panels] /\ copy' \in [Drafts -> Flips \cup {None}]
    BY <1>22 DEF Crash, Panels
  <2>4. up' \in BOOLEAN /\ publishing' \in BOOLEAN /\ page' \in {"none", "list", "editor"}
    BY <1>22 DEF Crash
  <2>5. rewrite' \in [Drafts -> Flips] \cup {None}
    BY <1>22 DEF Crash
  <2>6. crashes' \in 0..MaxCrashes
    BY <1>22 DEF Crash
  <2>7. UNCHANGED <<epoch, period, onNode, store, viewed, autoSent, handSent, edits, rewrites>>
    BY <1>22 DEF Crash, chain
  <2> QED
    BY <2>1, <2>2, <2>3, <2>4, <2>5, <2>6, <2>7
<1>23. ASSUME Restart
     PROVE  TypeOK'
  BY <1>23 DEF Restart, Main, chain, process, renderer, counters
<1>24. ASSUME SessionBegins
     PROVE  TypeOK'
  BY <1>24 DEF SessionBegins, Main, chain, process, renderer, counters
<1>25. ASSUME SessionEnds
     PROVE  TypeOK'
  BY <1>25 DEF SessionEnds, Main, chain, process, renderer, counters
<1>26. ASSUME Mine
     PROVE  TypeOK'
  BY <1>26 DEF Mine, Fates, Main, chain, process, renderer, counters
<1> QED
  BY <1>2, <1>3, <1>4, <1>5, <1>6, <1>7, <1>8, <1>9, <1>10, <1>11, <1>12, <1>13,
      <1>14, <1>15, <1>16, <1>17, <1>18, <1>19, <1>20, <1>21, <1>22, <1>23, <1>24,
      <1>25, <1>26, NextIsStep
  DEF Step, MainProcess, Handle

\* Every step keeps sessions to epochs with a successor.
LEMMA ClockInvKept ==
  ASSUME Inv, Next
  PROVE  ClockInv'
<1> USE Bounds DEF Inv, TypeOK, ClockInv
<1>1. ASSUME NEW t \in Ticks, StartPublish(t) \/ NothingPublished(t)
     PROVE  ClockInv'
  BY <1>1
  DEF StartPublish, NothingPublished, Leave, Main, chain, process, renderer,
      counters
<1>2. ASSUME NEW t \in Ticks, ClaimDraft(t)
     PROVE  ClockInv'
  BY <1>2 DEF ClaimDraft, SnapshotUsable, Main, chain, process, renderer, counters
<1>3. ASSUME NEW t \in Ticks, AuditFails(t)
     PROVE  ClockInv'
  BY <1>3
  DEF AuditFails, SnapshotUsable, Leave, Main, chain, process, renderer, counters
<1>4. ASSUME NEW t \in Ticks, SubmitFlip(t)
     PROVE  ClockInv'
  BY <1>4
  DEF SubmitFlip, NodeAnswers, PairUsed, Main, chain, process, renderer, counters
<1>5. ASSUME NEW t \in Ticks, Published(t)
     PROVE  ClockInv'
  BY <1>5 DEF Published, Leave, Main, chain, process, renderer, counters
<1>6. ASSUME NEW t \in Ticks, OutcomeUnknown(t)
     PROVE  ClockInv'
  BY <1>6 DEF OutcomeUnknown, Leave, Main, chain, process, renderer, counters
<1>7. ASSUME OpenList \/ CloseList
     PROVE  ClockInv'
  BY <1>7 DEF OpenList, Listed, CloseList, Main, chain, process, renderer, counters
<1>8. ASSUME NEW d \in Drafts, OpenEditor(d)
     PROVE  ClockInv'
  BY <1>8 DEF OpenEditor, Main, chain, process, renderer, counters
<1>9. ASSUME NEW d \in Drafts, EditDraft(d)
     PROVE  ClockInv'
  BY <1>9 DEF EditDraft, Editing, Main, chain, process, renderer, counters
<1>10. ASSUME NEW d \in Drafts, Publish(d) \/ SendFlip(d) \/ SendFailed(d)
     PROVE  ClockInv'
  BY <1>10
  DEF Publish, Editing, SendFlip, NodeAnswers, PairUsed, SendFailed, Main, chain,
      process, renderer, counters
<1>11. ASSUME NEW d \in Drafts,
              FlipSent(d) \/ Mined(d) \/ TxNull(d) \/ DeleteSent(d) \/
                DeleteMined(d) \/ Archive(d)
     PROVE  ClockInv'
  BY <1>11, UpdateKept DEF Inv
<1>12. ASSUME NEW d \in Drafts, Delete(d) \/ SendDelete(d)
     PROVE  ClockInv'
  BY <1>12 DEF Delete, SendDelete, Main, chain, process, renderer, counters
<1>13. ASSUME NEW d \in Drafts, Review(d)
     PROVE  ClockInv'
  BY <1>13 DEF Review, Main, chain, process, renderer, counters
<1>14. ASSUME RewriteReads
     PROVE  ClockInv'
  BY <1>14 DEF RewriteReads, Main, chain, process, renderer, counters
<1>15. ASSUME RewriteAtOnce
     PROVE  ClockInv'
  BY <1>15 DEF RewriteAtOnce, Main, chain, process, renderer, counters
<1>16. ASSUME RewriteSaves
     PROVE  ClockInv'
  BY <1>16 DEF RewriteSaves, Main, chain, process, renderer, counters
<1>17. ASSUME Crash \/ Restart
     PROVE  ClockInv'
  BY <1>17 DEF Crash, Restart, Main, chain, process, renderer, counters
<1>18. ASSUME SessionBegins \/ SessionEnds \/ Mine
     PROVE  ClockInv'
  BY <1>18
  DEF SessionBegins, SessionEnds, Mine, Main, chain, process, renderer, counters
<1> QED
  BY <1>1, <1>2, <1>3, <1>4, <1>5, <1>6, <1>7, <1>8, <1>9, <1>10, <1>11, <1>12,
      <1>13, <1>14, <1>15, <1>16, <1>17, <1>18, NextIsStep
  DEF Step, MainProcess, Handle

\* Every step keeps the latch: it opens when its activation ends.
LEMMA LatchInvKept ==
  ASSUME Inv, Next
  PROVE  LatchInv'
<1> USE DEF Inv, TypeOK, LatchInv, Waits
<1>1. ASSUME NEW t \in Ticks, StartPublish(t) \/ NothingPublished(t)
     PROVE  LatchInv'
  BY <1>1
  DEF StartPublish, NothingPublished, Leave, Main, chain, process, renderer,
      counters
<1>2. ASSUME NEW t \in Ticks, ClaimDraft(t)
     PROVE  LatchInv'
  BY <1>2 DEF ClaimDraft, SnapshotUsable, Main, chain, process, renderer, counters
<1>3. ASSUME NEW t \in Ticks, AuditFails(t)
     PROVE  LatchInv'
  BY <1>3
  DEF AuditFails, SnapshotUsable, Leave, Main, chain, process, renderer, counters
<1>4. ASSUME NEW t \in Ticks, SubmitFlip(t)
     PROVE  LatchInv'
  BY <1>4
  DEF SubmitFlip, NodeAnswers, PairUsed, Main, chain, process, renderer, counters
<1>5. ASSUME NEW t \in Ticks, Published(t)
     PROVE  LatchInv'
  BY <1>5 DEF Published, Leave, Main, chain, process, renderer, counters
<1>6. ASSUME NEW t \in Ticks, OutcomeUnknown(t)
     PROVE  LatchInv'
  BY <1>6 DEF OutcomeUnknown, Leave, Main, chain, process, renderer, counters
<1>7. ASSUME OpenList \/ CloseList
     PROVE  LatchInv'
  BY <1>7 DEF OpenList, Listed, CloseList, Main, chain, process, renderer, counters
<1>8. ASSUME NEW d \in Drafts, OpenEditor(d)
     PROVE  LatchInv'
  BY <1>8 DEF OpenEditor, Main, chain, process, renderer, counters
<1>9. ASSUME NEW d \in Drafts, EditDraft(d)
     PROVE  LatchInv'
  BY <1>9 DEF EditDraft, Editing, Main, chain, process, renderer, counters
<1>10. ASSUME NEW d \in Drafts, Publish(d) \/ SendFlip(d) \/ SendFailed(d)
     PROVE  LatchInv'
  BY <1>10
  DEF Publish, Editing, SendFlip, NodeAnswers, PairUsed, SendFailed, Main, chain,
      process, renderer, counters
<1>11. ASSUME NEW d \in Drafts,
              FlipSent(d) \/ Mined(d) \/ TxNull(d) \/ DeleteSent(d) \/
                DeleteMined(d) \/ Archive(d)
     PROVE  LatchInv'
  BY <1>11, UpdateKept DEF Inv
<1>12. ASSUME NEW d \in Drafts, Delete(d) \/ SendDelete(d)
     PROVE  LatchInv'
  BY <1>12 DEF Delete, SendDelete, Main, chain, process, renderer, counters
<1>13. ASSUME NEW d \in Drafts, Review(d)
     PROVE  LatchInv'
  BY <1>13 DEF Review, Main, chain, process, renderer, counters
<1>14. ASSUME RewriteReads
     PROVE  LatchInv'
  BY <1>14 DEF RewriteReads, Main, chain, process, renderer, counters
<1>15. ASSUME RewriteAtOnce
     PROVE  LatchInv'
  BY <1>15 DEF RewriteAtOnce, Main, chain, process, renderer, counters
<1>16. ASSUME RewriteSaves
     PROVE  LatchInv'
  BY <1>16 DEF RewriteSaves, Main, chain, process, renderer, counters
<1>17. ASSUME Crash \/ Restart
     PROVE  LatchInv'
  BY <1>17 DEF Crash, Restart, Main, chain, process, renderer, counters
<1>18. ASSUME SessionBegins \/ SessionEnds \/ Mine
     PROVE  LatchInv'
  BY <1>18
  DEF SessionBegins, SessionEnds, Mine, Main, chain, process, renderer, counters
<1> QED
  BY <1>1, <1>2, <1>3, <1>4, <1>5, <1>6, <1>7, <1>8, <1>9, <1>10, <1>11, <1>12,
      <1>13, <1>14, <1>15, <1>16, <1>17, <1>18, NextIsStep
  DEF Step, MainProcess, Handle

\* Every step keeps what the store says true.
LEMMA StoreInvKept ==
  ASSUME Inv, Next
  PROVE  StoreInv'
<1>1. Effects
  BY EffectsHold
<1> USE Bounds DEF Inv, TypeOK, StoreInv, Sound, RewriteInv, CopyInv,
      TargetInv, Working
<1>2. ASSUME NEW t \in Ticks, StartPublish(t) \/ NothingPublished(t)
     PROVE  StoreInv'
  BY <1>2
  DEF StartPublish, NothingPublished, Leave, Main, chain, process, renderer,
      counters
<1>3. ASSUME NEW t \in Ticks, ClaimDraft(t)
     PROVE  StoreInv'
  <2>1. ClaimEffect(t)
    BY <1>1, <1>3 DEF Effects
  <2> QED
    BY <1>3, <2>1
    DEF ClaimEffect, Stored, ClaimDraft, SnapshotUsable, Main, chain, process,
      renderer, counters
<1>4. ASSUME NEW t \in Ticks, AuditFails(t)
     PROVE  StoreInv'
  <2>1. AuditEffect
    BY <1>1, <1>4 DEF Effects
  <2> QED
    BY <1>4, <2>1
    DEF AuditEffect, Stored, AuditFails, SnapshotUsable, Leave, Main, chain, process,
      renderer, counters
<1>5. ASSUME NEW t \in Ticks, SubmitFlip(t)
     PROVE  StoreInv'
  BY <1>5
  DEF SubmitFlip, NodeAnswers, PairUsed, Main, chain, process, renderer, counters
<1>6. ASSUME NEW t \in Ticks, Published(t)
     PROVE  StoreInv'
  <2>1. PublishedEffect(target[t])
    BY <1>1, <1>6 DEF Effects
  <2> QED
    BY <1>6, <2>1
    DEF PublishedEffect, Stored, Published, Leave, Main, chain, process, renderer,
      counters
<1>7. ASSUME NEW t \in Ticks, OutcomeUnknown(t)
     PROVE  StoreInv'
  <2>1. UnknownEffect(target[t])
    BY <1>1, <1>7 DEF Effects
  <2> QED
    BY <1>7, <2>1
    DEF UnknownEffect, Stored, OutcomeUnknown, Leave, Main, chain, process, renderer,
      counters
<1>8. ASSUME OpenList \/ CloseList
     PROVE  StoreInv'
  BY <1>8 DEF OpenList, Listed, CloseList, Main, chain, process, renderer, counters
<1>9. ASSUME NEW d \in Drafts, OpenEditor(d)
     PROVE  StoreInv'
  BY <1>9 DEF OpenEditor, Main, chain, process, renderer, counters
<1>10. ASSUME NEW d \in Drafts, EditDraft(d)
     PROVE  StoreInv'
  <2>1. EditEffect(d)
    BY <1>1, <1>10 DEF Effects
  <2> QED
    BY <1>10, <2>1
    DEF EditEffect, Stored, EditDraft, Editing, Main, chain, process, renderer,
      counters
<1>11. ASSUME NEW d \in Drafts, Publish(d) \/ SendFlip(d) \/ SendFailed(d)
     PROVE  StoreInv'
  BY <1>11
  DEF Publish, Editing, SendFlip, NodeAnswers, PairUsed, SendFailed, Main, chain,
      process, renderer, counters
<1>12. ASSUME NEW d \in Drafts,
              FlipSent(d) \/ Mined(d) \/ TxNull(d) \/ DeleteSent(d) \/
                DeleteMined(d) \/ Archive(d)
     PROVE  StoreInv'
  BY <1>12, UpdateKept DEF Inv
<1>13. ASSUME NEW d \in Drafts, Delete(d) \/ SendDelete(d)
     PROVE  StoreInv'
  BY <1>13 DEF Delete, SendDelete, Main, chain, process, renderer, counters
<1>14. ASSUME NEW d \in Drafts, Review(d)
     PROVE  StoreInv'
  <2>1. ReviewEffect(d)
    BY <1>1, <1>14 DEF Effects
  <2> QED
    BY <1>14, <2>1
    DEF ReviewEffect, Stored, Review, Main, chain, process, renderer, counters
<1>15. ASSUME RewriteReads
     PROVE  StoreInv'
  BY <1>15 DEF RewriteReads, Main, chain, process, renderer, counters
<1>16. ASSUME RewriteAtOnce
     PROVE  StoreInv'
  <2>1. RewriteEffect(store)
    BY <1>1, <1>16 DEF Effects
  <2> QED
    BY <1>16, <2>1
    DEF RewriteEffect, Stored, RewriteAtOnce, Main, chain, process, renderer,
      counters
<1>17. ASSUME RewriteSaves
     PROVE  StoreInv'
  <2>1. RewriteEffect(rewrite)
    BY <1>1, <1>17 DEF Effects
  <2> QED
    BY <1>17, <2>1
    DEF RewriteEffect, Stored, RewriteSaves, Main, chain, process, renderer,
      counters
<1>18. ASSUME Crash \/ Restart
     PROVE  StoreInv'
  BY <1>18 DEF Crash, Restart, Main, chain, process, renderer, counters
<1>19. ASSUME SessionBegins \/ SessionEnds \/ Mine
     PROVE  StoreInv'
  BY <1>19
  DEF SessionBegins, SessionEnds, Mine, Main, chain, process, renderer, counters
<1> QED
  BY <1>2, <1>3, <1>4, <1>5, <1>6, <1>7, <1>8, <1>9, <1>10, <1>11, <1>12, <1>13,
      <1>14, <1>15, <1>16, <1>17, <1>18, <1>19, NextIsStep
  DEF Step, MainProcess, Handle

\* Every step keeps what a rewrite has read true: nothing leaves the node for good.
LEMMA RewriteInvKept ==
  ASSUME Inv, Next
  PROVE  RewriteInv'
<1>1. Effects
  BY EffectsHold
<1> USE Bounds DEF Inv, TypeOK, StoreInv, Sound, RewriteInv
<1>2. ASSUME NEW t \in Ticks, StartPublish(t) \/ NothingPublished(t)
     PROVE  RewriteInv'
  BY <1>2
  DEF StartPublish, NothingPublished, Leave, Main, chain, process, renderer,
      counters
<1>3. ASSUME NEW t \in Ticks, ClaimDraft(t)
     PROVE  RewriteInv'
  <2>1. ClaimEffect(t)
    BY <1>1, <1>3 DEF Effects
  <2> QED
    BY <1>3, <2>1
    DEF ClaimEffect, Stored, ClaimDraft, SnapshotUsable, Main, chain, process,
      renderer, counters
<1>4. ASSUME NEW t \in Ticks, AuditFails(t)
     PROVE  RewriteInv'
  <2>1. AuditEffect
    BY <1>1, <1>4 DEF Effects
  <2> QED
    BY <1>4, <2>1
    DEF AuditEffect, Stored, AuditFails, SnapshotUsable, Leave, Main, chain, process,
      renderer, counters
<1>5. ASSUME NEW t \in Ticks, SubmitFlip(t)
     PROVE  RewriteInv'
  BY <1>5
  DEF SubmitFlip, NodeAnswers, PairUsed, Main, chain, process, renderer, counters
<1>6. ASSUME NEW t \in Ticks, Published(t)
     PROVE  RewriteInv'
  <2>1. PublishedEffect(target[t])
    BY <1>1, <1>6 DEF Effects
  <2> QED
    BY <1>6, <2>1
    DEF PublishedEffect, Stored, Published, Leave, Main, chain, process, renderer,
      counters
<1>7. ASSUME NEW t \in Ticks, OutcomeUnknown(t)
     PROVE  RewriteInv'
  <2>1. UnknownEffect(target[t])
    BY <1>1, <1>7 DEF Effects
  <2> QED
    BY <1>7, <2>1
    DEF UnknownEffect, Stored, OutcomeUnknown, Leave, Main, chain, process, renderer,
      counters
<1>8. ASSUME OpenList \/ CloseList
     PROVE  RewriteInv'
  BY <1>8 DEF OpenList, Listed, CloseList, Main, chain, process, renderer, counters
<1>9. ASSUME NEW d \in Drafts, OpenEditor(d)
     PROVE  RewriteInv'
  BY <1>9 DEF OpenEditor, Main, chain, process, renderer, counters
<1>10. ASSUME NEW d \in Drafts, EditDraft(d)
     PROVE  RewriteInv'
  <2>1. EditEffect(d)
    BY <1>1, <1>10 DEF Effects
  <2> QED
    BY <1>10, <2>1
    DEF EditEffect, Stored, EditDraft, Editing, Main, chain, process, renderer,
      counters
<1>11. ASSUME NEW d \in Drafts, Publish(d) \/ SendFlip(d) \/ SendFailed(d)
     PROVE  RewriteInv'
  BY <1>11
  DEF Publish, Editing, SendFlip, NodeAnswers, PairUsed, SendFailed, Main, chain,
      process, renderer, counters
<1>12. ASSUME NEW d \in Drafts,
              FlipSent(d) \/ Mined(d) \/ TxNull(d) \/ DeleteSent(d) \/
                DeleteMined(d) \/ Archive(d)
     PROVE  RewriteInv'
  BY <1>12, UpdateKept DEF Inv
<1>13. ASSUME NEW d \in Drafts, Delete(d) \/ SendDelete(d)
     PROVE  RewriteInv'
  BY <1>13 DEF Delete, SendDelete, Main, chain, process, renderer, counters
<1>14. ASSUME NEW d \in Drafts, Review(d)
     PROVE  RewriteInv'
  <2>1. ReviewEffect(d)
    BY <1>1, <1>14 DEF Effects
  <2> QED
    BY <1>14, <2>1
    DEF ReviewEffect, Stored, Review, Main, chain, process, renderer, counters
<1>15. ASSUME RewriteReads
     PROVE  RewriteInv'
  BY <1>15 DEF RewriteReads, Main, chain, process, renderer, counters
<1>16. ASSUME RewriteAtOnce
     PROVE  RewriteInv'
  <2>1. RewriteEffect(store)
    BY <1>1, <1>16 DEF Effects
  <2> QED
    BY <1>16, <2>1
    DEF RewriteEffect, Stored, RewriteAtOnce, Main, chain, process, renderer,
      counters
<1>17. ASSUME RewriteSaves
     PROVE  RewriteInv'
  <2>1. RewriteEffect(rewrite)
    BY <1>1, <1>17 DEF Effects
  <2> QED
    BY <1>17, <2>1
    DEF RewriteEffect, Stored, RewriteSaves, Main, chain, process, renderer,
      counters
<1>18. ASSUME Crash \/ Restart
     PROVE  RewriteInv'
  BY <1>18 DEF Crash, Restart, Main, chain, process, renderer, counters
<1>19. ASSUME SessionBegins \/ SessionEnds \/ Mine
     PROVE  RewriteInv'
  BY <1>19
  DEF SessionBegins, SessionEnds, Mine, Main, chain, process, renderer, counters
<1> QED
  BY <1>2, <1>3, <1>4, <1>5, <1>6, <1>7, <1>8, <1>9, <1>10, <1>11, <1>12, <1>13,
      <1>14, <1>15, <1>16, <1>17, <1>18, <1>19, NextIsStep
  DEF Step, MainProcess, Handle

\* Copies stay true of a store in which a claim is set that was not set before.
LEMMA CopiesKept ==
  ASSUME Inv, UNCHANGED <<ui, copy, onNode, viewed, rewrites>>,
         \A x \in Drafts : rewrites = 0 =>
           \/ store[x].claim = "none"
           \/ Recorded(store'[x].claim) = Recorded(store[x].claim)
  PROVE  CopyInv'
<1> SUFFICES ASSUME NEW x \in Drafts, ui[x] # "closed"
             PROVE  /\ copy[x] \in Flips /\ Sound(x, copy[x])
                    /\ rewrites = 0 /\ copy[x].claim # "none" =>
                         Recorded(copy[x].claim) = Recorded(store'[x].claim)
  BY DEF CopyInv, Sound
<1>1. /\ copy[x] \in Flips /\ Sound(x, copy[x])
      /\ rewrites = 0 /\ copy[x].claim # "none" =>
           Recorded(copy[x].claim) = Recorded(store[x].claim)
  BY DEF Inv, CopyInv
<1>2. ASSUME rewrites = 0, copy[x].claim # "none"
     PROVE  store[x].claim # "none"
  <2>1. copy[x].claim \in Claims
    BY <1>1 DEF Flips
  <2>2. Recorded(copy[x].claim) # "free"
    BY <1>2, <2>1, Kinds
  <2> QED
    BY <1>1, <1>2, <2>2 DEF Recorded
<1> QED
  BY <1>1, <1>2

\* Every step keeps the copies of open pages true.
LEMMA CopyInvKept ==
  ASSUME Inv, Next
  PROVE  CopyInv'
<1>1. Effects
  BY EffectsHold
<1> USE Bounds, Kinds DEF Inv, TypeOK, Panels, StoreInv, Sound,
      RewriteInv, CopyInv, TargetInv, Working, LatchInv
<1>2. ASSUME NEW t \in Ticks, StartPublish(t) \/ NothingPublished(t)
     PROVE  CopyInv'
  BY <1>2
  DEF StartPublish, NothingPublished, Leave, Main, chain, process, renderer,
      counters
<1>3. ASSUME NEW t \in Ticks, ClaimDraft(t)
     PROVE  CopyInv'
  <2>1. ClaimEffect(t)
    BY <1>1, <1>3 DEF Effects
  <2>2. UNCHANGED <<ui, copy, onNode, viewed, rewrites>>
    BY <1>3 DEF ClaimDraft, renderer, counters
  <2>3. \A x \in Drafts : rewrites = 0 =>
          \/ store[x].claim = "none"
          \/ Recorded(store'[x].claim) = Recorded(store[x].claim)
    BY <2>1 DEF ClaimEffect, Stored
  <2> QED
    BY <2>2, <2>3, CopiesKept
<1>4. ASSUME NEW t \in Ticks, AuditFails(t)
     PROVE  CopyInv'
  <2>1. AuditEffect
    BY <1>1, <1>4 DEF Effects
  <2>2. UNCHANGED <<ui, copy, onNode, viewed, rewrites>>
    BY <1>4 DEF AuditFails, Leave, renderer, counters
  <2>3. \A x \in Drafts : rewrites = 0 =>
          \/ store[x].claim = "none"
          \/ Recorded(store'[x].claim) = Recorded(store[x].claim)
    BY <2>1 DEF AuditEffect, Stored
  <2> QED
    BY <2>2, <2>3, CopiesKept
<1>5. ASSUME NEW t \in Ticks, SubmitFlip(t)
     PROVE  CopyInv'
  BY <1>5
  DEF SubmitFlip, NodeAnswers, PairUsed, Main, chain, process, renderer, counters
<1>6. ASSUME NEW t \in Ticks, Published(t)
     PROVE  CopyInv'
  <2>1. PublishedEffect(target[t])
    BY <1>1, <1>6 DEF Effects
  <2>2. UNCHANGED <<ui, copy, onNode, viewed, rewrites>>
    BY <1>6 DEF Published, Leave, renderer, counters
  <2>3. \A x \in Drafts : rewrites = 0 =>
          \/ store[x].claim = "none"
          \/ Recorded(store'[x].claim) = Recorded(store[x].claim)
    BY <2>1, <1>6 DEF Published, PublishedEffect, Stored, Recorded
  <2> QED
    BY <2>2, <2>3, CopiesKept
<1>7. ASSUME NEW t \in Ticks, OutcomeUnknown(t)
     PROVE  CopyInv'
  <2>1. UnknownEffect(target[t])
    BY <1>1, <1>7 DEF Effects
  <2>2. UNCHANGED <<ui, copy, onNode, viewed, rewrites>>
    BY <1>7 DEF OutcomeUnknown, Leave, renderer, counters
  <2>3. \A x \in Drafts : rewrites = 0 =>
          \/ store[x].claim = "none"
          \/ Recorded(store'[x].claim) = Recorded(store[x].claim)
    BY <2>1, <1>7 DEF OutcomeUnknown, UnknownEffect, Stored, Recorded
  <2> QED
    BY <2>2, <2>3, CopiesKept
<1>8. ASSUME OpenList \/ CloseList
     PROVE  CopyInv'
  <2> SUFFICES ASSUME NEW x \in Drafts, ui'[x] # "closed"
               PROVE  /\ copy'[x] \in Flips /\ Sound(x, copy[x])'
                      /\ rewrites' = 0 /\ copy'[x].claim # "none" =>
                           Recorded(copy'[x].claim) = Recorded(store'[x].claim)
    BY DEF CopyInv
  <2>1. copy'[x] = store[x]
    BY <1>8 DEF OpenList, Listed, CloseList
  <2>2. UNCHANGED <<store, onNode, viewed, rewrites>>
    BY <1>8 DEF OpenList, CloseList, counters
  <2> QED
    BY <2>1, <2>2
<1>9. ASSUME NEW d \in Drafts, OpenEditor(d)
     PROVE  CopyInv'
  BY <1>9 DEF OpenEditor, Main, chain, process, renderer, counters
<1>10. ASSUME NEW d \in Drafts, EditDraft(d)
     PROVE  CopyInv'
  <2>1. EditEffect(d)
    BY <1>1, <1>10 DEF Effects
  <2>2. UNCHANGED <<ui, onNode, viewed, rewrites>>
    BY <1>10 DEF EditDraft
  <2>3. \A x \in Drafts : store'[x].claim = store[x].claim
    BY <2>1 DEF EditEffect, Stored
  <2> SUFFICES ASSUME NEW x \in Drafts, ui[x] # "closed"
               PROVE  /\ copy'[x] \in Flips /\ Sound(x, copy[x])'
                      /\ rewrites = 0 /\ copy'[x].claim # "none" =>
                           Recorded(copy'[x].claim) = Recorded(store[x].claim)
    BY <2>2, <2>3
  <2>4. CASE x = d
    BY <2>1, <2>2, <2>4, <1>10 DEF EditEffect
  <2>5. CASE x # d
    BY <2>1, <2>2, <2>5 DEF EditEffect
  <2> QED
    BY <2>4, <2>5
<1>11. ASSUME NEW d \in Drafts, Publish(d) \/ SendFlip(d) \/ SendFailed(d)
     PROVE  CopyInv'
  BY <1>11
  DEF Publish, Editing, SendFlip, NodeAnswers, PairUsed, SendFailed, Main, chain,
      process, renderer, counters
<1>12. ASSUME NEW d \in Drafts,
              FlipSent(d) \/ Mined(d) \/ TxNull(d) \/ DeleteSent(d) \/
                DeleteMined(d) \/ Archive(d)
     PROVE  CopyInv'
  BY <1>12, UpdateKept DEF Inv
<1>13. ASSUME NEW d \in Drafts, Delete(d) \/ SendDelete(d)
     PROVE  CopyInv'
  BY <1>13 DEF Delete, SendDelete, Main, chain, process, renderer, counters
<1>14. ASSUME NEW d \in Drafts, Review(d)
     PROVE  CopyInv'
  <2>1. ReviewEffect(d)
    BY <1>1, <1>14 DEF Effects
  <2> QED
    BY <1>14, <2>1
    DEF ReviewEffect, Stored, Review, Main, chain, process, renderer, counters
<1>15. ASSUME RewriteReads
     PROVE  CopyInv'
  BY <1>15 DEF RewriteReads, Main, chain, process, renderer, counters
<1>16. ASSUME RewriteAtOnce
     PROVE  CopyInv'
  <2>1. RewriteEffect(store)
    BY <1>1, <1>16 DEF Effects
  <2> QED
    BY <1>16, <2>1
    DEF RewriteEffect, Stored, RewriteAtOnce, Main, chain, process, renderer,
      counters
<1>17. ASSUME RewriteSaves
     PROVE  CopyInv'
  <2>1. RewriteEffect(rewrite)
    BY <1>1, <1>17 DEF Effects
  <2> QED
    BY <1>17, <2>1
    DEF RewriteEffect, Stored, RewriteSaves, Main, chain, process, renderer,
      counters
<1>18. ASSUME Crash \/ Restart
     PROVE  CopyInv'
  BY <1>18 DEF Crash, Restart, Main, chain, process, renderer, counters
<1>19. ASSUME SessionBegins \/ SessionEnds \/ Mine
     PROVE  CopyInv'
  BY <1>19
  DEF SessionBegins, SessionEnds, Mine, Main, chain, process, renderer, counters
<1> QED
  BY <1>2, <1>3, <1>4, <1>5, <1>6, <1>7, <1>8, <1>9, <1>10, <1>11, <1>12, <1>13,
      <1>14, <1>15, <1>16, <1>17, <1>18, <1>19, NextIsStep
  DEF Step, MainProcess, Handle

\* Only what was reviewed or opened in the editor is submitted by hand.
LEMMA PanelInvKept ==
  ASSUME Inv, Next
  PROVE  PanelInv'
<1>1. Effects
  BY EffectsHold
<1> USE DEF Inv, TypeOK, CopyInv, Sound, PanelInv, Shown
<1>2. ASSUME NEW t \in Ticks, StartPublish(t) \/ NothingPublished(t)
     PROVE  PanelInv'
  BY <1>2
  DEF StartPublish, NothingPublished, Leave, Main, chain, process, renderer,
      counters
<1>3. ASSUME NEW t \in Ticks, ClaimDraft(t)
     PROVE  PanelInv'
  <2>1. ClaimEffect(t)
    BY <1>1, <1>3 DEF Effects
  <2> QED
    BY <1>3, <2>1
    DEF ClaimEffect, Stored, ClaimDraft, SnapshotUsable, Main, chain, process,
      renderer, counters
<1>4. ASSUME NEW t \in Ticks, AuditFails(t)
     PROVE  PanelInv'
  <2>1. AuditEffect
    BY <1>1, <1>4 DEF Effects
  <2> QED
    BY <1>4, <2>1
    DEF AuditEffect, Stored, AuditFails, SnapshotUsable, Leave, Main, chain, process,
      renderer, counters
<1>5. ASSUME NEW t \in Ticks, SubmitFlip(t)
     PROVE  PanelInv'
  BY <1>5
  DEF SubmitFlip, NodeAnswers, PairUsed, Main, chain, process, renderer, counters
<1>6. ASSUME NEW t \in Ticks, Published(t)
     PROVE  PanelInv'
  <2>1. PublishedEffect(target[t])
    BY <1>1, <1>6 DEF Effects
  <2> QED
    BY <1>6, <2>1
    DEF PublishedEffect, Stored, Published, Leave, Main, chain, process, renderer,
      counters
<1>7. ASSUME NEW t \in Ticks, OutcomeUnknown(t)
     PROVE  PanelInv'
  <2>1. UnknownEffect(target[t])
    BY <1>1, <1>7 DEF Effects
  <2> QED
    BY <1>7, <2>1
    DEF UnknownEffect, Stored, OutcomeUnknown, Leave, Main, chain, process, renderer,
      counters
<1>8. ASSUME OpenList \/ CloseList
     PROVE  PanelInv'
  BY <1>8 DEF OpenList, Listed, CloseList, Main, chain, process, renderer, counters
<1>9. ASSUME NEW d \in Drafts, OpenEditor(d)
     PROVE  PanelInv'
  BY <1>9 DEF OpenEditor, Main, chain, process, renderer, counters
<1>10. ASSUME NEW d \in Drafts, EditDraft(d)
     PROVE  PanelInv'
  <2>1. EditEffect(d)
    BY <1>1, <1>10 DEF Effects
  <2> QED
    BY <1>10, <2>1
    DEF EditEffect, Stored, EditDraft, Editing, Main, chain, process, renderer,
      counters
<1>11. ASSUME NEW d \in Drafts, Publish(d) \/ SendFlip(d) \/ SendFailed(d)
     PROVE  PanelInv'
  BY <1>11
  DEF Publish, Editing, SendFlip, NodeAnswers, PairUsed, SendFailed, Main, chain,
      process, renderer, counters
<1>12. ASSUME NEW d \in Drafts,
              FlipSent(d) \/ Mined(d) \/ TxNull(d) \/ DeleteSent(d) \/
                DeleteMined(d) \/ Archive(d)
     PROVE  PanelInv'
  BY <1>12, UpdateKept DEF Inv
<1>13. ASSUME NEW d \in Drafts, Delete(d) \/ SendDelete(d)
     PROVE  PanelInv'
  BY <1>13 DEF Delete, SendDelete, Main, chain, process, renderer, counters
<1>14. ASSUME NEW d \in Drafts, Review(d)
     PROVE  PanelInv'
  <2>1. ReviewEffect(d)
    BY <1>1, <1>14 DEF Effects
  <2> QED
    BY <1>14, <2>1
    DEF ReviewEffect, Stored, Review, Main, chain, process, renderer, counters
<1>15. ASSUME RewriteReads
     PROVE  PanelInv'
  BY <1>15 DEF RewriteReads, Main, chain, process, renderer, counters
<1>16. ASSUME RewriteAtOnce
     PROVE  PanelInv'
  <2>1. RewriteEffect(store)
    BY <1>1, <1>16 DEF Effects
  <2> QED
    BY <1>16, <2>1
    DEF RewriteEffect, Stored, RewriteAtOnce, Main, chain, process, renderer,
      counters
<1>17. ASSUME RewriteSaves
     PROVE  PanelInv'
  <2>1. RewriteEffect(rewrite)
    BY <1>1, <1>17 DEF Effects
  <2> QED
    BY <1>17, <2>1
    DEF RewriteEffect, Stored, RewriteSaves, Main, chain, process, renderer,
      counters
<1>18. ASSUME Crash \/ Restart
     PROVE  PanelInv'
  BY <1>18 DEF Crash, Restart, Main, chain, process, renderer, counters
<1>19. ASSUME SessionBegins \/ SessionEnds \/ Mine
     PROVE  PanelInv'
  BY <1>19
  DEF SessionBegins, SessionEnds, Mine, Main, chain, process, renderer, counters
<1> QED
  BY <1>2, <1>3, <1>4, <1>5, <1>6, <1>7, <1>8, <1>9, <1>10, <1>11, <1>12, <1>13,
      <1>14, <1>15, <1>16, <1>17, <1>18, <1>19, NextIsStep
  DEF Step, MainProcess, Handle

\* Every step keeps what an activation works on.
LEMMA TargetInvKept ==
  ASSUME Inv, Next
  PROVE  TargetInv'
<1>1. Effects
  BY EffectsHold
<1> USE Bounds, Kinds DEF Inv, TypeOK, StoreInv, Sound, RewriteInv,
      CopyInv, TargetInv, Working, LatchInv, Claims, ClaimInv
<1>2. ASSUME NEW t \in Ticks, StartPublish(t) \/ NothingPublished(t)
     PROVE  TargetInv'
  BY <1>2
  DEF StartPublish, NothingPublished, Leave, Main, chain, process, renderer,
      counters
<1>3. ASSUME NEW t \in Ticks, ClaimDraft(t)
     PROVE  TargetInv'
  <2>1. ClaimEffect(t)
    BY <1>1, <1>3 DEF Effects
  <2> QED
    BY <1>3, <2>1
    DEF ClaimEffect, Stored, ClaimDraft, SnapshotUsable, Main, chain, process,
      renderer, counters
<1>4. ASSUME NEW t \in Ticks, AuditFails(t)
     PROVE  TargetInv'
  <2>1. AuditEffect
    BY <1>1, <1>4 DEF Effects
  <2> QED
    BY <1>4, <2>1
    DEF AuditEffect, Stored, AuditFails, SnapshotUsable, Leave, Main, chain, process,
      renderer, counters
<1>5. ASSUME NEW t \in Ticks, SubmitFlip(t)
     PROVE  TargetInv'
  BY <1>5
  DEF SubmitFlip, NodeAnswers, PairUsed, Main, chain, process, renderer, counters
<1>6. ASSUME NEW t \in Ticks, Published(t)
     PROVE  TargetInv'
  <2>1. PublishedEffect(target[t])
    BY <1>1, <1>6 DEF Effects
  <2> QED
    BY <1>6, <2>1
    DEF PublishedEffect, Stored, Published, Leave, Main, chain, process, renderer,
      counters
<1>7. ASSUME NEW t \in Ticks, OutcomeUnknown(t)
     PROVE  TargetInv'
  <2>1. UnknownEffect(target[t])
    BY <1>1, <1>7 DEF Effects
  <2> QED
    BY <1>7, <2>1
    DEF UnknownEffect, Stored, OutcomeUnknown, Leave, Main, chain, process, renderer,
      counters
<1>8. ASSUME OpenList \/ CloseList
     PROVE  TargetInv'
  BY <1>8 DEF OpenList, Listed, CloseList, Main, chain, process, renderer, counters
<1>9. ASSUME NEW d \in Drafts, OpenEditor(d)
     PROVE  TargetInv'
  BY <1>9 DEF OpenEditor, Main, chain, process, renderer, counters
<1>10. ASSUME NEW d \in Drafts, EditDraft(d)
     PROVE  TargetInv'
  <2>1. EditEffect(d)
    BY <1>1, <1>10 DEF Effects
  <2> QED
    BY <1>10, <2>1
    DEF EditEffect, Stored, EditDraft, Editing, Main, chain, process, renderer,
      counters
<1>11. ASSUME NEW d \in Drafts, Publish(d) \/ SendFlip(d) \/ SendFailed(d)
     PROVE  TargetInv'
  BY <1>11
  DEF Publish, Editing, SendFlip, NodeAnswers, PairUsed, SendFailed, Main, chain,
      process, renderer, counters
<1>12. ASSUME NEW d \in Drafts,
              FlipSent(d) \/ Mined(d) \/ TxNull(d) \/ DeleteSent(d) \/
                DeleteMined(d) \/ Archive(d)
     PROVE  TargetInv'
  BY <1>12, UpdateKept DEF Inv
<1>13. ASSUME NEW d \in Drafts, Delete(d) \/ SendDelete(d)
     PROVE  TargetInv'
  BY <1>13 DEF Delete, SendDelete, Main, chain, process, renderer, counters
<1>14. ASSUME NEW d \in Drafts, Review(d)
     PROVE  TargetInv'
  <2>1. ReviewEffect(d)
    BY <1>1, <1>14 DEF Effects
  <2> QED
    BY <1>14, <2>1
    DEF ReviewEffect, Stored, Review, Main, chain, process, renderer, counters
<1>15. ASSUME RewriteReads
     PROVE  TargetInv'
  BY <1>15 DEF RewriteReads, Main, chain, process, renderer, counters
<1>16. ASSUME RewriteAtOnce
     PROVE  TargetInv'
  <2>1. RewriteEffect(store)
    BY <1>1, <1>16 DEF Effects
  <2> QED
    BY <1>16, <2>1
    DEF RewriteEffect, Stored, RewriteAtOnce, Main, chain, process, renderer,
      counters
<1>17. ASSUME RewriteSaves
     PROVE  TargetInv'
  <2>1. RewriteEffect(rewrite)
    BY <1>1, <1>17 DEF Effects
  <2> QED
    BY <1>17, <2>1
    DEF RewriteEffect, Stored, RewriteSaves, Main, chain, process, renderer,
      counters
<1>18. ASSUME Crash \/ Restart
     PROVE  TargetInv'
  BY <1>18 DEF Crash, Restart, Main, chain, process, renderer, counters
<1>19. ASSUME SessionBegins \/ SessionEnds \/ Mine
     PROVE  TargetInv'
  BY <1>19
  DEF SessionBegins, SessionEnds, Mine, Main, chain, process, renderer, counters
<1> QED
  BY <1>2, <1>3, <1>4, <1>5, <1>6, <1>7, <1>8, <1>9, <1>10, <1>11, <1>12, <1>13,
      <1>14, <1>15, <1>16, <1>17, <1>18, <1>19, NextIsStep
  DEF Step, MainProcess, Handle

\* Every step keeps claims: nothing unclaimed was sent.
LEMMA ClaimInvKept ==
  ASSUME Inv, Next
  PROVE  ClaimInv'
<1>1. Effects
  BY EffectsHold
<1> USE Bounds, Kinds DEF Inv, TypeOK, RewriteInv, CopyInv, TargetInv,
      Working, LatchInv, Claims, ClaimInv
<1>2. ASSUME NEW t \in Ticks, StartPublish(t) \/ NothingPublished(t)
     PROVE  ClaimInv'
  BY <1>2
  DEF StartPublish, NothingPublished, Leave, Main, chain, process, renderer,
      counters
<1>3. ASSUME NEW t \in Ticks, ClaimDraft(t)
     PROVE  ClaimInv'
  <2>1. ClaimEffect(t)
    BY <1>1, <1>3 DEF Effects
  <2> QED
    BY <1>3, <2>1
    DEF ClaimEffect, Stored, ClaimDraft, SnapshotUsable, Main, chain, process,
      renderer, counters
<1>4. ASSUME NEW t \in Ticks, AuditFails(t)
     PROVE  ClaimInv'
  <2>1. AuditEffect
    BY <1>1, <1>4 DEF Effects
  <2> QED
    BY <1>4, <2>1
    DEF AuditEffect, Stored, AuditFails, SnapshotUsable, Leave, Main, chain, process,
      renderer, counters
<1>5. ASSUME NEW t \in Ticks, SubmitFlip(t)
     PROVE  ClaimInv'
  BY <1>5
  DEF SubmitFlip, NodeAnswers, PairUsed, Main, chain, process, renderer, counters
<1>6. ASSUME NEW t \in Ticks, Published(t)
     PROVE  ClaimInv'
  <2>1. PublishedEffect(target[t])
    BY <1>1, <1>6 DEF Effects
  <2> QED
    BY <1>6, <2>1
    DEF PublishedEffect, Stored, Published, Leave, Main, chain, process, renderer,
      counters
<1>7. ASSUME NEW t \in Ticks, OutcomeUnknown(t)
     PROVE  ClaimInv'
  <2>1. UnknownEffect(target[t])
    BY <1>1, <1>7 DEF Effects
  <2> QED
    BY <1>7, <2>1
    DEF UnknownEffect, Stored, OutcomeUnknown, Leave, Main, chain, process, renderer,
      counters
<1>8. ASSUME OpenList \/ CloseList
     PROVE  ClaimInv'
  BY <1>8 DEF OpenList, Listed, CloseList, Main, chain, process, renderer, counters
<1>9. ASSUME NEW d \in Drafts, OpenEditor(d)
     PROVE  ClaimInv'
  BY <1>9 DEF OpenEditor, Main, chain, process, renderer, counters
<1>10. ASSUME NEW d \in Drafts, EditDraft(d)
     PROVE  ClaimInv'
  <2>1. EditEffect(d)
    BY <1>1, <1>10 DEF Effects
  <2> QED
    BY <1>10, <2>1
    DEF EditEffect, Stored, EditDraft, Editing, Main, chain, process, renderer,
      counters
<1>11. ASSUME NEW d \in Drafts, Publish(d) \/ SendFlip(d) \/ SendFailed(d)
     PROVE  ClaimInv'
  BY <1>11
  DEF Publish, Editing, SendFlip, NodeAnswers, PairUsed, SendFailed, Main, chain,
      process, renderer, counters
<1>12. ASSUME NEW d \in Drafts,
              FlipSent(d) \/ Mined(d) \/ TxNull(d) \/ DeleteSent(d) \/
                DeleteMined(d) \/ Archive(d)
     PROVE  ClaimInv'
  BY <1>12, UpdateKept DEF Inv
<1>13. ASSUME NEW d \in Drafts, Delete(d) \/ SendDelete(d)
     PROVE  ClaimInv'
  BY <1>13 DEF Delete, SendDelete, Main, chain, process, renderer, counters
<1>14. ASSUME NEW d \in Drafts, Review(d)
     PROVE  ClaimInv'
  <2>1. ReviewEffect(d)
    BY <1>1, <1>14 DEF Effects
  <2> QED
    BY <1>14, <2>1
    DEF ReviewEffect, Stored, Review, Main, chain, process, renderer, counters
<1>15. ASSUME RewriteReads
     PROVE  ClaimInv'
  BY <1>15 DEF RewriteReads, Main, chain, process, renderer, counters
<1>16. ASSUME RewriteAtOnce
     PROVE  ClaimInv'
  <2>1. RewriteEffect(store)
    BY <1>1, <1>16 DEF Effects
  <2> QED
    BY <1>16, <2>1
    DEF RewriteEffect, Stored, RewriteAtOnce, Main, chain, process, renderer,
      counters
<1>17. ASSUME RewriteSaves
     PROVE  ClaimInv'
  <2>1. RewriteEffect(rewrite)
    BY <1>1, <1>17 DEF Effects
  <2> QED
    BY <1>17, <2>1
    DEF RewriteEffect, Stored, RewriteSaves, Main, chain, process, renderer,
      counters
<1>18. ASSUME Crash \/ Restart
     PROVE  ClaimInv'
  BY <1>18 DEF Crash, Restart, Main, chain, process, renderer, counters
<1>19. ASSUME SessionBegins \/ SessionEnds \/ Mine
     PROVE  ClaimInv'
  BY <1>19
  DEF SessionBegins, SessionEnds, Mine, Main, chain, process, renderer, counters
<1> QED
  BY <1>2, <1>3, <1>4, <1>5, <1>6, <1>7, <1>8, <1>9, <1>10, <1>11, <1>12, <1>13,
      <1>14, <1>15, <1>16, <1>17, <1>18, <1>19, NextIsStep
  DEF Step, MainProcess, Handle

\* Every step submits viewed flips only.
LEMMA OnlyViewedSubmittedKept ==
  ASSUME Inv, Next
  PROVE  OnlyViewedSubmitted'
<1>1. Effects
  BY EffectsHold
<1> USE DEF Inv, TypeOK, TargetInv, Working, PanelInv, Shown, OnlyViewedSubmitted
<1>2. ASSUME NEW t \in Ticks, StartPublish(t) \/ NothingPublished(t)
     PROVE  OnlyViewedSubmitted'
  BY <1>2
  DEF StartPublish, NothingPublished, Leave, Main, chain, process, renderer,
      counters
<1>3. ASSUME NEW t \in Ticks, ClaimDraft(t)
     PROVE  OnlyViewedSubmitted'
  <2>1. ClaimEffect(t)
    BY <1>1, <1>3 DEF Effects
  <2> QED
    BY <1>3, <2>1
    DEF ClaimEffect, Stored, ClaimDraft, SnapshotUsable, Main, chain, process,
      renderer, counters
<1>4. ASSUME NEW t \in Ticks, AuditFails(t)
     PROVE  OnlyViewedSubmitted'
  <2>1. AuditEffect
    BY <1>1, <1>4 DEF Effects
  <2> QED
    BY <1>4, <2>1
    DEF AuditEffect, Stored, AuditFails, SnapshotUsable, Leave, Main, chain, process,
      renderer, counters
<1>5. ASSUME NEW t \in Ticks, SubmitFlip(t)
     PROVE  OnlyViewedSubmitted'
  BY <1>5
  DEF SubmitFlip, NodeAnswers, PairUsed, Main, chain, process, renderer, counters
<1>6. ASSUME NEW t \in Ticks, Published(t)
     PROVE  OnlyViewedSubmitted'
  <2>1. PublishedEffect(target[t])
    BY <1>1, <1>6 DEF Effects
  <2> QED
    BY <1>6, <2>1
    DEF PublishedEffect, Stored, Published, Leave, Main, chain, process, renderer,
      counters
<1>7. ASSUME NEW t \in Ticks, OutcomeUnknown(t)
     PROVE  OnlyViewedSubmitted'
  <2>1. UnknownEffect(target[t])
    BY <1>1, <1>7 DEF Effects
  <2> QED
    BY <1>7, <2>1
    DEF UnknownEffect, Stored, OutcomeUnknown, Leave, Main, chain, process, renderer,
      counters
<1>8. ASSUME OpenList \/ CloseList
     PROVE  OnlyViewedSubmitted'
  BY <1>8 DEF OpenList, Listed, CloseList, Main, chain, process, renderer, counters
<1>9. ASSUME NEW d \in Drafts, OpenEditor(d)
     PROVE  OnlyViewedSubmitted'
  BY <1>9 DEF OpenEditor, Main, chain, process, renderer, counters
<1>10. ASSUME NEW d \in Drafts, EditDraft(d)
     PROVE  OnlyViewedSubmitted'
  <2>1. EditEffect(d)
    BY <1>1, <1>10 DEF Effects
  <2> QED
    BY <1>10, <2>1
    DEF EditEffect, Stored, EditDraft, Editing, Main, chain, process, renderer,
      counters
<1>11. ASSUME NEW d \in Drafts, Publish(d) \/ SendFlip(d) \/ SendFailed(d)
     PROVE  OnlyViewedSubmitted'
  BY <1>11
  DEF Publish, Editing, SendFlip, NodeAnswers, PairUsed, SendFailed, Main, chain,
      process, renderer, counters
<1>12. ASSUME NEW d \in Drafts,
              FlipSent(d) \/ Mined(d) \/ TxNull(d) \/ DeleteSent(d) \/
                DeleteMined(d) \/ Archive(d)
     PROVE  OnlyViewedSubmitted'
  BY <1>12, UpdateKept DEF Inv
<1>13. ASSUME NEW d \in Drafts, Delete(d) \/ SendDelete(d)
     PROVE  OnlyViewedSubmitted'
  BY <1>13 DEF Delete, SendDelete, Main, chain, process, renderer, counters
<1>14. ASSUME NEW d \in Drafts, Review(d)
     PROVE  OnlyViewedSubmitted'
  <2>1. ReviewEffect(d)
    BY <1>1, <1>14 DEF Effects
  <2> QED
    BY <1>14, <2>1
    DEF ReviewEffect, Stored, Review, Main, chain, process, renderer, counters
<1>15. ASSUME RewriteReads
     PROVE  OnlyViewedSubmitted'
  BY <1>15 DEF RewriteReads, Main, chain, process, renderer, counters
<1>16. ASSUME RewriteAtOnce
     PROVE  OnlyViewedSubmitted'
  <2>1. RewriteEffect(store)
    BY <1>1, <1>16 DEF Effects
  <2> QED
    BY <1>16, <2>1
    DEF RewriteEffect, Stored, RewriteAtOnce, Main, chain, process, renderer,
      counters
<1>17. ASSUME RewriteSaves
     PROVE  OnlyViewedSubmitted'
  <2>1. RewriteEffect(rewrite)
    BY <1>1, <1>17 DEF Effects
  <2> QED
    BY <1>17, <2>1
    DEF RewriteEffect, Stored, RewriteSaves, Main, chain, process, renderer,
      counters
<1>18. ASSUME Crash \/ Restart
     PROVE  OnlyViewedSubmitted'
  BY <1>18 DEF Crash, Restart, Main, chain, process, renderer, counters
<1>19. ASSUME SessionBegins \/ SessionEnds \/ Mine
     PROVE  OnlyViewedSubmitted'
  BY <1>19
  DEF SessionBegins, SessionEnds, Mine, Main, chain, process, renderer, counters
<1> QED
  BY <1>2, <1>3, <1>4, <1>5, <1>6, <1>7, <1>8, <1>9, <1>10, <1>11, <1>12, <1>13,
      <1>14, <1>15, <1>16, <1>17, <1>18, <1>19, NextIsStep
  DEF Step, MainProcess, Handle

\* Every step keeps the claim of what the main process got onto the chain.
LEMMA TraceInvKept ==
  ASSUME Inv, Next
  PROVE  TraceInv'
<1>1. Effects
  BY EffectsHold
<1> USE Bounds, Kinds DEF Inv, TypeOK, RewriteInv, CopyInv, TargetInv,
      Working, Claims, TraceInv
<1>2. ASSUME NEW t \in Ticks, StartPublish(t) \/ NothingPublished(t)
     PROVE  TraceInv'
  BY <1>2
  DEF StartPublish, NothingPublished, Leave, Main, chain, process, renderer,
      counters
<1>3. ASSUME NEW t \in Ticks, ClaimDraft(t)
     PROVE  TraceInv'
  <2>1. ClaimEffect(t)
    BY <1>1, <1>3 DEF Effects
  <2> QED
    BY <1>3, <2>1
    DEF ClaimEffect, Stored, ClaimDraft, SnapshotUsable, Main, chain, process,
      renderer, counters
<1>4. ASSUME NEW t \in Ticks, AuditFails(t)
     PROVE  TraceInv'
  <2>1. AuditEffect
    BY <1>1, <1>4 DEF Effects
  <2> QED
    BY <1>4, <2>1
    DEF AuditEffect, Stored, AuditFails, SnapshotUsable, Leave, Main, chain, process,
      renderer, counters
<1>5. ASSUME NEW t \in Ticks, SubmitFlip(t)
     PROVE  TraceInv'
  <2>1. /\ target[t] \in Drafts
        /\ rewrites = 0 => Recorded(store[target[t]].claim) = "claimed"
    BY <1>5 DEF SubmitFlip
  <2>2. rewrites = 0 => store[target[t]].claim \in {"submitting", "submitted", "unknown"}
    <3>1. store[target[t]].claim \in Claims
      BY <2>1 DEF Flips
    <3> QED
      BY <2>1, <3>1, Kinds
  <2>3. /\ \A x \in Drafts : x # target[t] => onNode'[x] = onNode[x]
        /\ UNCHANGED <<store, handSent, rewrites>>
    BY <1>5 DEF SubmitFlip, NodeAnswers
  <2> QED
    BY <2>1, <2>2, <2>3
<1>6. ASSUME NEW t \in Ticks, Published(t)
     PROVE  TraceInv'
  <2>1. PublishedEffect(target[t])
    BY <1>1, <1>6 DEF Effects
  <2> QED
    BY <1>6, <2>1
    DEF PublishedEffect, Stored, Published, Leave, Main, chain, process, renderer,
      counters
<1>7. ASSUME NEW t \in Ticks, OutcomeUnknown(t)
     PROVE  TraceInv'
  <2>1. UnknownEffect(target[t])
    BY <1>1, <1>7 DEF Effects
  <2> QED
    BY <1>7, <2>1
    DEF UnknownEffect, Stored, OutcomeUnknown, Leave, Main, chain, process, renderer,
      counters
<1>8. ASSUME OpenList \/ CloseList
     PROVE  TraceInv'
  BY <1>8 DEF OpenList, Listed, CloseList, Main, chain, process, renderer, counters
<1>9. ASSUME NEW d \in Drafts, OpenEditor(d)
     PROVE  TraceInv'
  BY <1>9 DEF OpenEditor, Main, chain, process, renderer, counters
<1>10. ASSUME NEW d \in Drafts, EditDraft(d)
     PROVE  TraceInv'
  <2>1. EditEffect(d)
    BY <1>1, <1>10 DEF Effects
  <2> QED
    BY <1>10, <2>1
    DEF EditEffect, Stored, EditDraft, Editing, Main, chain, process, renderer,
      counters
<1>11. ASSUME NEW d \in Drafts, Publish(d) \/ SendFlip(d) \/ SendFailed(d)
     PROVE  TraceInv'
  BY <1>11
  DEF Publish, Editing, SendFlip, NodeAnswers, PairUsed, SendFailed, Main, chain,
      process, renderer, counters
<1>12. ASSUME NEW d \in Drafts,
              FlipSent(d) \/ Mined(d) \/ TxNull(d) \/ DeleteSent(d) \/
                DeleteMined(d) \/ Archive(d)
     PROVE  TraceInv'
  BY <1>12, UpdateKept DEF Inv
<1>13. ASSUME NEW d \in Drafts, Delete(d) \/ SendDelete(d)
     PROVE  TraceInv'
  BY <1>13 DEF Delete, SendDelete, Main, chain, process, renderer, counters
<1>14. ASSUME NEW d \in Drafts, Review(d)
     PROVE  TraceInv'
  <2>1. ReviewEffect(d)
    BY <1>1, <1>14 DEF Effects
  <2> QED
    BY <1>14, <2>1
    DEF ReviewEffect, Stored, Review, Main, chain, process, renderer, counters
<1>15. ASSUME RewriteReads
     PROVE  TraceInv'
  BY <1>15 DEF RewriteReads, Main, chain, process, renderer, counters
<1>16. ASSUME RewriteAtOnce
     PROVE  TraceInv'
  <2>1. RewriteEffect(store)
    BY <1>1, <1>16 DEF Effects
  <2> QED
    BY <1>16, <2>1
    DEF RewriteEffect, Stored, RewriteAtOnce, Main, chain, process, renderer,
      counters
<1>17. ASSUME RewriteSaves
     PROVE  TraceInv'
  <2>1. RewriteEffect(rewrite)
    BY <1>1, <1>17 DEF Effects
  <2> QED
    BY <1>17, <2>1
    DEF RewriteEffect, Stored, RewriteSaves, Main, chain, process, renderer,
      counters
<1>18. ASSUME Crash \/ Restart
     PROVE  TraceInv'
  BY <1>18 DEF Crash, Restart, Main, chain, process, renderer, counters
<1>19. ASSUME SessionBegins \/ SessionEnds \/ Mine
     PROVE  TraceInv'
  BY <1>19
  DEF SessionBegins, SessionEnds, Mine, Main, chain, process, renderer, counters
<1> QED
  BY <1>2, <1>3, <1>4, <1>5, <1>6, <1>7, <1>8, <1>9, <1>10, <1>11, <1>12, <1>13,
      <1>14, <1>15, <1>16, <1>17, <1>18, <1>19, NextIsStep
  DEF Step, MainProcess, Handle

\* Torn rewrites are counted and never forgotten.
LEMMA RewritesGrow ==
  ASSUME Inv, Next
  PROVE  rewrites' >= rewrites
<1> USE DEF Inv, TypeOK
<1>1. ASSUME NEW t \in Ticks, StartPublish(t) \/ NothingPublished(t)
     PROVE  rewrites' >= rewrites
  BY <1>1
  DEF StartPublish, NothingPublished, Leave, Main, chain, process, renderer,
      counters
<1>2. ASSUME NEW t \in Ticks, ClaimDraft(t)
     PROVE  rewrites' >= rewrites
  BY <1>2 DEF ClaimDraft, SnapshotUsable, Main, chain, process, renderer, counters
<1>3. ASSUME NEW t \in Ticks, AuditFails(t)
     PROVE  rewrites' >= rewrites
  BY <1>3
  DEF AuditFails, SnapshotUsable, Leave, Main, chain, process, renderer, counters
<1>4. ASSUME NEW t \in Ticks, SubmitFlip(t)
     PROVE  rewrites' >= rewrites
  BY <1>4
  DEF SubmitFlip, NodeAnswers, PairUsed, Main, chain, process, renderer, counters
<1>5. ASSUME NEW t \in Ticks, Published(t)
     PROVE  rewrites' >= rewrites
  BY <1>5 DEF Published, Leave, Main, chain, process, renderer, counters
<1>6. ASSUME NEW t \in Ticks, OutcomeUnknown(t)
     PROVE  rewrites' >= rewrites
  BY <1>6 DEF OutcomeUnknown, Leave, Main, chain, process, renderer, counters
<1>7. ASSUME OpenList \/ CloseList
     PROVE  rewrites' >= rewrites
  BY <1>7 DEF OpenList, Listed, CloseList, Main, chain, process, renderer, counters
<1>8. ASSUME NEW d \in Drafts, OpenEditor(d)
     PROVE  rewrites' >= rewrites
  BY <1>8 DEF OpenEditor, Main, chain, process, renderer, counters
<1>9. ASSUME NEW d \in Drafts, EditDraft(d)
     PROVE  rewrites' >= rewrites
  BY <1>9 DEF EditDraft, Editing, Main, chain, process, renderer, counters
<1>10. ASSUME NEW d \in Drafts, Publish(d) \/ SendFlip(d) \/ SendFailed(d)
     PROVE  rewrites' >= rewrites
  BY <1>10
  DEF Publish, Editing, SendFlip, NodeAnswers, PairUsed, SendFailed, Main, chain,
      process, renderer, counters
<1>11. ASSUME NEW d \in Drafts,
              FlipSent(d) \/ Mined(d) \/ TxNull(d) \/ DeleteSent(d) \/
                DeleteMined(d) \/ Archive(d)
     PROVE  rewrites' >= rewrites
  BY <1>11, UpdateKept DEF Inv
<1>12. ASSUME NEW d \in Drafts, Delete(d) \/ SendDelete(d)
     PROVE  rewrites' >= rewrites
  BY <1>12 DEF Delete, SendDelete, Main, chain, process, renderer, counters
<1>13. ASSUME NEW d \in Drafts, Review(d)
     PROVE  rewrites' >= rewrites
  BY <1>13 DEF Review, Main, chain, process, renderer, counters
<1>14. ASSUME RewriteReads
     PROVE  rewrites' >= rewrites
  BY <1>14 DEF RewriteReads, Main, chain, process, renderer, counters
<1>15. ASSUME RewriteAtOnce
     PROVE  rewrites' >= rewrites
  BY <1>15 DEF RewriteAtOnce, Main, chain, process, renderer, counters
<1>16. ASSUME RewriteSaves
     PROVE  rewrites' >= rewrites
  BY <1>16 DEF RewriteSaves, Main, chain, process, renderer, counters
<1>17. ASSUME Crash \/ Restart
     PROVE  rewrites' >= rewrites
  BY <1>17 DEF Crash, Restart, Main, chain, process, renderer, counters
<1>18. ASSUME SessionBegins \/ SessionEnds \/ Mine
     PROVE  rewrites' >= rewrites
  BY <1>18
  DEF SessionBegins, SessionEnds, Mine, Main, chain, process, renderer, counters
<1> QED
  BY <1>1, <1>2, <1>3, <1>4, <1>5, <1>6, <1>7, <1>8, <1>9, <1>10, <1>11, <1>12,
      <1>13, <1>14, <1>15, <1>16, <1>17, <1>18, NextIsStep
  DEF Step, MainProcess, Handle

\* Nothing is submitted, shown or claimed at first.
LEMMA InitInv ==
  ASSUME Init
  PROVE  Inv
<1> USE PublishAssumption DEF Init
<1>1. TypeOK
  <2>1. view \in [Ticks -> ({"None", "Session"} \X (1..MaxEpoch)) \cup {None}]
    OBVIOUS
  <2>2. pc \in [Ticks -> Waits] /\ target \in [Ticks -> Drafts \cup {None}]
    BY DEF Waits
  <2>3. ui \in [Drafts -> Panels] /\ copy \in [Drafts -> Flips \cup {None}]
    BY DEF Panels
  <2>4. onNode \in [Drafts -> Fates] /\ autoSent \in [Drafts -> Nat]
    BY DEF Fates
  <2>5. epoch \in 1..MaxEpoch /\ period \in {"None", "Session"}
    OBVIOUS
  <2>6. store \in [Drafts -> Flips] /\ rewrite \in [Drafts -> Flips] \cup {None}
    OBVIOUS
  <2>7. /\ up \in BOOLEAN /\ publishing \in BOOLEAN
        /\ page \in {"none", "list", "editor"}
    OBVIOUS
  <2>8. viewed \subseteq Drafts /\ handSent \subseteq Drafts
    OBVIOUS
  <2>9. /\ crashes \in 0..MaxCrashes /\ edits \in 0..MaxEdits /\ rewrites \in 0..MaxRewrites
    OBVIOUS
  <2> HIDE DEF Init
  <2> QED
    BY <2>1, <2>2, <2>3, <2>4, <2>5, <2>6, <2>7, <2>8, <2>9 DEF TypeOK
<1>2. ClockInv /\ LatchInv
  BY DEF ClockInv, LatchInv
<1>3. StoreInv
  BY DEF StoreInv, Sound
<1>4. RewriteInv /\ CopyInv /\ PanelInv
  BY DEF RewriteInv, CopyInv, PanelInv, Shown
<1>5. TargetInv /\ ClaimInv
  BY DEF TargetInv, Working, ClaimInv
<1>6. OnlyViewedSubmitted /\ TraceInv
  BY DEF OnlyViewedSubmitted, TraceInv
<1> QED
  BY <1>1, <1>2, <1>3, <1>4, <1>5, <1>6 DEF Inv

\* A stuttering step keeps everything.
LEMMA StutterKept ==
  ASSUME Inv, UNCHANGED vars
  PROVE  Inv'
<1> USE DEF Inv, vars
<1>1. TypeOK'
  BY DEF TypeOK
<1>2. ClockInv' /\ LatchInv' /\ StoreInv' /\ RewriteInv' /\ CopyInv' /\ PanelInv'
  BY DEF ClockInv, LatchInv, StoreInv, RewriteInv, CopyInv, PanelInv, Sound
<1>3. TargetInv' /\ ClaimInv' /\ OnlyViewedSubmitted' /\ TraceInv'
  BY DEF TargetInv, ClaimInv, OnlyViewedSubmitted, TraceInv
<1> QED
  BY <1>1, <1>2, <1>3

\* The invariant is inductive.
LEMMA Invariance == Spec => []Inv
<1>1. ASSUME Inv, Next
     PROVE  Inv'
  BY <1>1, TypeOKKept, ClockInvKept, LatchInvKept, StoreInvKept, RewriteInvKept,
     CopyInvKept, PanelInvKept, TargetInvKept, ClaimInvKept,
     OnlyViewedSubmittedKept, TraceInvKept DEF Inv
<1>2. Inv /\ [Next]_vars => Inv'
  BY <1>1, StutterKept
<1> QED
  BY <1>2, InitInv, PTL DEF Spec

-----------------------------------------------------------------------------
(* What follows from the invariant.                                         *)

\* Types are kept by both writers of flips.json.
THEOREM TypesKept == Spec => []TypeOK
BY Invariance, PTL DEF Inv

\* A record says "published", and a claim "submitted", only of what the node took.
THEOREM PublishedMeansAccepted == Spec => []PublishedIsAccepted
<1>1. Inv => PublishedIsAccepted
  BY DEF Inv, StoreInv, Sound, PublishedIsAccepted
<1> QED
  BY <1>1, Invariance, PTL

\* Nobody submits a flip nobody has looked at.
THEOREM NothingUnseenSubmitted == Spec => []OnlyViewedSubmitted
BY Invariance, PTL DEF Inv

\* What the main process got onto the chain keeps its claim as long as it has a
\* record: no writer but a torn rewrite erases the claim of a record it leaves.
THEOREM TraceKept == Spec => []AcceptedLeavesTrace
<1>1. Inv => AcceptedLeavesTrace
  BY DEF Inv, TraceInv, AcceptedLeavesTrace
<1> QED
  BY <1>1, Invariance, PTL

\* If no rewrite of the collection is torn the main process submits a draft once.
THEOREM SubmittedOnce ==
  ASSUME MaxRewrites = 0
  PROVE  Spec => []AutoSubmitsOnce
<1>1. Inv => AutoSubmitsOnce
  BY DEF Inv, TypeOK, ClaimInv, AutoSubmitsOnce
<1> QED
  BY <1>1, Invariance, PTL

-----------------------------------------------------------------------------
(* The refinement.                                                          *)

\* Claims of the same kind are the same to PaidOnce.
LEMMA SameClaims ==
  ASSUME \A x \in Drafts : Recorded(store'[x].claim) = Recorded(store[x].claim),
         autoSent' = autoSent
  PROVE  UNCHANGED Once!once
BY DEF Once!once

\* A claim that is set is a record to PaidOnce.
LEMMA ClaimRecorded ==
  ASSUME NEW d \in Drafts, NEW type, NEW claim, NEW review,
         Stored(d, type, claim, review), autoSent' = autoSent
  PROVE  Once!Record(d, Recorded(store[d].claim), Recorded(claim))
BY DEF Stored, Once!Record

\* Each step claims, rejects or submits one draft, or changes nothing PaidOnce sees.
LEMMA StepImplements ==
  ASSUME Inv, Next, rewrites' = 0
  PROVE  Once!Next \/ UNCHANGED Once!once
<1>1. Effects
  BY EffectsHold
<1>2. rewrites = 0
  BY RewritesGrow DEF Inv, TypeOK
<1>3. ASSUME NEW t \in Ticks, pc[t] \in Working
     PROVE  /\ target[t] \in Drafts
            /\ Recorded(store[target[t]].claim) = "claimed"
            /\ store[target[t]].claim # "none"
            /\ pc[t] = "claimed" => autoSent[target[t]] = 0
  BY <1>2, <1>3 DEF Inv, TargetInv, Recorded
<1>4. ASSUME NEW t \in Ticks, ClaimDraft(t)
     PROVE  Once!Next
  <2>1. ClaimEffect(t) /\ autoSent' = autoSent
    BY <1>1, <1>4 DEF Effects, ClaimDraft, counters
  <2>2. PICK d \in Drafts :
          /\ store[d].claim = "none"
          /\ Stored(d, store[d].type, "submitting", store[d].review)
    BY <2>1 DEF ClaimEffect
  <2>3. Once!Record(d, Recorded(store[d].claim), Recorded("submitting"))
    BY <2>1, <2>2, ClaimRecorded
  <2>4. Recorded(store[d].claim) = "free" /\ Recorded("submitting") = "claimed"
    BY <2>2 DEF Recorded
  <2> QED
    BY <2>3, <2>4 DEF Once!Next, Once!Claim
<1>5. ASSUME NEW t \in Ticks, AuditFails(t)
     PROVE  Once!Next
  <2>1. AuditEffect /\ autoSent' = autoSent
    BY <1>1, <1>5 DEF Effects, AuditFails, Leave, counters
  <2>2. PICK d \in Drafts :
          /\ store[d].claim = "none"
          /\ Stored(d, store[d].type, "audit_failed", store[d].review)
    BY <2>1 DEF AuditEffect
  <2>3. Once!Record(d, Recorded(store[d].claim), Recorded("audit_failed"))
    BY <2>1, <2>2, ClaimRecorded
  <2>4. Recorded(store[d].claim) = "free" /\ Recorded("audit_failed") = "rejected"
    BY <2>2 DEF Recorded
  <2> QED
    BY <2>3, <2>4 DEF Once!Next, Once!Reject
<1>6. ASSUME NEW t \in Ticks, SubmitFlip(t)
     PROVE  Once!Next
  <2> DEFINE d == target[t]
  <2>1. d \in Drafts /\ Recorded(store[d].claim) = "claimed" /\ autoSent[d] = 0
    BY <1>3, <1>6 DEF SubmitFlip, Working
  <2>2. autoSent' = [autoSent EXCEPT ![d] = autoSent[d] + 1] /\ UNCHANGED store
    BY <1>6 DEF SubmitFlip
  <2>3. autoSent' = [autoSent EXCEPT ![d] = 1]
    BY <2>1, <2>2
  <2> HIDE DEF d
  <2> QED
    BY <2>1, <2>2, <2>3 DEF Once!Next, Once!Act
<1>7. ASSUME NEW t \in Ticks, Published(t)
     PROVE  UNCHANGED Once!once
  <2>1. PublishedEffect(target[t]) /\ autoSent' = autoSent /\ pc[t] \in Working
    BY <1>1, <1>7 DEF Effects, Published, Leave, counters, Working
  <2>2. \A x \in Drafts : Recorded(store'[x].claim) = Recorded(store[x].claim)
    BY <1>3, <2>1 DEF PublishedEffect, Stored, Recorded
  <2> QED
    BY <2>1, <2>2, SameClaims
<1>8. ASSUME NEW t \in Ticks, OutcomeUnknown(t)
     PROVE  UNCHANGED Once!once
  <2>1. UnknownEffect(target[t]) /\ autoSent' = autoSent /\ pc[t] \in Working
    BY <1>1, <1>8 DEF Effects, OutcomeUnknown, Leave, counters, Working
  <2>2. \A x \in Drafts : Recorded(store'[x].claim) = Recorded(store[x].claim)
    BY <1>3, <2>1 DEF UnknownEffect, Stored, Recorded
  <2> QED
    BY <2>1, <2>2, SameClaims
<1>9. ASSUME NEW d \in Drafts,
             FlipSent(d) \/ Mined(d) \/ TxNull(d) \/ DeleteSent(d) \/
               DeleteMined(d) \/ Archive(d)
     PROVE  UNCHANGED Once!once
  BY <1>2, <1>9, UpdateKept, SameClaims
<1>10. ASSUME NEW d \in Drafts, EditDraft(d) \/ Review(d)
     PROVE  UNCHANGED Once!once
  <2>1. (EditEffect(d) \/ ReviewEffect(d)) /\ autoSent' = autoSent
    BY <1>1, <1>10 DEF Effects, EditDraft, Review, counters
  <2>2. \A x \in Drafts : Recorded(store'[x].claim) = Recorded(store[x].claim)
    BY <2>1 DEF EditEffect, ReviewEffect, Stored
  <2> QED
    BY <2>1, <2>2, SameClaims
<1>11. ASSUME RewriteAtOnce
     PROVE  UNCHANGED Once!once
  <2>1. RewriteEffect(store) /\ autoSent' = autoSent
    BY <1>1, <1>11 DEF Effects, RewriteAtOnce, counters
  <2> QED
    BY <2>1, SameClaims DEF RewriteEffect
<1>12. ~RewriteReads /\ ~RewriteSaves
  BY <1>2 DEF RewriteReads, RewriteSaves, Inv, RewriteInv
<1>13. ASSUME UNCHANGED store, UNCHANGED autoSent
     PROVE  UNCHANGED Once!once
  BY <1>13, SameClaims
<1>14. ASSUME NEW t \in Ticks, StartPublish(t) \/ NothingPublished(t)
     PROVE  UNCHANGED Once!once
  BY <1>13, <1>14 DEF StartPublish, NothingPublished, Leave, counters
<1>15. ASSUME NEW d \in Drafts,
              OpenEditor(d) \/ Publish(d) \/ SendFlip(d) \/ SendFailed(d) \/
                Delete(d) \/ SendDelete(d)
     PROVE  UNCHANGED Once!once
  BY <1>13, <1>15
  DEF OpenEditor, Publish, SendFlip, SendFailed, Delete, SendDelete, counters
<1>16. ASSUME OpenList \/ CloseList \/ Crash \/ Restart
     PROVE  UNCHANGED Once!once
  BY <1>13, <1>16 DEF OpenList, CloseList, Crash, Restart, counters
<1>17. ASSUME SessionBegins \/ SessionEnds \/ Mine
     PROVE  UNCHANGED Once!once
  BY <1>13, <1>17 DEF SessionBegins, SessionEnds, Mine, counters
<1> QED
  BY <1>4, <1>5, <1>6, <1>7, <1>8, <1>9, <1>10, <1>11, <1>12, <1>14, <1>15, <1>16,
     <1>17, NextIsStep
  DEF Step, MainProcess, Handle

\* Publishing implements PaidOnce until a rewrite of the collection is torn.
THEOREM PublishingImplementsPaidOnce == Spec => PublishesOnce
<1>1. Init => Once!Init
  <2> SUFFICES ASSUME Init PROVE Once!Init
    OBVIOUS
  <2>1. store \in [Drafts -> Flips] /\ autoSent = [d \in Drafts |-> 0]
        /\ \A d \in Drafts : store[d].claim # "submitted"
    BY PublishAssumption DEF Init
  <2>2. \A d \in Drafts : Recorded(store[d].claim) \in {"free", "claimed", "rejected"}
    BY DEF Recorded
  <2> QED
    BY <2>1, <2>2 DEF Once!Init
<1>2. Inv /\ Inv' /\ [Next]_vars => [rewrites' > 0 \/ Once!Next]_(Once!once)
  <2> SUFFICES ASSUME Inv, Inv', [Next]_vars
               PROVE  rewrites' > 0 \/ Once!Next \/ UNCHANGED Once!once
    OBVIOUS
  <2>1. CASE Next
    <3>1. rewrites' > 0 \/ rewrites' = 0
      BY DEF Inv, TypeOK
    <3> QED
      BY <2>1, <3>1, StepImplements
  <2>2. CASE UNCHANGED vars
    BY <2>2, SameClaims DEF vars
  <2> QED
    BY <2>1, <2>2
<1> QED
  BY <1>1, <1>2, Invariance, PTL DEF Spec, PublishesOnce

=============================================================================
