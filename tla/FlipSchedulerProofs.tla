------------------------- MODULE FlipSchedulerProofs -------------------------
(***************************************************************************)
(* Proofs about FlipScheduler: type correctness, and that at most one paid *)
(* run is bought for a session by a profile that keeps one identity.       *)
(***************************************************************************)
EXTENDS FlipScheduler, FiniteSetTheorems, TLAPS

-----------------------------------------------------------------------------
(* Facts about the operators.                                               *)

\* The recorded attempts of a journal, one element for each.
Tries(j) == UNION {{p} \X (1..j.attempts[p]) : p \in Pairs}

\* A journal records finitely many attempts.
LEMMA TriesFinite ==
  ASSUME NEW j \in Journals
  PROVE  IsFiniteSet(Tries(j)) /\ IsFiniteSet(j.completed)
<1>1. IsFiniteSet(j.completed)
  <2>1. j.completed \subseteq Pairs
    BY DEF Journals
  <2> QED
    BY <2>1, FS_Subset, ConstantsAssumption
<1>2. IsFiniteSet(Tries(j))
  <2> DEFINE part(p) == {p} \X (1..j.attempts[p])
             parts == {part(p) : p \in Pairs}
  <2>1. \A S \in parts : IsFiniteSet(S)
    <3> SUFFICES ASSUME NEW p \in Pairs PROVE IsFiniteSet(part(p))
      OBVIOUS
    <3>1. j.attempts[p] \in Nat
      BY DEF Journals
    <3>2. IsFiniteSet({p})
      BY FS_Singleton
    <3>3. IsFiniteSet(1..j.attempts[p])
      BY <3>1, FS_Interval
    <3> QED
      BY <3>2, <3>3, FS_Product
  <2>2. IsFiniteSet(parts)
    <3> DEFINE f == [p \in Pairs |-> part(p)]
    <3>1. f \in Surjection(Pairs, parts)
      BY DEF Surjection
    <3> QED
      BY <3>1, FS_Surjection, ConstantsAssumption
  <2> QED
    BY <2>1, <2>2, FS_UNION DEF Tries
<1> QED
  BY <1>1, <1>2

\* What a journal vouches for is a number (the sum in the migration branch).
LEMMA KnownAttemptsType ==
  ASSUME NEW j \in Journals
  PROVE  KnownAttempts(j) \in Nat
<1>1. Cardinality(j.completed) \in Nat /\ Cardinality(Tries(j)) \in Nat
  BY TriesFinite, FS_CardinalityType
<1> QED
  BY <1>1 DEF KnownAttempts, Tries

\* load() followed by either initialisation yields a journal of that session.
LEMMA LoadedType ==
  ASSUME TypeOK, NEW s \in Sessions, NEW j \in LoadedFor(s)
  PROVE  j \in Journals /\ j.session = s
<1>1. CASE disk.session # s
  <2>1. PICK delay \in Delays : j = FreshJournal(s, delay)
    BY <1>1 DEF LoadedFor
  <2>2. endedAt + delay \in Nat /\ endedAt + Window \in Nat
    BY ConstantsAssumption DEF TypeOK
  <2>3. [p \in Pairs |-> 0] \in [Pairs -> Nat]
    OBVIOUS
  <2> QED
    BY <2>1, <2>2, <2>3 DEF FreshJournal, Journals, Statuses
<1>2. CASE disk.session = s
  <2>1. disk \in Journals /\ KnownAttempts(disk) \in Nat
    BY KnownAttemptsType DEF TypeOK
  <2>2. j = disk \/ j = Migrated(disk)
    BY <1>2 DEF LoadedFor
  <2> HIDE DEF KnownAttempts
  <2> QED
    BY <1>2, <2>1, <2>2 DEF Migrated, Journals
<1> QED
  BY <1>1, <1>2

-----------------------------------------------------------------------------
(* Type correctness. It needs to know that a suspended snapshot and a       *)
(* running generation carry a real session and pair.                        *)

Snapshotting == {"snapshot", "check1", "check2", "check3"}

ViewOK == \A t \in Ticks : pc[t] \in Snapshotting => view[t].session \in Sessions

WorkOK == \A t \in Ticks : pc[t] \in Generating =>
            mem[t].journal.session \in Sessions /\ mem[t].pair \in Pairs

TypeInv == TypeOK /\ ViewOK /\ WorkOK

\* What an idle activation holds is well typed.
LEMMA EmptyType == NoWork \in Works /\ NoView \in Views /\ NoJournal \in Journals
BY DEF NoWork, Works, NoJournal, Journals, NoView, Views, Statuses

\* A snapshot of a well-typed world is well typed.
LEMMA CurrentViewType ==
  ASSUME TypeOK
  PROVE  CurrentView \in Views /\ CurrentView.session \in Sessions
BY DEF TypeOK, CurrentView, Views, Session, Sessions

\* Saving a loaded journal with any status keeps the types.
LEMMA SettleType ==
  ASSUME TypeInv, NEW t \in Ticks, NEW j \in LoadedFor(view[t].session),
         NEW status \in Statuses, Proceed(t, j), Settle(t, j, status)
  PROVE  TypeInv'
<1>1. view[t].session \in Sessions
  BY DEF TypeInv, ViewOK, Proceed, Snapshotting
<1>2. j \in Journals
  BY <1>1, LoadedType DEF TypeInv
<1>3. [j EXCEPT !.status = status] \in Journals
  BY <1>2 DEF Journals
<1>4. TypeOK'
  BY <1>3, EmptyType
  DEF TypeInv, TypeOK, Settle, Release, OpenWindow, world, observed, Stages
<1>5. ViewOK' /\ WorkOK'
  BY DEF TypeInv, TypeOK, ViewOK, WorkOK, Settle, Release, Snapshotting, Generating
<1> QED
  BY <1>4, <1>5 DEF TypeInv

\* Ending a run with any journal keeps the types.
LEMMA ConcludeType ==
  ASSUME TypeInv, NEW t \in Ticks, pc[t] \in Generating,
         NEW j \in Journals, Fail(t, j), ledger' \in Nat
  PROVE  TypeInv'
<1>1. TypeOK'
  BY EmptyType
  DEF TypeInv, TypeOK, WorkOK, Fail, Conclude, Release, Mine, world, Stages
<1>2. ViewOK' /\ WorkOK'
  BY DEF TypeInv, TypeOK, ViewOK, WorkOK, Fail, Conclude, Release,
         Snapshotting, Generating
<1> QED
  BY <1>1, <1>2 DEF TypeInv

\* The types hold when the application is first started.
LEMMA TypeInit == Init => TypeInv
<1> SUFFICES ASSUME Init PROVE TypeInv
  OBVIOUS
<1>1. disk \in Journals
  BY EmptyType, LegacyAssumption DEF Init
<1>2. cutOff \subseteq Sessions \cup {NoSession}
  BY <1>1 DEF Init, Journals
<1>3. pc \in [Ticks -> Stages] /\ view \in [Ticks -> Views] /\ mem \in [Ticks -> Works]
  BY EmptyType DEF Init, Stages
<1>4. epoch \in 1..MaxEpoch
  BY ConstantsAssumption DEF Init
<1>5. /\ stories \in [Sessions -> Nat]
      /\ renders \in [Sessions -> Nat]
      /\ billed \in [Sessions -> Nat]
  BY DEF Init
<1>6. TypeOK
  BY <1>1, <1>2, <1>3, <1>4, <1>5 DEF Init, TypeOK
<1> QED
  BY <1>6 DEF Init, TypeInv, ViewOK, WorkOK, Snapshotting, Generating

\* The pair a tick claims is one of the identity's pairs.
LEMMA PreferredPair ==
  ASSUME NEW v, NEW j, NEW p \in Preferred(Candidates(v, j), j)
  PROVE  p \in Pairs
BY DEF Preferred, Candidates, Missing, SelectMissing, FirstOf

\* The updates of the claim and of the outcomes yield journals.
LEMMA JournalUpdates ==
  ASSUME NEW j \in Journals, NEW p \in Pairs, NEW due \in Nat
  PROVE  /\ Claimed(j, p) \in Journals
         /\ Claimed(j, p).session = j.session
         /\ [j EXCEPT !.status = "quality_blocked",
                      !.attempts[p] = @ + 1, !.active = NoPair] \in Journals
         /\ \A st \in Statuses :
              [j EXCEPT !.status = st, !.active = NoPair, !.dueAt = due] \in Journals
<1>1. j.paid + 1 \in Nat /\ [j.attempts EXCEPT ![p] = @ + 1] \in [Pairs -> Nat]
  BY DEF Journals
<1>2. {"running", "quality_blocked"} \subseteq Statuses
  BY DEF Statuses
<1>3. Claimed(j, p) \in Journals /\ Claimed(j, p).session = j.session
  BY <1>1, <1>2 DEF Claimed, Journals
<1>4. [j EXCEPT !.status = "quality_blocked",
                !.attempts[p] = @ + 1, !.active = NoPair] \in Journals
  BY <1>1, <1>2 DEF Journals
<1>5. ASSUME NEW st \in Statuses
      PROVE  [j EXCEPT !.status = st, !.active = NoPair, !.dueAt = due] \in Journals
  BY <1>5 DEF Journals
<1> QED
  BY <1>3, <1>4, <1>5

\* Every step keeps the types: one step of the proof per action.
LEMMA TypeStep == TypeInv /\ [Next]_vars => TypeInv'
<1> SUFFICES ASSUME TypeInv, [Next]_vars PROVE TypeInv'
  OBVIOUS
<1> USE DEF TypeInv, ViewOK, WorkOK, Snapshotting, Generating
<1>1. ASSUME NEW t \in Ticks, StartTick(t) PROVE TypeInv'
  <2>1. TypeOK'
    BY <1>1, CurrentViewType DEF TypeOK, StartTick, world, durable, observed, Stages
  <2> QED
    BY <1>1, <2>1, CurrentViewType
    DEF TypeOK, StartTick, world, durable, observed
<1>2. ASSUME NEW t \in Ticks, TickSkipped(t) PROVE TypeInv'
  BY <1>2, EmptyType
  DEF TypeOK, TickSkipped, Release, world, durable, observed, Stages
<1>3. ASSUME NEW t \in Ticks, Decide(t) PROVE TypeInv'
  <2>1. CASE TickInterrupted(t)
    BY <2>1, SettleType DEF TickInterrupted, Statuses
  <2>2. CASE TickIdle(t) \/ TickHalfSaved(t)
    <3>1. PICK j \in LoadedFor(view[t].session) :
            Proceed(t, j) /\ Settle(t, j, j.status)
      BY <2>2 DEF TickIdle, TickHalfSaved
    <3>2. j \in Journals
      BY <3>1, LoadedType DEF Proceed
    <3> QED
      BY <3>1, <3>2, SettleType DEF Journals
  <2>3. CASE TickMissedWindow(t)
    BY <2>3, SettleType DEF TickMissedWindow, Statuses
  <2>4. CASE TickNothingMissing(t)
    BY <2>4, SettleType DEF TickNothingMissing, Statuses
  <2>5. CASE TickExhausted(t)
    BY <2>5, SettleType DEF TickExhausted, Statuses
  <2>6. CASE TickClaim(t)
    <3>0. PICK j \in LoadedFor(view[t].session) :
            \E p \in Preferred(Candidates(view[t], j), j) : Claim(t, j, p)
      BY <2>6 DEF TickClaim
    <3>1. PICK p \in Preferred(Candidates(view[t], j), j) : Claim(t, j, p)
      BY <3>0
    <3>2. j \in Journals /\ j.session = view[t].session /\ p \in Pairs
      BY <3>1, LoadedType, PreferredPair DEF Claim, Proceed
    <3>3. Claimed(j, p) \in Journals /\ Claimed(j, p).session \in Sessions
      BY <3>1, <3>2, JournalUpdates DEF Claim, Proceed
    <3>4. mem' \in [Ticks -> Works]
      BY <3>1, <3>2, <3>3, ConstantsAssumption DEF TypeOK, Works, Claim
    <3>5. TypeOK'
      BY <3>1, <3>3, <3>4, CurrentViewType
      DEF TypeOK, Claim, OpenWindow, world, observed, Stages
    <3> QED
      BY <3>1, <3>2, <3>3, <3>5, CurrentViewType DEF TypeOK, Claim
  <2> QED
    BY <1>3, <2>1, <2>2, <2>3, <2>4, <2>5, <2>6 DEF Decide
<1>4. ASSUME NEW t \in Ticks, Generate(t) PROVE TypeInv'
  <2> DEFINE jr == mem[t].journal
  <2>1. pc[t] \in Generating /\ mem[t] \in Works /\ ledger \in Nat
    BY <1>4 DEF Generate, TypeOK, FirstCheck, RequestStory, StoryAccepted,
       RequestPanels, PanelsAccepted, DraftAdded, QualityRejected,
       BudgetExhausted, RateLimited, GenerationFailed
  <2>2. jr \in Journals /\ mem[t].pair \in Pairs /\ mem[t].cost \in Nat /\ mem[t].at \in Nat
    BY <2>1 DEF Works
  <2>3. CASE FirstCheck(t)
    BY <2>3, EmptyType DEF TypeOK, FirstCheck, Await, world, durable, observed, Stages
  <2>4. ASSUME NEW cost \in Costs, RequestStory(t, cost) PROVE TypeInv'
    <3>1. RequestStory(t, cost)
      BY <2>4
    <3>2. mem' \in [Ticks -> Works]
      BY <3>1, <2>1, ConstantsAssumption DEF TypeOK, Works, Charge, RequestStory
    <3>3. billed' \in [Sessions -> Nat] /\ stories' \in [Sessions -> Nat]
      <4>1. Mine(t) \in Sessions /\ cost \in Nat
        BY <2>1, ConstantsAssumption DEF Mine
      <4> QED
        BY <3>1, <4>1 DEF TypeOK, Charge, RequestStory
    <3>4. \A u \in Ticks : mem'[u].journal = mem[u].journal /\ mem'[u].pair = mem[u].pair
      BY <3>1 DEF TypeOK, Charge, Works, RequestStory
    <3> QED
      BY <3>1, <3>2, <3>3, <3>4 DEF TypeOK, RequestStory, Await, world, durable, Stages
  <2>5. CASE StoryAccepted(t)
    BY <2>5, <2>2, CurrentViewType
    DEF TypeOK, StoryAccepted, RecordCost, Await, world, observed, Stages
  <2>6. ASSUME NEW cost \in Costs, RequestPanels(t, cost) PROVE TypeInv'
    <3>1. RequestPanels(t, cost)
      BY <2>6
    <3>2. mem' \in [Ticks -> Works]
      BY <3>1, <2>1, ConstantsAssumption DEF TypeOK, Works, Charge, RequestPanels
    <3>3. billed' \in [Sessions -> Nat] /\ renders' \in [Sessions -> Nat]
      <4>1. Mine(t) \in Sessions /\ cost \in Nat
        BY <2>1, ConstantsAssumption DEF Mine
      <4> QED
        BY <3>1, <4>1 DEF TypeOK, Charge, RequestPanels
    <3>4. \A u \in Ticks : mem'[u].journal = mem[u].journal /\ mem'[u].pair = mem[u].pair
      BY <3>1 DEF TypeOK, Charge, Works, RequestPanels
    <3> QED
      BY <3>1, <3>2, <3>3, <3>4, EmptyType DEF TypeOK, RequestPanels, Await, world, durable, Stages
  <2>7. CASE PanelsAccepted(t)
    BY <2>7, <2>2, CurrentViewType
    DEF TypeOK, PanelsAccepted, RecordCost, Await, world, observed, Stages
  <2>8. CASE DraftAdded(t)
    <3> DEFINE j == [jr EXCEPT !.status = "review_required",
                               !.completed = @ \cup {mem[t].pair},
                               !.active = NoPair]
    <3>1. j \in Journals
      BY <2>2 DEF Journals, Statuses
    <3>2. disk' \in Journals
      BY <3>1, <2>8 DEF DraftAdded, Conclude, TypeOK
    <3>3. /\ draftIds' \subseteq (Sessions \cup {NoSession}) \X (Pairs \cup {NoPair})
          /\ drafts' \subseteq Pairs
      BY <2>8, <2>1, <2>2 DEF DraftAdded, TypeOK, Mine
    <3>4. cutOff' \subseteq Sessions \cup {NoSession}
      BY <2>8, <2>1 DEF DraftAdded, Conclude, TypeOK, Mine
    <3> QED
      BY <2>8, <3>2, <3>3, <3>4, EmptyType
      DEF TypeOK, DraftAdded, Conclude, Release, Stages
  <2>9. CASE QualityRejected(t)
    <3> DEFINE j == [jr EXCEPT !.status = "quality_blocked",
                               !.attempts[mem[t].pair] = @ + 1,
                               !.active = NoPair]
    <3>1. j \in Journals
      BY <2>2, JournalUpdates
    <3> QED
      BY <2>9, <3>1, <2>1, <2>2, ConcludeType DEF QualityRejected, RecordCost
  <2>10. CASE BudgetExhausted(t)
    <3> DEFINE j == [jr EXCEPT !.status = "waiting_budget",
                               !.active = NoPair,
                               !.dueAt = mem[t].at + BudgetWait]
    <3>1. j \in Journals
      <4>1. mem[t].at + BudgetWait \in Nat
        BY <2>2, ConstantsAssumption
      <4>2. "waiting_budget" \in Statuses
        BY DEF Statuses
      <4> HIDE DEF jr
      <4> QED
        BY <2>2, <4>1, <4>2, JournalUpdates
    <3> QED
      BY <2>10, <3>1, <2>1, ConcludeType DEF BudgetExhausted
  <2>11. ASSUME NEW wait \in RetryWaits, RateLimited(t, wait) PROVE TypeInv'
    <3> DEFINE j == [jr EXCEPT !.status = "waiting_provider",
                               !.active = NoPair,
                               !.dueAt = mem[t].at + wait]
    <3>1. j \in Journals
      <4>1. mem[t].at + wait \in Nat
        BY <2>2, ConstantsAssumption
      <4>2. "waiting_provider" \in Statuses
        BY DEF Statuses
      <4> HIDE DEF jr
      <4> QED
        BY <2>2, <4>1, <4>2, JournalUpdates
    <3> QED
      BY <2>11, <3>1, <2>1, ConcludeType DEF RateLimited
  <2>12. CASE GenerationFailed(t)
    <3>1. [jr EXCEPT !.status = "failed"] \in Journals
      BY <2>2 DEF Journals, Statuses
    <3> QED
      BY <2>12, <3>1, <2>1, <2>2, ConcludeType DEF GenerationFailed, RecordCost
  <2> QED
    BY <1>4, <2>3, <2>4, <2>5, <2>6, <2>7, <2>8, <2>9, <2>10, <2>11, <2>12
    DEF Generate
<1>5. CASE Crash
  <2>1. {Mine(t) : t \in {u \in Ticks : pc[u] \in Generating}} \subseteq Sessions
    BY DEF Mine
  <2>2. crashes' \in Nat /\ cutOff' \subseteq Sessions \cup {NoSession}
    BY <1>5, <2>1 DEF Crash, TypeOK
  <2>3. pc' \in [Ticks -> Stages] /\ view' \in [Ticks -> Views] /\ mem' \in [Ticks -> Works]
    BY <1>5, EmptyType DEF Crash, Stages
  <2> QED
    BY <1>5, <2>2, <2>3 DEF Crash, TypeOK, world, durable
<1>6. CASE Restart
  BY <1>6 DEF Restart, TypeOK, world, durable, observed
<1>7. CASE Environment
  <2> USE DEF Outside, durable, observed
  <2>1. TypeOK'
    <3>1. CASE Elapse
      BY <3>1, <1>7 DEF Elapse, TypeOK
    <3>2. CASE SessionBegins
      BY <3>2 DEF SessionBegins, TypeOK
    <3>3. CASE SessionEnds
      <4>1. epoch' \in 1..MaxEpoch
        BY <3>3, ConstantsAssumption DEF SessionEnds, TypeOK
      <4>2. endedAt' \in Nat
        BY <3>3, ConstantsAssumption DEF SessionEnds, TypeOK
      <4> QED
        BY <3>3, <4>1, <4>2 DEF SessionEnds, TypeOK
    <3>4. CASE IdentityChanges
      BY <3>4 DEF IdentityChanges, TypeOK
    <3>5. CASE SettingToggled
      BY <3>5 DEF SettingToggled, TypeOK
    <3>6. CASE UserDrafts
      BY <3>6 DEF UserDrafts, TypeOK
    <3>7. CASE UserArchives
      BY <3>7 DEF UserArchives, TypeOK
    <3>8. CASE FlipMined
      BY <3>8 DEF FlipMined, TypeOK
    <3> QED
      BY <1>7, <3>1, <3>2, <3>3, <3>4, <3>5, <3>6, <3>7, <3>8 DEF Environment
  <2>2. UNCHANGED <<pc, view, mem>>
    BY <1>7 DEF Environment, Elapse, SessionBegins, SessionEnds,
       IdentityChanges, SettingToggled, UserDrafts, UserArchives, FlipMined
  <2> QED
    BY <2>1, <2>2
<1>8. CASE UNCHANGED vars
  BY <1>8 DEF vars, TypeOK
<1> QED
  BY <1>1, <1>2, <1>3, <1>4, <1>5, <1>6, <1>7, <1>8 DEF Next

\* Type correctness, for any number of ticks, pairs, addresses and epochs.
THEOREM TypeCorrect == Spec => []TypeOK
<1>1. TypeInv => TypeOK
  BY DEF TypeInv
<1> QED
  BY <1>1, TypeInit, TypeStep, PTL DEF Spec

-----------------------------------------------------------------------------
(* The latch and the claim. The claim on disk is only as good as the latch: *)
(* a second tick would take it for a dead run and overwrite it.             *)

LatchInv ==
  /\ \A t \in Ticks : pc[t] # "none" => busy
  /\ \A t, u \in Ticks : pc[t] # "none" /\ pc[u] # "none" => t = u

ClaimInv ==
  \A t \in Ticks : pc[t] \in Generating =>
    /\ mem[t].journal = disk
    /\ disk.status = "running"
    /\ disk.active = mem[t].pair
    /\ disk.paid = MaxPaidAttempts

SafeInv == TypeInv /\ LatchInv /\ ClaimInv

\* What an action of activation t may do to the control state.
Moves(t) ==
  /\ pc' \in [Ticks -> Stages] /\ pc[t] # "none"
  /\ \A u \in Ticks \ {t} : pc'[u] = pc[u]

\* An activation that moves keeps the latch if it holds it or lets it go.
LEMMA LatchKept ==
  ASSUME SafeInv, NEW t \in Ticks, Moves(t),
         busy' = busy \/ (busy' = FALSE /\ pc'[t] = "none")
  PROVE  LatchInv' /\ \A u \in Ticks \ {t} : pc'[u] = "none"
BY DEF SafeInv, LatchInv, Moves

\* Leaving the busy section keeps the latch and the claims of nobody.
LEMMA ReleaseSafe ==
  ASSUME SafeInv, NEW t \in Ticks, pc[t] # "none", Release(t)
  PROVE  LatchInv' /\ ClaimInv' /\ \A u \in Ticks : pc'[u] = "none"
<1>1. Moves(t) /\ pc'[t] = "none"
  BY DEF SafeInv, TypeInv, TypeOK, Release, Moves, Stages
<1>2. LatchInv' /\ \A u \in Ticks : pc'[u] = "none"
  BY <1>1, LatchKept DEF Release
<1> QED
  BY <1>2 DEF ClaimInv, Generating

\* Every step keeps the latch and the claim of the run in flight: tick() enters
\* only when it is free, and only the claiming activation writes the journal.
LEMMA SafeStep == SafeInv /\ [Next]_vars => SafeInv'
<1> SUFFICES ASSUME SafeInv, [Next]_vars PROVE SafeInv'
  OBVIOUS
<1>0. TypeInv' /\ TypeInv /\ pc \in [Ticks -> Stages] /\ mem \in [Ticks -> Works]
  BY TypeStep DEF SafeInv, TypeInv, TypeOK
<1> SUFFICES LatchInv' /\ ClaimInv'
  BY <1>0 DEF SafeInv
<1>1. ASSUME NEW t \in Ticks, StartTick(t) PROVE LatchInv' /\ ClaimInv'
  BY <1>0, <1>1 DEF SafeInv, LatchInv, ClaimInv, StartTick, durable, Generating
<1>2. ASSUME NEW t \in Ticks, TickSkipped(t) PROVE LatchInv' /\ ClaimInv'
  BY <1>2, ReleaseSafe DEF TickSkipped
<1>3. ASSUME NEW t \in Ticks, Decide(t) PROVE LatchInv' /\ ClaimInv'
  <2>1. CASE TickClaim(t)
    <3>1. PICK j \in LoadedFor(view[t].session) :
            \E p \in Preferred(Candidates(view[t], j), j) : Claim(t, j, p)
      BY <2>1 DEF TickClaim
    <3>2. PICK p \in Preferred(Candidates(view[t], j), j) : Claim(t, j, p)
      BY <3>1
    <3>3. view[t].session \in Sessions
      BY <3>2, <1>0 DEF Claim, Proceed, TypeInv, ViewOK, Snapshotting
    <3>4. j \in Journals
      BY <3>3, <1>0, LoadedType DEF TypeInv
    <3>5. Claimed(j, p).status = "running" /\ Claimed(j, p).active = p
          /\ Claimed(j, p).paid = MaxPaidAttempts
      BY <3>2, <3>4 DEF Claim, Claimed, Journals, MaxPaidAttempts
    <3>6. mem'[t].journal = disk' /\ mem'[t].pair = p /\ disk' = Claimed(j, p)
      BY <3>2, <1>0 DEF Claim
    <3>7. Moves(t) /\ busy' = busy
      BY <3>2, <1>0 DEF Claim, Proceed, Moves, Stages
    <3>8. LatchInv' /\ \A u \in Ticks \ {t} : pc'[u] = "none"
      BY <3>7, LatchKept
    <3> QED
      BY <3>5, <3>6, <3>8 DEF ClaimInv, Generating
  <2>2. CASE ~TickClaim(t)
    <3>1. pc[t] # "none" /\ Release(t)
      BY <1>3, <2>2 DEF Decide, TickInterrupted, TickIdle, TickHalfSaved,
         TickMissedWindow, TickNothingMissing, TickExhausted, Settle, Proceed
    <3> QED
      BY <3>1, ReleaseSafe
  <2> QED
    BY <2>1, <2>2
<1>4. ASSUME NEW t \in Ticks, Generate(t) PROVE LatchInv' /\ ClaimInv'
  <2>1. CASE Release(t)
    <3>1. pc[t] # "none"
      BY <1>4 DEF Generate, FirstCheck, RequestStory, StoryAccepted,
       RequestPanels, PanelsAccepted, DraftAdded, QualityRejected,
       BudgetExhausted, RateLimited, GenerationFailed, Generating
    <3> QED
      BY <2>1, <3>1, ReleaseSafe
  <2>2. CASE ~Release(t)
    <3> DEFINE GoesOn ==
          /\ pc[t] \in Generating /\ disk' = disk /\ busy' = busy
          /\ Moves(t)
          /\ pc'[t] \in Generating
          /\ \A u \in Ticks : mem'[u].journal = mem[u].journal
                              /\ mem'[u].pair = mem[u].pair
    <3>1. GoesOn
      <4>1. CASE FirstCheck(t)
        BY <4>1, <1>0 DEF FirstCheck, Await, durable, Moves, Generating, Stages
      <4>2. ASSUME NEW cost \in Costs, RequestStory(t, cost) PROVE GoesOn
        BY <4>2, <1>0 DEF RequestStory, Await, Charge, durable, Moves, Generating, Stages, Works
      <4>3. CASE StoryAccepted(t)
        BY <4>3, <1>0 DEF StoryAccepted, Await, Moves, Generating, Stages
      <4>4. ASSUME NEW cost \in Costs, RequestPanels(t, cost) PROVE GoesOn
        BY <4>4, <1>0 DEF RequestPanels, Await, Charge, durable, Moves, Generating, Stages, Works
      <4>5. CASE PanelsAccepted(t)
        BY <4>5, <1>0 DEF PanelsAccepted, Await, Moves, Generating, Stages
      <4>6. CASE DraftAdded(t) \/ QualityRejected(t) \/ BudgetExhausted(t)
                 \/ GenerationFailed(t)
                 \/ \E wait \in RetryWaits : RateLimited(t, wait)
        BY <2>2, <4>6 DEF DraftAdded, QualityRejected, BudgetExhausted,
           RateLimited, GenerationFailed, Fail, Conclude
      <4> QED
        BY <1>4, <4>1, <4>2, <4>3, <4>4, <4>5, <4>6 DEF Generate
    <3>2. LatchInv' /\ \A u \in Ticks \ {t} : pc'[u] = "none"
      BY <3>1, LatchKept
    <3> QED
      BY <3>1, <3>2 DEF SafeInv, ClaimInv, Generating
  <2> QED
    BY <2>1, <2>2
<1>5. CASE Crash
  BY <1>5 DEF Crash, LatchInv, ClaimInv, Generating
<1>6. CASE UNCHANGED <<busy, pc, mem, disk>>
  BY <1>6 DEF SafeInv, LatchInv, ClaimInv
<1>7. CASE Restart \/ Environment \/ UNCHANGED vars
  BY <1>6, <1>7 DEF Restart, Environment, Outside, durable, vars, Elapse,
     SessionBegins, SessionEnds, IdentityChanges, SettingToggled, UserDrafts,
     UserArchives, FlipMined
<1> QED
  BY <1>1, <1>2, <1>3, <1>4, <1>5, <1>7 DEF Next

\* No activation runs when the application is first started.
LEMMA SafeInit == Init => SafeInv
BY TypeInit DEF Init, SafeInv, LatchInv, ClaimInv, Generating

\* While a paid request may be in flight, the claim is on disk.
THEOREM ClaimDurable == Spec => []ClaimIsDurable
<1>1. SafeInv => ClaimIsDurable
  BY DEF SafeInv, ClaimInv, ClaimIsDurable, Mine
<1> QED
  BY <1>1, SafeInit, SafeStep, PTL DEF Spec

-----------------------------------------------------------------------------
(* At most one paid run per session. The journal remembers one session      *)
(* only, so the argument needs sessions to come in the order of epochs: the *)
(* profile keeps one identity. Then a session without a journal is newer    *)
(* than the journal on disk, and nothing was bought for it yet.             *)

OneIdentity == \A a, b \in Addrs : a = b

Unbought(s) == stories[s] = 0 /\ renders[s] = 0

\* Nothing was bought for a session younger than the journal.
YoungUnbought ==
  \A s \in Sessions :
    disk.session = NoSession \/ s.epoch > disk.session.epoch => Unbought(s)

\* Nothing was bought under a journal that counts no paid attempt.
UnclaimedUnbought ==
  disk.session \in Sessions /\ disk.paid = 0 => Unbought(disk.session)

JournalNotAhead == disk.session \in Sessions => disk.session.epoch <= epoch

\* A run has bought no story before RequestStory and no image before
\* RequestPanels.
StageUnbought ==
  \A t \in Ticks :
    /\ pc[t] \in {"check1", "words"} => stories[Mine(t)] = 0
    /\ pc[t] \in {"check1", "words", "story", "check2"} => renders[Mine(t)] = 0

BuyInv ==
  /\ SafeInv
  /\ YoungUnbought /\ UnclaimedUnbought /\ JournalNotAhead /\ StageUnbought
  /\ OnePaidRunPerSession

\* A loaded journal is as honest as the one on disk.
LEMMA LoadedHonest ==
  ASSUME OneIdentity, BuyInv, NEW s \in Sessions, s.epoch = epoch,
         NEW j \in LoadedFor(s)
  PROVE  /\ j \in Journals /\ j.session = s
         /\ j.paid = 0 => Unbought(s)
         /\ \A r \in Sessions : r.epoch > s.epoch => Unbought(r)
<1>1. TypeOK /\ disk \in Journals
  BY DEF BuyInv, SafeInv, TypeInv, TypeOK
<1>2. j \in Journals /\ j.session = s
  BY <1>1, LoadedType
<1>3. CASE disk.session = s
  <2>1. j.paid = 0 => disk.paid = 0
    <3>1. j = disk \/ j = Migrated(disk)
      BY <1>3 DEF LoadedFor
    <3>2. disk.paid \in Nat /\ KnownAttempts(disk) \in Nat
      BY <1>1, KnownAttemptsType DEF Journals
    <3>3. Migrated(disk).paid = IF KnownAttempts(disk) > disk.paid
                                  THEN KnownAttempts(disk) ELSE disk.paid
      BY <1>1 DEF Migrated, Journals
    <3> HIDE DEF KnownAttempts
    <3> QED
      BY <3>1, <3>2, <3>3
  <2> QED
    BY <1>2, <1>3, <2>1 DEF BuyInv, UnclaimedUnbought, YoungUnbought
<1>4. CASE disk.session # s
  <2>1. CASE disk.session = NoSession
    BY <1>2, <2>1 DEF BuyInv, YoungUnbought
  <2>2. CASE disk.session \in Sessions
    <3>1. /\ disk.session.epoch \in Nat /\ s.epoch \in Nat /\ epoch \in Nat
          /\ disk.session.addr \in Addrs /\ s.addr \in Addrs
      BY <1>1, <2>2, ConstantsAssumption DEF Sessions, TypeOK
    <3>2. disk.session.addr = s.addr
      BY <3>1 DEF OneIdentity
    <3>3. disk.session.epoch # s.epoch
      BY <1>4, <2>2, <3>2 DEF Sessions
    <3>4. disk.session.epoch < s.epoch
      BY <3>1, <3>3, <2>2 DEF BuyInv, JournalNotAhead
    <3>5. \A r \in Sessions : r.epoch \in Nat
      BY ConstantsAssumption DEF Sessions
    <3> QED
      BY <1>2, <3>1, <3>4, <3>5 DEF BuyInv, YoungUnbought
  <2> QED
    BY <1>1, <2>1, <2>2 DEF Journals
<1> QED
  BY <1>3, <1>4

\* Saving a journal of a session under which purchases are accounted for.
LEMMA SavedHonest ==
  ASSUME BuyInv, SafeInv', NEW s \in Sessions, s.epoch <= epoch,
         disk' \in Journals, disk'.session = s,
         UNCHANGED <<stories, renders, epoch>>,
         disk'.paid = 0 => Unbought(s),
         \A r \in Sessions : r.epoch > s.epoch => Unbought(r),
         StageUnbought'
  PROVE  BuyInv'
<1>1. YoungUnbought'
  BY ConstantsAssumption DEF YoungUnbought, Unbought
<1>2. UnclaimedUnbought' /\ JournalNotAhead' /\ OnePaidRunPerSession'
  BY DEF UnclaimedUnbought, Unbought, JournalNotAhead, BuyInv, OnePaidRunPerSession
<1> QED
  BY <1>1, <1>2 DEF BuyInv

\* A step that neither buys nor saves keeps the account.
LEMMA NothingBought ==
  ASSUME BuyInv, SafeInv', UNCHANGED <<disk, stories, renders>>,
         epoch' \in Nat, epoch <= epoch', StageUnbought'
  PROVE  BuyInv'
<1>1. YoungUnbought' /\ UnclaimedUnbought' /\ OnePaidRunPerSession'
  BY DEF BuyInv, YoungUnbought, UnclaimedUnbought, Unbought, OnePaidRunPerSession
<1>2. JournalNotAhead'
  <2>1. epoch \in Nat /\ (disk.session \in Sessions => disk.session.epoch \in Nat)
    BY ConstantsAssumption DEF BuyInv, SafeInv, TypeInv, TypeOK, Sessions
  <2> QED
    BY <2>1 DEF BuyInv, JournalNotAhead
<1> QED
  BY <1>1, <1>2 DEF BuyInv

\* A purchase of the claimed run of activation t.
LEMMA ClaimedPurchase ==
  ASSUME BuyInv, SafeInv', NEW t \in Ticks, pc[t] \in Generating,
         UNCHANGED <<disk, epoch>>,
         \A s \in Sessions \ {Mine(t)} : stories'[s] = stories[s] /\ renders'[s] = renders[s],
         stories'[Mine(t)] <= 1, renders'[Mine(t)] <= 1, StageUnbought'
  PROVE  BuyInv'
<1>1. disk.session = Mine(t) /\ disk.paid = 1 /\ Mine(t) \in Sessions
  BY DEF BuyInv, SafeInv, ClaimInv, TypeInv, WorkOK, Mine, MaxPaidAttempts
<1>2. Mine(t).epoch \in Nat
  BY <1>1, ConstantsAssumption DEF Sessions
<1>3. YoungUnbought'
  BY <1>1, <1>2, ConstantsAssumption DEF BuyInv, YoungUnbought, Unbought
<1>4. UnclaimedUnbought' /\ JournalNotAhead'
  BY <1>1 DEF BuyInv, UnclaimedUnbought, JournalNotAhead
<1>5. OnePaidRunPerSession'
  BY DEF BuyInv, OnePaidRunPerSession
<1> QED
  BY <1>3, <1>4, <1>5 DEF BuyInv

\* Every step keeps the account of purchases: one step of the proof per action.
LEMMA BuyStep ==
  ASSUME OneIdentity
  PROVE  BuyInv /\ [Next]_vars => BuyInv'
<1> SUFFICES ASSUME BuyInv, [Next]_vars PROVE BuyInv'
  OBVIOUS
<1>0. /\ SafeInv /\ SafeInv' /\ TypeOK /\ ViewOK /\ WorkOK
      /\ pc \in [Ticks -> Stages] /\ mem \in [Ticks -> Works] /\ epoch \in Nat
  BY SafeStep DEF BuyInv, SafeInv, TypeInv, TypeOK
<1>1. ASSUME NEW t \in Ticks, StartTick(t) PROVE BuyInv'
  <2>1. StageUnbought'
    BY <1>0, <1>1 DEF BuyInv, StartTick, StageUnbought, Mine, observed
  <2> QED
    BY <1>0, <1>1, <2>1, NothingBought DEF StartTick, world, durable, observed
<1>2. ASSUME NEW t \in Ticks, pc[t] # "none", Release(t),
             UNCHANGED <<stories, renders>>
      PROVE  StageUnbought'
  BY <1>0, <1>2, ReleaseSafe DEF StageUnbought
<1>3. ASSUME NEW t \in Ticks, TickSkipped(t) PROVE BuyInv'
  BY <1>0, <1>2, <1>3, NothingBought DEF TickSkipped, world, durable, observed
<1>4. ASSUME NEW t \in Ticks, Decide(t) PROVE BuyInv'
  <2>0. ASSUME NEW j \in LoadedFor(view[t].session), Proceed(t, j)
        PROVE  /\ view[t].session \in Sessions /\ view[t].session.epoch = epoch
               /\ j \in Journals /\ j.session = view[t].session
               /\ j.paid = 0 => Unbought(view[t].session)
               /\ \A r \in Sessions : r.epoch > view[t].session.epoch => Unbought(r)
    <3>1. view[t].session \in Sessions /\ view[t].session.epoch = epoch
      BY <1>0, <2>0 DEF ViewOK, Snapshotting, Proceed, Usable
    <3> QED
      BY <3>1, LoadedHonest
  <2>1. ASSUME NEW j \in LoadedFor(view[t].session), Proceed(t, j),
               NEW status, Settle(t, j, status)
        PROVE  BuyInv'
    <3>1. disk' \in Journals
      BY <1>0 DEF SafeInv, TypeInv, TypeOK
    <3>2. disk'.session = j.session /\ disk'.paid = j.paid
      BY <2>0, <2>1 DEF Settle, Journals
    <3>3. UNCHANGED <<stories, renders, epoch>>
      BY <2>1 DEF Settle, observed, world
    <3>4. StageUnbought'
      BY <1>2, <2>1, <3>3 DEF Settle, Proceed
    <3> QED
      BY <1>0, <2>0, <2>1, <3>1, <3>2, <3>3, <3>4, SavedHonest
  <2>2. CASE TickClaim(t)
    <3>1. PICK j \in LoadedFor(view[t].session) :
            \E p \in Preferred(Candidates(view[t], j), j) : Claim(t, j, p)
      BY <2>2 DEF TickClaim
    <3>2. PICK p \in Preferred(Candidates(view[t], j), j) : Claim(t, j, p)
      BY <3>1
    <3>3. Proceed(t, j) /\ j.paid = 0
      BY <2>0, <3>2 DEF Claim, MaxPaidAttempts, Journals
    <3>4. /\ disk' \in Journals /\ disk'.session = j.session
          /\ disk'.paid = 1
      BY <1>0, <2>0, <3>2, <3>3
      DEF SafeInv, TypeInv, TypeOK, Claim, Claimed, Journals
    <3>5. UNCHANGED <<stories, renders, epoch>>
      BY <3>2 DEF Claim, observed, world
    <3>6. Moves(t) /\ busy' = busy
      BY <3>2, <1>0 DEF Claim, Proceed, Moves, Stages
    <3>7. \A u \in Ticks \ {t} : pc'[u] = "none"
      BY <1>0, <3>6, LatchKept
    <3>8. mem'[t].journal.session = view[t].session
      BY <1>0, <2>0, <3>2, <3>3, JournalUpdates, PreferredPair DEF Claim
    <3>9. StageUnbought'
      BY <2>0, <3>3, <3>5, <3>7, <3>8 DEF StageUnbought, Mine, Unbought
    <3> QED
      BY <1>0, <2>0, <3>3, <3>4, <3>5, <3>9, SavedHonest
  <2> QED
    BY <1>4, <2>1, <2>2 DEF Decide, TickInterrupted, TickIdle,
       TickHalfSaved, TickMissedWindow, TickNothingMissing, TickExhausted
<1>5. ASSUME NEW t \in Ticks, Generate(t) PROVE BuyInv'
  <2>1. ASSUME NEW j, pc[t] \in Generating, Conclude(t, j), epoch' = epoch,
               j.session = Mine(t), j.paid = mem[t].journal.paid
        PROVE  BuyInv'
    <3>1. StageUnbought'
      BY <1>2, <2>1 DEF Conclude, Generating
    <3>2. disk.session = Mine(t) /\ disk.paid = 1 /\ Mine(t) \in Sessions
      BY <1>0, <2>1 DEF SafeInv, ClaimInv, WorkOK, Mine, MaxPaidAttempts
    <3>3. disk'.session = Mine(t) /\ disk'.paid = 1 /\ disk' \in Journals
      BY <1>0, <2>1, <3>2 DEF Conclude, SafeInv, ClaimInv, TypeInv, TypeOK
    <3>4. Mine(t).epoch <= epoch
          /\ \A r \in Sessions : r.epoch > Mine(t).epoch => Unbought(r)
      BY <3>2 DEF BuyInv, JournalNotAhead, YoungUnbought
    <3> QED
      BY <1>0, <2>1, <3>1, <3>2, <3>3, <3>4, SavedHonest DEF Conclude
  <2>2. pc[t] \in Generating => mem[t].journal \in Journals
    BY <1>0 DEF Works
  <2>3. CASE FirstCheck(t)
    <3>1. StageUnbought'
      BY <1>0, <2>3 DEF BuyInv, FirstCheck, Await, StageUnbought, Mine, observed
    <3> QED
      BY <1>0, <2>3, <3>1, NothingBought DEF FirstCheck, world, durable, observed
  <2>4. ASSUME NEW cost \in Costs, RequestStory(t, cost) PROVE BuyInv'
    <3>1. pc[t] = "words" /\ stories[Mine(t)] = 0 /\ renders[Mine(t)] = 0
          /\ Mine(t) \in Sessions
      BY <1>0, <2>4 DEF BuyInv, RequestStory, StageUnbought, WorkOK, Mine, Generating
    <3>2. stories'[Mine(t)] = 1 /\ renders' = renders
      BY <1>0, <2>4, <3>1 DEF RequestStory, TypeOK
    <3>3. \A s \in Sessions \ {Mine(t)} : stories'[s] = stories[s]
      BY <1>0, <2>4 DEF RequestStory, TypeOK
    <3>4. \A u \in Ticks : mem'[u].journal = mem[u].journal
      BY <1>0, <2>4 DEF RequestStory, Charge, Works
    <3>5. \A u \in Ticks \ {t} : pc'[u] = "none"
      <4>1. Moves(t) /\ busy' = busy
        BY <1>0, <2>4 DEF RequestStory, Await, Moves, Stages
      <4> QED
        BY <1>0, <4>1, LatchKept
    <3>6. StageUnbought'
      BY <1>0, <2>4, <3>1, <3>2, <3>4, <3>5
      DEF StageUnbought, RequestStory, Await, Mine
    <3> QED
      BY <1>0, <2>4, <3>1, <3>2, <3>3, <3>6, ClaimedPurchase
      DEF RequestStory, durable, world, Generating, Stages
  <2>5. CASE StoryAccepted(t)
    <3>1. StageUnbought'
      BY <1>0, <2>5 DEF BuyInv, StoryAccepted, Await, StageUnbought, Mine, observed
    <3> QED
      BY <1>0, <2>5, <3>1, NothingBought DEF StoryAccepted, world, observed
  <2>6. ASSUME NEW cost \in Costs, RequestPanels(t, cost) PROVE BuyInv'
    <3>1. pc[t] = "check2" /\ renders[Mine(t)] = 0 /\ stories[Mine(t)] <= 1
          /\ Mine(t) \in Sessions
      BY <1>0, <2>6 DEF BuyInv, RequestPanels, StageUnbought, WorkOK, Mine,
         Generating, Stages, OnePaidRunPerSession
    <3>2. renders'[Mine(t)] = 1 /\ stories' = stories
      BY <1>0, <2>6, <3>1 DEF RequestPanels, TypeOK
    <3>3. \A s \in Sessions \ {Mine(t)} : renders'[s] = renders[s]
      BY <1>0, <2>6 DEF RequestPanels, TypeOK
    <3>4. \A u \in Ticks \ {t} : pc'[u] = "none"
      <4>1. Moves(t) /\ busy' = busy
        BY <1>0, <2>6 DEF RequestPanels, Await, Moves, Stages
      <4> QED
        BY <1>0, <4>1, LatchKept
    <3>5. StageUnbought'
      BY <1>0, <2>6, <3>4 DEF StageUnbought, RequestPanels, Await
    <3> QED
      BY <1>0, <2>6, <3>1, <3>2, <3>3, <3>5, ClaimedPurchase
      DEF RequestPanels, durable, world, Generating, Stages
  <2>7. CASE PanelsAccepted(t)
    <3>1. StageUnbought'
      BY <1>0, <2>7 DEF BuyInv, PanelsAccepted, Await, StageUnbought, Mine, observed
    <3> QED
      BY <1>0, <2>7, <3>1, NothingBought DEF PanelsAccepted, world, observed
  <2>8. CASE DraftAdded(t)
    BY <2>1, <2>2, <2>8 DEF DraftAdded, Mine, Journals, Generating, Stages
  <2>9. CASE QualityRejected(t)
    BY <2>1, <2>2, <2>9 DEF QualityRejected, Fail, Mine, Journals, Generating, Stages, world
  <2>10. CASE BudgetExhausted(t)
    BY <2>1, <2>2, <2>10 DEF BudgetExhausted, Fail, Mine, Journals, Generating, Stages, world
  <2>11. ASSUME NEW wait \in RetryWaits, RateLimited(t, wait) PROVE BuyInv'
    BY <2>1, <2>2, <2>11 DEF RateLimited, Fail, Mine, Journals, Generating, Stages, world
  <2>12. CASE GenerationFailed(t)
    BY <2>1, <2>2, <2>12 DEF GenerationFailed, Fail, Mine, Journals, world
  <2> QED
    BY <1>5, <2>3, <2>4, <2>5, <2>6, <2>7, <2>8, <2>9, <2>10, <2>11, <2>12
    DEF Generate
<1>6. CASE Crash
  <2>1. StageUnbought'
    BY <1>6 DEF Crash, StageUnbought
  <2> QED
    BY <1>0, <1>6, <2>1, NothingBought DEF Crash, world, durable
<1>7. ASSUME UNCHANGED <<pc, mem, disk, stories, renders>>,
             epoch' \in Nat, epoch <= epoch'
      PROVE  BuyInv'
  <2>1. StageUnbought'
    BY <1>7 DEF BuyInv, StageUnbought, Mine
  <2> QED
    BY <1>0, <1>7, <2>1, NothingBought
<1>8. CASE Restart \/ UNCHANGED vars
  BY <1>0, <1>7, <1>8 DEF Restart, vars, world, durable, observed
<1>9. CASE Environment
  BY <1>0, <1>7, <1>9 DEF Environment, Outside, durable, observed, Elapse,
     SessionBegins, SessionEnds, IdentityChanges, SettingToggled, UserDrafts,
     UserArchives, FlipMined
<1> QED
  BY <1>1, <1>3, <1>4, <1>5, <1>6, <1>8, <1>9 DEF Next

\* Nothing has been bought when the application is first started.
LEMMA BuyInit == Init => BuyInv
<1> SUFFICES ASSUME Init PROVE BuyInv
  OBVIOUS
<1>1. disk.session = NoSession \/ disk.session \in [epoch: {1}, addr: Addrs]
  BY LegacyAssumption DEF Init, NoJournal
<1>2. \A s \in Sessions : Unbought(s)
  BY DEF Init, Unbought
<1>3. JournalNotAhead
  BY <1>1, ConstantsAssumption DEF Init, JournalNotAhead
<1>4. OnePaidRunPerSession
  BY <1>2 DEF OnePaidRunPerSession, Unbought
<1> QED
  BY <1>2, <1>3, <1>4, SafeInit DEF Init, BuyInv, YoungUnbought,
     UnclaimedUnbought, StageUnbought

\* At most one story and one image request are bought for a session, for any
\* number of ticks, crashes, pairs and epochs, by a profile with one identity.
THEOREM OnePaidRun ==
  ASSUME OneIdentity
  PROVE  Spec => []OnePaidRunPerSession
<1>1. BuyInv => OnePaidRunPerSession
  BY DEF BuyInv
<1>2. Init => BuyInv
  BY BuyInit
<1>3. BuyInv /\ [Next]_vars => BuyInv'
  BY BuyStep
<1> QED
  BY <1>1, <1>2, <1>3, PTL DEF Spec
=============================================================================
