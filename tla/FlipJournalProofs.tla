-------------------------- MODULE FlipJournalProofs --------------------------
(***************************************************************************)
(* More proofs about FlipScheduler: what the journal says of the runs, what*)
(* it counts, and what the providers may charge.                           *)
(***************************************************************************)
EXTENDS FlipSchedulerProofs

-----------------------------------------------------------------------------
(* How a step writes the journal.                                           *)

\* A journal that counts its attempts (AttemptsAccounted, of any journal).
Accounted(j) == j.spendStarted => KnownAttempts(j) <= j.paid

\* What a journal vouches for depends on its completed pairs and attempts.
LEMMA SameAttempts ==
  ASSUME NEW j, NEW k, j.completed = k.completed, j.attempts = k.attempts
  PROVE  KnownAttempts(j) = KnownAttempts(k)
BY DEF KnownAttempts

\* Nothing is vouched for by a new journal.
LEMMA FreshAttempts ==
  ASSUME NEW j, j.completed = {}, j.attempts = [p \in Pairs |-> 0]
  PROVE  KnownAttempts(j) = 0
<1>1. UNION {{p} \X (1..j.attempts[p]) : p \in Pairs} = {}
  <2>1. \A p \in Pairs : 1..j.attempts[p] = {}
    OBVIOUS
  <2> QED
    BY <2>1
<1>2. Cardinality({}) = 0
  BY FS_EmptySet
<1> QED
  BY <1>1, <1>2 DEF KnownAttempts

\* What load() and the initialisations make of the journal on disk: another
\* one for another session, else the same one with its attempts counted.
LEMMA LoadedState ==
  ASSUME TypeOK, NEW s \in Sessions, NEW j \in LoadedFor(s)
  PROVE  /\ j \in Journals /\ j.session = s /\ j.spendStarted
         /\ disk.session = s => j.status = disk.status /\ disk.paid <= j.paid
         /\ disk.session # s => j.status = "scheduled" /\ KnownAttempts(j) = 0
         /\ Accounted(disk) => Accounted(j)
<1>0. j \in Journals /\ j.session = s /\ disk \in Journals
  BY LoadedType DEF TypeOK
<1>1. CASE disk.session # s
  <2>1. PICK delay \in Delays : j = FreshJournal(s, delay)
    BY <1>1 DEF LoadedFor
  <2>2. /\ j.completed = {} /\ j.attempts = [p \in Pairs |-> 0] /\ j.paid = 0
        /\ j.spendStarted /\ j.status = "scheduled"
    BY <2>1 DEF FreshJournal
  <2>3. KnownAttempts(j) = 0
    BY <2>2, FreshAttempts
  <2> QED
    BY <1>0, <1>1, <2>2, <2>3 DEF Accounted
<1>2. CASE disk.session = s
  <2>1. KnownAttempts(disk) \in Nat /\ disk.paid \in Nat
    BY <1>0, KnownAttemptsType DEF Journals
  <2>2. CASE disk.spendStarted
    <3>1. j = disk
      BY <1>2, <2>2 DEF LoadedFor
    <3> QED
      BY <1>0, <1>2, <2>1, <2>2, <3>1
  <2>3. CASE ~disk.spendStarted
    <3>1. j = Migrated(disk)
      BY <1>2, <2>3 DEF LoadedFor
    <3>2. /\ j.spendStarted /\ j.status = disk.status
          /\ j.completed = disk.completed /\ j.attempts = disk.attempts
      BY <1>0, <3>1 DEF Migrated, Journals
    <3>3. j.paid = IF KnownAttempts(disk) > disk.paid
                     THEN KnownAttempts(disk) ELSE disk.paid
      BY <1>0, <3>1 DEF Migrated, Journals
    <3>4. KnownAttempts(j) = KnownAttempts(disk)
      BY <3>2, SameAttempts
    <3> HIDE DEF KnownAttempts
    <3>5. KnownAttempts(disk) <= j.paid /\ disk.paid <= j.paid
      BY <2>1, <3>3
    <3> QED
      BY <1>0, <1>2, <3>2, <3>4, <3>5 DEF Accounted
  <2> QED
    BY <2>2, <2>3
<1> QED
  BY <1>1, <1>2

\* The ways a tick may leave the status of the journal it loaded.
SavedStatus(j, status) ==
  \/ status = j.status
  \/ j.status = "running" /\ status = "interrupted"
  \/ j.status \in Open /\ status \notin {"running", "interrupted"}

\* A tick that decides either saves the journal it loaded with another status
\* or claims a run.
LEMMA DecideCases ==
  ASSUME NEW t \in Ticks, Decide(t)
  PROVE  \E j \in LoadedFor(view[t].session) :
           /\ Proceed(t, j)
           /\ \/ \E status : Settle(t, j, status) /\ SavedStatus(j, status)
              \/ \E p \in Pairs : Claim(t, j, p)
<1>1. CASE TickInterrupted(t)
  BY <1>1 DEF TickInterrupted, SavedStatus
<1>2. CASE TickIdle(t) \/ TickHalfSaved(t)
  BY <1>2 DEF TickIdle, TickHalfSaved, SavedStatus
<1>3. CASE TickMissedWindow(t)
  BY <1>3 DEF TickMissedWindow, SavedStatus, Due, Open, Waiting
<1>4. CASE TickNothingMissing(t)
  BY <1>4 DEF TickNothingMissing, SavedStatus, MayRun, Due, Open, Waiting
<1>5. CASE TickExhausted(t)
  BY <1>5 DEF TickExhausted, SavedStatus, MayRun, Due, Open, Waiting
<1>6. CASE TickClaim(t)
  <2>1. PICK j \in LoadedFor(view[t].session) :
          \E p \in Preferred(Candidates(view[t], j), j) : Claim(t, j, p)
    BY <1>6 DEF TickClaim
  <2>2. PICK p \in Preferred(Candidates(view[t], j), j) : Claim(t, j, p)
    BY <2>1
  <2>3. p \in Pairs /\ Proceed(t, j)
    BY <2>2, PreferredPair DEF Claim
  <2> QED
    BY <2>1, <2>2, <2>3
<1> QED
  BY <1>1, <1>2, <1>3, <1>4, <1>5, <1>6 DEF Decide

\* The journals a run may end with: the claimed one with an outcome, and with
\* at most one completed pair or recorded failure more.
Outcome(j, k) ==
  /\ j \in Journals /\ j.session = k.session /\ j.paid = k.paid
  /\ j.spendStarted = k.spendStarted
  /\ j.status \notin {"running", "interrupted"}
  /\ KnownAttempts(j) <= KnownAttempts(k) + 1

\* One more completed pair is one more attempt to vouch for.
LEMMA CompletedOutcome ==
  ASSUME NEW k \in Journals, NEW p \in Pairs
  PROVE  Outcome([k EXCEPT !.status = "review_required",
                           !.completed = @ \cup {p}, !.active = NoPair], k)
<1> DEFINE j == [k EXCEPT !.status = "review_required",
                          !.completed = @ \cup {p}, !.active = NoPair]
           tries == Tries(k)
<1>1. j \in Journals
  BY DEF Journals, Statuses
<1>2. /\ j.session = k.session /\ j.paid = k.paid /\ j.spendStarted = k.spendStarted
      /\ j.status = "review_required" /\ j.attempts = k.attempts
      /\ j.completed = k.completed \cup {p}
  BY DEF Journals
<1>3. KnownAttempts(j) = Cardinality(k.completed \cup {p}) + Cardinality(tries)
  BY <1>2 DEF KnownAttempts, Tries
<1>4. KnownAttempts(k) = Cardinality(k.completed) + Cardinality(tries)
  BY DEF KnownAttempts, Tries
<1>5. IsFiniteSet(k.completed) /\ k.completed \subseteq Pairs
  BY FS_Subset, ConstantsAssumption DEF Journals
<1>6. Cardinality(k.completed) \in Nat
  BY <1>5, FS_CardinalityType
<1>7. Cardinality(k.completed \cup {p}) \in {Cardinality(k.completed), Cardinality(k.completed) + 1}
  BY <1>5, FS_AddElement
<1>8. KnownAttempts(k) \in Nat /\ KnownAttempts(j) \in Nat
  BY <1>1, KnownAttemptsType
<1> HIDE DEF j
<1>9. KnownAttempts(j) <= KnownAttempts(k) + 1
  <2> DEFINE a == Cardinality(k.completed)
             b == Cardinality(k.completed \cup {p})
             c == Cardinality(tries)
  <2>1. KnownAttempts(j) = b + c /\ KnownAttempts(k) = a + c /\ a \in Nat
        /\ (b = a \/ b = a + 1)
    BY <1>3, <1>4, <1>6, <1>7
  <2> HIDE DEF a, b, c
  <2>2. a + 1 \in Nat /\ b \in Nat
    BY <2>1
  <2>3. c \in Nat
    <3>1. IsFiniteSet(tries)
      BY TriesFinite
    <3> QED
      BY <3>1, FS_CardinalityType DEF c
  <2> QED
    BY <2>1, <2>2, <2>3
<1> QED
  BY <1>1, <1>2, <1>9 DEF Outcome, j

\* One more recorded failure is one more attempt to vouch for.
LEMMA FailedOutcome ==
  ASSUME NEW k \in Journals, NEW p \in Pairs
  PROVE  Outcome([k EXCEPT !.status = "quality_blocked",
                           !.attempts[p] = @ + 1, !.active = NoPair], k)
<1> DEFINE j == [k EXCEPT !.status = "quality_blocked",
                          !.attempts[p] = @ + 1, !.active = NoPair]
           new == <<p, k.attempts[p] + 1>>
<1>1. j \in Journals
  BY JournalUpdates, ConstantsAssumption
<1>2. /\ j.session = k.session /\ j.paid = k.paid /\ j.spendStarted = k.spendStarted
      /\ j.status = "quality_blocked" /\ j.completed = k.completed
      /\ j.attempts = [k.attempts EXCEPT ![p] = @ + 1]
  BY DEF Journals
<1> HIDE DEF j
<1>3. Tries(j) = Tries(k) \cup {new}
  <2>1. \A q \in Pairs : k.attempts[q] \in Nat
    BY DEF Journals
  <2>2. ASSUME NEW q \in Pairs
        PROVE  1..j.attempts[q] = IF q = p THEN (1..k.attempts[q]) \cup {k.attempts[q] + 1}
                                  ELSE 1..k.attempts[q]
    <3>1. j.attempts[q] = IF q = p THEN k.attempts[q] + 1 ELSE k.attempts[q]
      BY <1>2 DEF Journals
    <3>2. ASSUME NEW n \in Nat PROVE 1..(n + 1) = (1..n) \cup {n + 1}
      OBVIOUS
    <3>3. k.attempts[q] \in Nat
      BY <2>1
    <3> QED
      BY <3>1, <3>2, <3>3
  <2>3. ASSUME NEW x PROVE x \in Tries(j) <=> x \in Tries(k) \cup {new}
    <3>1. x \in Tries(j) <=> \E q \in Pairs : x \in {q} \X (1..j.attempts[q])
      BY DEF Tries
    <3>2. x \in Tries(k) <=> \E q \in Pairs : x \in {q} \X (1..k.attempts[q])
      BY DEF Tries
    <3>3. ASSUME NEW q \in Pairs
          PROVE  x \in {q} \X (1..j.attempts[q])
                 <=> x \in {q} \X (1..k.attempts[q]) \/ (q = p /\ x = new)
      <4>1. CASE q = p
        <5>1. ASSUME NEW R, NEW m PROVE {q} \X (R \cup {m}) = ({q} \X R) \cup {<<q, m>>}
          OBVIOUS
        <5>2. 1..j.attempts[q] = (1..k.attempts[q]) \cup {k.attempts[q] + 1}
          BY <2>2, <4>1
        <5>3. {q} \X (1..j.attempts[q])
                = ({q} \X (1..k.attempts[q])) \cup {<<q, k.attempts[q] + 1>>}
          BY <5>1, <5>2
        <5>4. new = <<q, k.attempts[q] + 1>>
          BY <4>1
        <5> QED
          BY <4>1, <5>3, <5>4
      <4>2. CASE q # p
        BY <2>2, <4>2
      <4> QED
        BY <4>1, <4>2
    <3> QED
      BY <3>1, <3>2, <3>3
  <2> QED
    BY <2>3
<1>4. IsFiniteSet(Tries(k)) /\ IsFiniteSet(k.completed)
  BY TriesFinite
<1>5. Cardinality(Tries(j)) \in {Cardinality(Tries(k)), Cardinality(Tries(k)) + 1}
  BY <1>3, <1>4, FS_AddElement
<1>6. Cardinality(Tries(k)) \in Nat /\ Cardinality(k.completed) \in Nat
  BY <1>4, FS_CardinalityType
<1>7. KnownAttempts(j) = Cardinality(k.completed) + Cardinality(Tries(j))
      /\ KnownAttempts(k) = Cardinality(k.completed) + Cardinality(Tries(k))
  BY <1>2 DEF KnownAttempts, Tries
<1>8. KnownAttempts(j) <= KnownAttempts(k) + 1
  BY <1>5, <1>6, <1>7
<1> QED
  BY <1>1, <1>2, <1>8 DEF Outcome, j

\* An outcome that touches neither completed pairs nor attempts.
LEMMA OtherOutcome ==
  ASSUME NEW k \in Journals, NEW j \in Journals,
         j.session = k.session, j.paid = k.paid, j.spendStarted = k.spendStarted,
         j.completed = k.completed, j.attempts = k.attempts,
         j.status \notin {"running", "interrupted"}
  PROVE  Outcome(j, k)
<1>1. KnownAttempts(j) = KnownAttempts(k) /\ KnownAttempts(k) \in Nat
  BY SameAttempts, KnownAttemptsType
<1> HIDE DEF KnownAttempts
<1>2. KnownAttempts(j) <= KnownAttempts(k) + 1
  BY <1>1
<1> QED
  BY <1>2 DEF Outcome

\* A step of a run leaves the journal and the losses alone, or ends the run
\* with an outcome of the claimed journal, which is the one on disk.
LEMMA GenerateCases ==
  ASSUME SafeInv, NEW t \in Ticks, Generate(t)
  PROVE  /\ pc[t] \in Generating /\ Mine(t) \in Sessions
         /\ \/ UNCHANGED <<disk, cutOff>> /\ pc'[t] \in Generating
               /\ \A u \in Ticks \ {t} : pc'[u] = pc[u]
            \/ \E j : Conclude(t, j) /\ Outcome(j, disk)
<1>0. /\ TypeOK /\ WorkOK /\ pc \in [Ticks -> Stages] /\ disk \in Journals
      /\ mem \in [Ticks -> Works]
  BY DEF SafeInv, TypeInv, TypeOK
<1>1. pc[t] \in Generating
  BY DEF Generate, FirstCheck, RequestStory, StoryAccepted,
     RequestPanels, PanelsAccepted, DraftAdded, QualityRejected,
     BudgetExhausted, RateLimited, GenerationFailed, Generating, Stages
<1>2. mem[t].journal = disk /\ mem[t].pair \in Pairs /\ Mine(t) \in Sessions
      /\ mem[t].at \in Nat
  BY <1>0, <1>1 DEF SafeInv, ClaimInv, WorkOK, Mine, Works
<1> DEFINE GoesOn == /\ UNCHANGED <<disk, cutOff>> /\ pc'[t] \in Generating
                     /\ \A u \in Ticks \ {t} : pc'[u] = pc[u]
           Ends == \E j : Conclude(t, j) /\ Outcome(j, disk)
<1> SUFFICES GoesOn \/ Ends
  BY <1>1, <1>2
<1>3. CASE FirstCheck(t)
  BY <1>0, <1>1, <1>3 DEF FirstCheck, Await, durable, observed, Generating, Stages
<1>4. ASSUME NEW cost \in Costs, RequestStory(t, cost) \/ RequestPanels(t, cost)
      PROVE  GoesOn
  BY <1>0, <1>4 DEF RequestStory, RequestPanels, Await, durable, Generating, Stages
<1>5. CASE StoryAccepted(t) \/ PanelsAccepted(t)
  BY <1>0, <1>5 DEF StoryAccepted, PanelsAccepted, Await, observed, Generating, Stages
<1>6. CASE DraftAdded(t)
  <2>1. \E j : Conclude(t, j) /\ j = [mem[t].journal EXCEPT !.status = "review_required",
                                        !.completed = @ \cup {mem[t].pair},
                                        !.active = NoPair]
    BY <1>6 DEF DraftAdded
  <2> QED
    BY <1>0, <1>2, <2>1, CompletedOutcome
<1>7. CASE QualityRejected(t)
  <2>1. \E j : Conclude(t, j) /\ j = [mem[t].journal EXCEPT !.status = "quality_blocked",
                                    !.attempts[mem[t].pair] = @ + 1,
                                    !.active = NoPair]
    BY <1>7 DEF QualityRejected, Fail
  <2> QED
    BY <1>0, <1>2, <2>1, FailedOutcome
<1>8. ASSUME NEW due \in Nat, NEW status \in Waiting,
             Conclude(t, [disk EXCEPT !.status = status, !.active = NoPair, !.dueAt = due])
      PROVE  Ends
  <2> DEFINE j == [disk EXCEPT !.status = status, !.active = NoPair, !.dueAt = due]
  <2>1. j \in Journals
    BY <1>0, <1>2, JournalUpdates DEF Waiting, Statuses
  <2>2. /\ j.session = disk.session /\ j.paid = disk.paid
        /\ j.spendStarted = disk.spendStarted
        /\ j.completed = disk.completed /\ j.attempts = disk.attempts
        /\ j.status = status
    BY <1>0 DEF Journals
  <2> HIDE DEF j
  <2>3. Outcome(j, disk)
    BY <1>0, <2>1, <2>2, OtherOutcome DEF Waiting
  <2> QED
    BY <1>8, <2>3 DEF j
<1>9. CASE BudgetExhausted(t)
  <2>1. mem[t].at + BudgetWait \in Nat
    BY <1>2, ConstantsAssumption
  <2> QED
    BY <1>2, <1>8, <1>9, <2>1 DEF BudgetExhausted, Fail, Waiting
<1>10. ASSUME NEW wait \in RetryWaits, RateLimited(t, wait)
       PROVE  Ends
  <2>1. mem[t].at + wait \in Nat
    BY <1>2, ConstantsAssumption
  <2> QED
    BY <1>2, <1>8, <1>10, <2>1 DEF RateLimited, Fail, Waiting
<1>11. CASE GenerationFailed(t)
  <2> DEFINE j == [disk EXCEPT !.status = "failed"]
  <2>1. /\ j \in Journals /\ j.session = disk.session /\ j.paid = disk.paid
        /\ j.spendStarted = disk.spendStarted
        /\ j.completed = disk.completed /\ j.attempts = disk.attempts
        /\ j.status = "failed"
    BY <1>0 DEF Journals, Statuses
  <2>2. Conclude(t, j)
    BY <1>2, <1>11 DEF GenerationFailed, Fail
  <2> HIDE DEF j
  <2>3. Outcome(j, disk)
    BY <1>0, <2>1, OtherOutcome
  <2> QED
    BY <2>2, <2>3
<1> QED
  BY <1>1, <1>2, <1>3, <1>4, <1>5, <1>6, <1>7, <1>9, <1>10, <1>11 DEF Generate

\* Every step leaves the journal alone or is one of these.
LEMMA QuietSteps ==
  ASSUME [Next]_vars,
         ~ \E t \in Ticks : Decide(t) \/ Generate(t)
  PROVE  /\ UNCHANGED <<disk, draftIds, billed, ledger>>
         /\ Crash \/ UNCHANGED cutOff
BY DEF Next, vars, StartTick, TickSkipped, Crash, Restart, Environment,
   Outside, durable, observed, Elapse, SessionBegins, SessionEnds,
   IdentityChanges, SettingToggled, UserDrafts, UserArchives, FlipMined

-----------------------------------------------------------------------------
(* The losses: a claim without a run was cut off, and only such a claim is  *)
(* ever called interrupted.                                                 *)

\* A claim on disk has a run, or its run was cut off.
ClaimHasRun ==
  disk.status = "running" =>
    disk.session \in cutOff \/ \E t \in Ticks : pc[t] \in Generating

LossInv == SafeInv /\ ClaimHasRun /\ InterruptedMeansCutOff

\* Every step keeps the account of the losses.
LEMMA LossStep == LossInv /\ [Next]_vars => LossInv'
<1> SUFFICES ASSUME LossInv, [Next]_vars PROVE LossInv'
  OBVIOUS
<1>0. SafeInv /\ SafeInv' /\ TypeOK /\ pc \in [Ticks -> Stages]
      /\ disk \in Journals /\ disk' \in Journals
  BY SafeStep DEF LossInv, SafeInv, TypeInv, TypeOK
<1> SUFFICES ClaimHasRun' /\ InterruptedMeansCutOff'
  BY <1>0 DEF LossInv
<1>1. ASSUME NEW t \in Ticks, Decide(t)
      PROVE  ClaimHasRun' /\ InterruptedMeansCutOff'
  <2>1. PICK j \in LoadedFor(view[t].session) :
           /\ Proceed(t, j)
           /\ \/ \E status : Settle(t, j, status) /\ SavedStatus(j, status)
              \/ \E p \in Pairs : Claim(t, j, p)
    BY <1>1, DecideCases
  <2>2. view[t].session \in Sessions /\ pc[t] = "snapshot"
    BY <1>0, <2>1 DEF Proceed, SafeInv, TypeInv, ViewOK, Snapshotting
  <2>3. /\ j \in Journals /\ j.session = view[t].session
        /\ disk.session = j.session => j.status = disk.status
        /\ disk.session # j.session => j.status = "scheduled"
    BY <1>0, <2>2, LoadedState
  <2>4. \A u \in Ticks : pc[u] \notin Generating
    BY <1>0, <2>2 DEF SafeInv, LatchInv, Generating
  <2>5. j.status \in {"running", "interrupted"} => j.session \in cutOff
    BY <2>3, <2>4 DEF LossInv, ClaimHasRun, InterruptedMeansCutOff
  <2>6. ASSUME NEW status, Settle(t, j, status), SavedStatus(j, status)
        PROVE  ClaimHasRun' /\ InterruptedMeansCutOff'
    <3>1. disk'.session = j.session /\ disk'.status = status /\ cutOff' = cutOff
      BY <2>3, <2>6 DEF Settle, Journals, observed
    <3>2. status \in {"running", "interrupted"} => j.status \in {"running", "interrupted"}
      BY <2>6 DEF SavedStatus
    <3> QED
      BY <2>5, <3>1, <3>2 DEF ClaimHasRun, InterruptedMeansCutOff
  <2>7. ASSUME NEW p \in Pairs, Claim(t, j, p)
        PROVE  ClaimHasRun' /\ InterruptedMeansCutOff'
    <3>1. disk'.status = "running" /\ pc'[t] = "check1"
      BY <1>0, <2>3, <2>7 DEF Claim, Claimed, Journals
    <3> QED
      BY <3>1 DEF ClaimHasRun, InterruptedMeansCutOff, Generating, Stages
  <2> QED
    BY <2>1, <2>6, <2>7
<1>2. ASSUME NEW t \in Ticks, Generate(t)
      PROVE  ClaimHasRun' /\ InterruptedMeansCutOff'
  <2>1. CASE UNCHANGED <<disk, cutOff>> /\ pc'[t] \in Generating
    BY <2>1 DEF LossInv, ClaimHasRun, InterruptedMeansCutOff
  <2>2. ASSUME NEW j, Conclude(t, j), Outcome(j, disk)
        PROVE  ClaimHasRun' /\ InterruptedMeansCutOff'
    <3>1. Mine(t) = disk.session /\ disk.status = "running"
      BY <1>0, <1>2, GenerateCases DEF SafeInv, ClaimInv, Mine
    <3> QED
      BY <2>2, <3>1 DEF Conclude, Outcome, ClaimHasRun, InterruptedMeansCutOff
  <2> QED
    BY <1>0, <1>2, <2>1, <2>2, GenerateCases
<1>3. CASE Crash
  <2>1. /\ UNCHANGED disk /\ cutOff \subseteq cutOff'
        /\ \A t \in Ticks : pc[t] \in Generating => Mine(t) \in cutOff'
    BY <1>3 DEF Crash, durable
  <2>2. \A t \in Ticks : pc[t] \in Generating => Mine(t) = disk.session
    BY <1>0 DEF SafeInv, ClaimInv, Mine
  <2> QED
    BY <2>1, <2>2 DEF LossInv, ClaimHasRun, InterruptedMeansCutOff
<1>4. CASE /\ ~ \E t \in Ticks : Decide(t) \/ Generate(t)
           /\ ~ Crash
  <2>1. UNCHANGED <<disk, cutOff>>
    BY <1>4, QuietSteps
  <2>2. \A t \in Ticks : pc[t] \in Generating => pc'[t] \in Generating
    BY <1>0, <1>4 DEF Next, vars, StartTick, TickSkipped, Release, Restart, Environment,
      Outside, Elapse, SessionBegins, SessionEnds, Generating,
      IdentityChanges, SettingToggled, UserDrafts, UserArchives, FlipMined
  <2> QED
    BY <2>1, <2>2 DEF LossInv, ClaimHasRun, InterruptedMeansCutOff
<1> QED
  BY <1>1, <1>2, <1>3, <1>4

\* A claim an earlier release left behind has lost its run.
LEMMA LossInit == Init => LossInv
BY SafeInit DEF Init, LossInv, ClaimHasRun, InterruptedMeansCutOff

\* "interrupted" is only written of a run that really was cut off: no tick
\* takes the claim of a live run for one a dead process left, for any number
\* of activations and crashes.
THEOREM OnlyLostRunsInterrupted == Spec => []InterruptedMeansCutOff
<1>1. LossInv => InterruptedMeansCutOff
  BY DEF LossInv
<1> QED
  BY <1>1, LossInit, LossStep, PTL DEF Spec

-----------------------------------------------------------------------------
(* The journal of a session only goes forward.                              *)

NeverReopened ==
  disk.session = disk'.session =>
    /\ disk.status \notin Open => disk'.status = disk.status
    /\ disk.paid <= disk'.paid

\* No step reopens a decided journal or forgets a paid attempt.
LEMMA NeverReopenedStep == SafeInv /\ [Next]_vars => NeverReopened
<1> SUFFICES ASSUME SafeInv, [Next]_vars PROVE NeverReopened
  OBVIOUS
<1>0. TypeOK /\ disk \in Journals /\ disk.paid \in Nat
  BY DEF SafeInv, TypeInv, TypeOK, Journals
<1>1. ASSUME NEW t \in Ticks, Decide(t) PROVE NeverReopened
  <2>1. PICK j \in LoadedFor(view[t].session) :
           /\ Proceed(t, j)
           /\ \/ \E status : Settle(t, j, status) /\ SavedStatus(j, status)
              \/ \E p \in Pairs : Claim(t, j, p)
    BY <1>1, DecideCases
  <2>2. view[t].session \in Sessions
    BY <2>1 DEF Proceed, SafeInv, TypeInv, ViewOK, Snapshotting
  <2>3. /\ j \in Journals /\ j.session = view[t].session
        /\ disk.session = j.session => j.status = disk.status /\ disk.paid <= j.paid
    BY <1>0, <2>2, LoadedState
  <2>4. j.paid \in Nat
    BY <2>3 DEF Journals
  <2>5. ASSUME NEW status, Settle(t, j, status), SavedStatus(j, status)
        PROVE  NeverReopened
    <3>1. disk'.session = j.session /\ disk'.status = status /\ disk'.paid = j.paid
      BY <2>3, <2>5 DEF Settle, Journals
    <3> QED
      BY <2>3, <2>5, <3>1 DEF SavedStatus, NeverReopened, Open
  <2>6. ASSUME NEW p \in Pairs, Claim(t, j, p) PROVE NeverReopened
    <3>1. disk'.session = j.session /\ disk'.paid = j.paid + 1
      BY <2>3, <2>6 DEF Claim, Claimed, Journals
    <3>2. j.status \in Open
      BY <2>6 DEF Claim, MayRun, Due, Open, Waiting
    <3> QED
      BY <1>0, <2>3, <2>4, <3>1, <3>2 DEF NeverReopened
  <2> QED
    BY <2>1, <2>5, <2>6
<1>2. ASSUME NEW t \in Ticks, Generate(t) PROVE NeverReopened
  <2>1. CASE UNCHANGED disk
    BY <1>0, <2>1 DEF NeverReopened
  <2>2. ASSUME NEW j, Conclude(t, j), Outcome(j, disk)
        PROVE  NeverReopened
    <3>1. disk.status = "running"
      BY <1>2, GenerateCases DEF SafeInv, ClaimInv
    <3>2. disk'.paid = disk.paid
      BY <2>2 DEF Conclude, Outcome
    <3> QED
      BY <1>0, <3>1, <3>2 DEF NeverReopened, Open
  <2> QED
    BY <1>2, <2>1, <2>2, GenerateCases
<1>3. CASE ~ \E t \in Ticks : Decide(t) \/ Generate(t)
  BY <1>0, <1>3, QuietSteps DEF NeverReopened
<1> QED
  BY <1>1, <1>2, <1>3

\* A session whose journal has a final status keeps it, and its count of paid
\* attempts never falls: tick() only claims what is due, also after a
\* migration.
THEOREM NeverReopens == Spec => JournalNeverReopens
<1>1. SafeInv /\ [Next]_vars
        => [disk.session = disk'.session =>
              /\ disk.status \notin Open => disk'.status = disk.status
              /\ disk.paid <= disk'.paid]_vars
  BY NeverReopenedStep DEF NeverReopened
<1> QED
  BY <1>1, SafeInit, SafeStep, PTL DEF Spec, JournalNeverReopens

-----------------------------------------------------------------------------
(* The last check before a draft is kept.                                   *)

StillWanted ==
  \A id \in draftIds' \ draftIds :
    /\ id[2] \notin drafts
    /\ id[1].epoch = epoch
    /\ period = "None"

\* Only DraftAdded adds a draft, after a check in the same step.
LEMMA StillWantedStep == [Next]_vars => StillWanted
<1> SUFFICES ASSUME [Next]_vars PROVE StillWanted
  OBVIOUS
<1>1. ASSUME NEW t \in Ticks, DraftAdded(t) PROVE StillWanted
  <2>1. StillNeeded(t) /\ draftIds' \ draftIds \subseteq {<<Mine(t), mem[t].pair>>}
    BY <1>1 DEF DraftAdded
  <2>2. Mine(t).epoch = epoch /\ period = "None"
    BY <2>1 DEF StillNeeded, Usable
  <2>3. mem[t].pair \notin drafts
    BY <2>1 DEF StillNeeded, Missing, SelectMissing, FirstOf
  <2> QED
    BY <2>1, <2>2, <2>3 DEF StillWanted
<1>2. CASE UNCHANGED draftIds
  BY <1>2 DEF StillWanted
<1>3. ASSUME NEW t \in Ticks, Decide(t) PROVE UNCHANGED draftIds
  BY <1>3 DEF Decide, TickInterrupted, TickIdle, TickHalfSaved, TickMissedWindow,
     TickNothingMissing, TickExhausted, Settle, TickClaim, Claim
<1>4. ASSUME NEW t \in Ticks, Generate(t), ~DraftAdded(t) PROVE UNCHANGED draftIds
  BY <1>4 DEF Generate, FirstCheck, RequestStory, StoryAccepted, RequestPanels,
     PanelsAccepted, QualityRejected, BudgetExhausted, GenerationFailed,
     RateLimited, Fail, durable
<1> QED
  BY <1>1, <1>2, <1>3, <1>4, QuietSteps

\* A generated draft never duplicates a live draft of its pair and never lands
\* in another epoch or in a validation session (the last stillNeeded of
\* generate and its draft are one step).
THEOREM DraftsStillWanted == Spec => DraftStillWanted
<1>1. [Next]_vars
        => [\A id \in draftIds' \ draftIds :
              /\ id[2] \notin drafts
              /\ id[1].epoch = epoch
              /\ period = "None"]_vars
  BY StillWantedStep DEF StillWanted
<1> QED
  BY <1>1, PTL DEF Spec, DraftStillWanted

-----------------------------------------------------------------------------
(* The count of paid attempts covers what the journal records of runs.      *)

\* A run in flight is counted, and nothing is recorded of it yet.
RunUnrecorded ==
  \A t \in Ticks : pc[t] \in Generating =>
    disk.spendStarted /\ KnownAttempts(disk) = 0

CountInv == SafeInv /\ AttemptsAccounted /\ RunUnrecorded

\* Every step keeps the count.
LEMMA CountStep == CountInv /\ [Next]_vars => CountInv'
<1> SUFFICES ASSUME CountInv, [Next]_vars PROVE CountInv'
  OBVIOUS
<1>0. SafeInv /\ SafeInv' /\ TypeOK /\ pc \in [Ticks -> Stages]
      /\ disk \in Journals /\ disk' \in Journals
  BY SafeStep DEF CountInv, SafeInv, TypeInv, TypeOK
<1> SUFFICES AttemptsAccounted' /\ RunUnrecorded'
  BY <1>0 DEF CountInv
<1>1. Accounted(disk) /\ (Accounted(disk') => AttemptsAccounted')
  <2> HIDE DEF KnownAttempts
  <2> QED
    BY DEF CountInv, AttemptsAccounted, Accounted
<1>2. ASSUME NEW t \in Ticks, Decide(t) PROVE AttemptsAccounted' /\ RunUnrecorded'
  <2>1. PICK j \in LoadedFor(view[t].session) :
           /\ Proceed(t, j)
           /\ \/ \E status : Settle(t, j, status) /\ SavedStatus(j, status)
              \/ \E p \in Pairs : Claim(t, j, p)
    BY <1>2, DecideCases
  <2>2. view[t].session \in Sessions /\ pc[t] = "snapshot"
    BY <1>0, <2>1 DEF Proceed, SafeInv, TypeInv, ViewOK, Snapshotting
  <2>3. j \in Journals /\ j.spendStarted /\ Accounted(j)
    BY <1>0, <1>1, <2>2, LoadedState
  <2>4. KnownAttempts(j) \in Nat /\ j.paid \in Nat
    BY <2>3, KnownAttemptsType DEF Journals
  <2>5. ASSUME NEW status, Settle(t, j, status)
        PROVE  AttemptsAccounted' /\ RunUnrecorded'
    <3>1. /\ disk'.completed = j.completed /\ disk'.attempts = j.attempts
          /\ disk'.paid = j.paid /\ disk'.spendStarted = j.spendStarted
      BY <2>3, <2>5 DEF Settle, Journals
    <3>2. KnownAttempts(disk') = KnownAttempts(j)
      BY <3>1, SameAttempts
    <3>3. Accounted(disk')
      BY <2>3, <3>1, <3>2 DEF Accounted
    <3>4. \A u \in Ticks : pc'[u] = "none"
      BY <1>0, <2>2, <2>5, ReleaseSafe DEF Settle
    <3> QED
      BY <1>1, <3>3, <3>4 DEF RunUnrecorded, Generating
  <2>6. ASSUME NEW p \in Pairs, Claim(t, j, p)
        PROVE  AttemptsAccounted' /\ RunUnrecorded'
    <3>1. /\ disk'.completed = j.completed /\ disk'.attempts = j.attempts
          /\ disk'.paid = j.paid + 1 /\ disk'.spendStarted
      BY <2>3, <2>6 DEF Claim, Claimed, Journals
    <3>2. KnownAttempts(disk') = KnownAttempts(j)
      BY <3>1, SameAttempts
    <3>3. j.paid = 0
      BY <2>4, <2>6 DEF Claim, MaxPaidAttempts
    <3>4. KnownAttempts(j) = 0
      BY <2>3, <2>4, <3>3 DEF Accounted
    <3>5. Accounted(disk') /\ disk'.spendStarted /\ KnownAttempts(disk') = 0
      BY <3>1, <3>2, <3>3, <3>4 DEF Accounted
    <3> QED
      BY <1>1, <3>5 DEF RunUnrecorded
  <2> QED
    BY <2>1, <2>5, <2>6
<1>3. ASSUME NEW t \in Ticks, Generate(t) PROVE AttemptsAccounted' /\ RunUnrecorded'
  <2>1. disk.spendStarted /\ KnownAttempts(disk) = 0 /\ disk.paid = 1
        /\ pc[t] \in Generating
    BY <1>0, <1>3, GenerateCases
    DEF CountInv, RunUnrecorded, SafeInv, ClaimInv, MaxPaidAttempts
  <2>2. CASE UNCHANGED disk
    BY <1>1, <2>1, <2>2 DEF RunUnrecorded
  <2>3. ASSUME NEW j, Conclude(t, j), Outcome(j, disk), disk' = j
        PROVE  AttemptsAccounted' /\ RunUnrecorded'
    <3>1. Accounted(disk')
      BY <2>1, <2>3 DEF Outcome, Accounted
    <3>2. pc[t] # "none" /\ Release(t)
      BY <2>1, <2>3 DEF Conclude, Generating
    <3>3. \A u \in Ticks : pc'[u] = "none"
      BY <1>0, <3>2, ReleaseSafe
    <3> QED
      BY <1>1, <3>1, <3>3 DEF RunUnrecorded, Generating
  <2> QED
    BY <1>0, <1>3, <2>2, <2>3, GenerateCases DEF Conclude
<1>4. CASE ~ \E t \in Ticks : Decide(t) \/ Generate(t)
  <2>1. UNCHANGED disk
    BY <1>4, QuietSteps
  <2>2. \A t \in Ticks : pc'[t] \in Generating => pc[t] \in Generating
    BY <1>0, <1>4 DEF Next, vars, StartTick, TickSkipped, Release, Crash, Restart,
      Environment, Outside, Elapse, SessionBegins, SessionEnds, Generating, Stages,
      IdentityChanges, SettingToggled, UserDrafts, UserArchives, FlipMined
  <2> QED
    BY <1>1, <2>1, <2>2 DEF CountInv, RunUnrecorded
<1> QED
  BY <1>2, <1>3, <1>4

\* A profile without a journal, or with one of an earlier release, has no count
\* yet.
LEMMA CountInit == Init => CountInv
<1> SUFFICES ASSUME Init PROVE CountInv
  OBVIOUS
<1>1. ~disk.spendStarted
  BY LegacyAssumption DEF Init, NoJournal
<1> QED
  BY <1>1, SafeInit DEF Init, CountInv, AttemptsAccounted, RunUnrecorded, Generating

\* Every completed pair and every recorded quality failure is counted as a paid
\* attempt, for every journal an earlier release may have left.
THEOREM AttemptsCounted == Spec => []AttemptsAccounted
<1>1. CountInv => AttemptsAccounted
  BY DEF CountInv
<1> QED
  BY <1>1, CountInit, CountStep, PTL DEF Spec

-----------------------------------------------------------------------------
(* The bill. The price of a call is recorded when the call answers, so the  *)
(* allowance is checked against what all calls but the last one cost.       *)

\* Nothing is charged for what was not bought.
UnboughtUnbilled == \A s \in Sessions : Unbought(s) => billed[s] = 0

\* The bill of a run is the price of its story until that is recorded.
StageBilled ==
  \A t \in Ticks :
    /\ pc[t] = "story" => billed[Mine(t)] = mem[t].cost
    /\ pc[t] = "check2" => billed[Mine(t)] <= ledger

BillInv == BuyInv /\ UnboughtUnbilled /\ StageBilled /\ SpendBounded

\* A step that charges nothing.
LEMMA NothingCharged ==
  ASSUME BillInv, BuyInv', UNCHANGED <<billed, stories, renders>>, StageBilled'
  PROVE  BillInv'
BY DEF BillInv, UnboughtUnbilled, Unbought, SpendBounded

\* A step of an activation after which no run waits for the price of a story.
LEMMA NothingStaged ==
  ASSUME BillInv, NEW t \in Ticks, Moves(t),
         busy' = busy \/ (busy' = FALSE /\ pc'[t] = "none"),
         pc'[t] \notin {"story", "check2"}
  PROVE  StageBilled'
<1>1. \A u \in Ticks \ {t} : pc'[u] = "none"
  BY LatchKept DEF BillInv, BuyInv
<1> QED
  BY <1>1 DEF StageBilled

\* A charge of the run of activation t that stays below the cap.
LEMMA ChargeBounded ==
  ASSUME BillInv, BuyInv', NEW t \in Ticks, Mine(t) \in Sessions,
         NEW cost \in Costs, NEW before \in Nat,
         billed[Mine(t)] = before, before < SpendCap,
         billed' = [billed EXCEPT ![Mine(t)] = @ + cost],
         \A s \in Sessions \ {Mine(t)} : stories'[s] = stories[s] /\ renders'[s] = renders[s],
         stories'[Mine(t)] # 0 \/ renders'[Mine(t)] # 0, StageBilled'
  PROVE  BillInv'
<1>1. billed \in [Sessions -> Nat] /\ cost \in Nat /\ SpendCap \in Nat
  BY ConstantsAssumption DEF BillInv, BuyInv, SafeInv, TypeInv, TypeOK
<1>2. /\ billed'[Mine(t)] = before + cost
      /\ \A s \in Sessions \ {Mine(t)} : billed'[s] = billed[s]
  BY <1>1
<1>3. UnboughtUnbilled'
  <2> SUFFICES ASSUME NEW s \in Sessions, Unbought(s)' PROVE billed'[s] = 0
    BY DEF UnboughtUnbilled, Unbought
  <2>1. CASE s = Mine(t)
    BY <2>1 DEF Unbought
  <2>2. CASE s # Mine(t)
    <3>1. Unbought(s) /\ billed'[s] = billed[s]
      BY <1>2, <2>2 DEF Unbought
    <3> QED
      BY <3>1 DEF BillInv, UnboughtUnbilled
  <2> QED
    BY <2>1, <2>2
<1>4. SpendBounded'
  <2> SUFFICES ASSUME NEW s \in Sessions, NEW c \in Costs, \A d \in Costs : d <= c
               PROVE  billed'[s] < SpendCap + c
    BY DEF SpendBounded
  <2>1. c \in Nat /\ cost <= c
    BY ConstantsAssumption
  <2>2. CASE s = Mine(t)
    <3>1. before + cost < SpendCap + c
      BY <1>1, <2>1
    <3> QED
      BY <1>2, <2>2, <3>1
  <2>3. CASE s # Mine(t)
    BY <1>2, <2>3 DEF BillInv, SpendBounded
  <2> QED
    BY <2>2, <2>3
<1> QED
  BY <1>3, <1>4 DEF BillInv

\* Every step keeps the bill in bounds: one step of the proof per action.
LEMMA BillStep ==
  ASSUME OneIdentity
  PROVE  BillInv /\ [Next]_vars => BillInv'
<1> SUFFICES ASSUME BillInv, [Next]_vars PROVE BillInv'
  OBVIOUS
<1>0. /\ BuyInv /\ BuyInv' /\ SafeInv /\ TypeOK /\ pc \in [Ticks -> Stages]
      /\ mem \in [Ticks -> Works] /\ ledger \in Nat /\ billed \in [Sessions -> Nat]
      /\ stories \in [Sessions -> Nat] /\ renders \in [Sessions -> Nat]
  BY BuyStep DEF BillInv, BuyInv, SafeInv, TypeInv, TypeOK
<1>1. ASSUME NEW t \in Ticks, pc[t] # "none", Release(t),
             UNCHANGED <<billed, stories, renders>>
      PROVE  BillInv'
  <2>1. Moves(t) /\ pc'[t] = "none" /\ busy' = FALSE
    BY <1>0, <1>1 DEF Release, Moves, Stages
  <2>2. StageBilled'
    BY <2>1, NothingStaged
  <2> QED
    BY <1>0, <1>1, <2>2, NothingCharged
<1>2. ASSUME NEW t \in Ticks, Decide(t) PROVE BillInv'
  <2>1. PICK j \in LoadedFor(view[t].session) :
           /\ Proceed(t, j)
           /\ \/ \E status : Settle(t, j, status) /\ SavedStatus(j, status)
              \/ \E p \in Pairs : Claim(t, j, p)
    BY <1>2, DecideCases
  <2>2. pc[t] # "none"
    BY <2>1 DEF Proceed
  <2>3. ASSUME NEW status, Settle(t, j, status) PROVE BillInv'
    BY <1>1, <2>2, <2>3 DEF Settle, observed
  <2>4. ASSUME NEW p \in Pairs, Claim(t, j, p) PROVE BillInv'
    <3>1. Moves(t) /\ pc'[t] = "check1" /\ busy' = busy
      BY <1>0, <2>2, <2>4 DEF Claim, Moves, Stages
    <3>2. StageBilled'
      BY <3>1, NothingStaged
    <3> QED
      BY <1>0, <2>4, <3>2, NothingCharged DEF Claim, observed
  <2> QED
    BY <2>1, <2>3, <2>4
<1>3. ASSUME NEW t \in Ticks, Generate(t) PROVE BillInv'
  <2>0. pc[t] \in Generating /\ Mine(t) \in Sessions /\ mem[t] \in Works
    BY <1>0, <1>3, GenerateCases
  <2>1. CASE FirstCheck(t)
    <3>1. Moves(t) /\ pc'[t] = "words" /\ busy' = busy
      BY <1>0, <2>1 DEF FirstCheck, Await, Moves, Stages
    <3>2. StageBilled'
      BY <3>1, NothingStaged
    <3> QED
      BY <1>0, <2>1, <3>2, NothingCharged DEF FirstCheck, observed
  <2>2. ASSUME NEW cost \in Costs, RequestStory(t, cost) PROVE BillInv'
    <3>1. /\ pc[t] = "words"
          /\ stories' = [stories EXCEPT ![Mine(t)] = @ + 1]
          /\ billed' = [billed EXCEPT ![Mine(t)] = @ + cost]
          /\ mem' = [mem EXCEPT ![t].cost = cost]
          /\ pc' = [pc EXCEPT ![t] = "story"]
          /\ busy' = busy /\ renders' = renders
      BY <2>2 DEF RequestStory, Charge, Await
    <3>2. billed[Mine(t)] = 0
      BY <1>0, <2>0, <3>1
      DEF BuyInv, StageUnbought, BillInv, UnboughtUnbilled, Unbought
    <3>3. Moves(t)
      BY <1>0, <3>1 DEF Moves, Stages
    <3>4. \A u \in Ticks \ {t} : pc'[u] = "none"
      BY <1>0, <3>1, <3>3, LatchKept
    <3>5. cost \in Nat /\ 0 < SpendCap
      BY ConstantsAssumption
    <3>6. pc'[t] = "story" /\ mem'[t].cost = cost /\ Mine(t)' = Mine(t)
      BY <1>0, <3>1 DEF Mine, Works
    <3>7. billed'[Mine(t)] = cost
      BY <1>0, <2>0, <3>1, <3>2, <3>5
    <3>8. StageBilled'
      BY <3>4, <3>6, <3>7 DEF StageBilled
    <3>9. stories'[Mine(t)] # 0
      BY <1>0, <2>0, <3>1
    <3> QED
      BY <1>0, <2>0, <3>1, <3>2, <3>5, <3>8, <3>9, ChargeBounded
  <2>3. CASE StoryAccepted(t)
    <3>1. /\ pc[t] = "story" /\ ledger' = ledger + mem[t].cost
          /\ pc' = [pc EXCEPT ![t] = "check2"] /\ busy' = busy
          /\ UNCHANGED <<mem, billed, stories, renders>>
      BY <2>3 DEF StoryAccepted, RecordCost, Await, observed
    <3>2. Moves(t)
      BY <1>0, <3>1 DEF Moves, Stages
    <3>3. \A u \in Ticks \ {t} : pc'[u] = "none"
      BY <1>0, <3>1, <3>2, LatchKept
    <3>4. billed[Mine(t)] = mem[t].cost /\ mem[t].cost \in Nat
      BY <2>0, <3>1 DEF BillInv, StageBilled, Works
    <3>5. billed[Mine(t)] <= ledger'
      BY <1>0, <3>1, <3>4
    <3>6. StageBilled'
      BY <1>0, <3>1, <3>3, <3>5 DEF StageBilled, Mine
    <3> QED
      BY <1>0, <3>1, <3>6, NothingCharged
  <2>4. ASSUME NEW cost \in Costs, RequestPanels(t, cost) PROVE BillInv'
    <3>1. /\ pc[t] = "check2" /\ ledger < SpendCap
          /\ renders' = [renders EXCEPT ![Mine(t)] = @ + 1]
          /\ billed' = [billed EXCEPT ![Mine(t)] = @ + cost]
          /\ mem' = [mem EXCEPT ![t].cost = cost]
          /\ pc' = [pc EXCEPT ![t] = "panels"]
          /\ busy' = busy /\ stories' = stories
      BY <2>4 DEF RequestPanels, Charge, Await, BudgetLeft
    <3>2. billed[Mine(t)] \in Nat /\ billed[Mine(t)] <= ledger
      BY <1>0, <2>0, <3>1 DEF BillInv, StageBilled
    <3>3. billed[Mine(t)] < SpendCap
      BY <1>0, <3>1, <3>2, ConstantsAssumption
    <3>4. Moves(t) /\ pc'[t] = "panels"
      BY <1>0, <3>1 DEF Moves, Stages
    <3>5. StageBilled'
      BY <3>1, <3>4, NothingStaged
    <3>6. renders'[Mine(t)] # 0
      BY <1>0, <2>0, <3>1
    <3> QED
      BY <1>0, <2>0, <3>1, <3>2, <3>3, <3>5, <3>6, ChargeBounded
  <2>5. CASE PanelsAccepted(t)
    <3>1. Moves(t) /\ pc'[t] = "check3" /\ busy' = busy
      BY <1>0, <2>5 DEF PanelsAccepted, Await, Moves, Stages
    <3>2. StageBilled'
      BY <3>1, NothingStaged
    <3> QED
      BY <1>0, <2>5, <3>2, NothingCharged DEF PanelsAccepted, observed
  <2>6. ASSUME NEW j, Conclude(t, j) PROVE BillInv'
    BY <1>1, <2>0, <2>6 DEF Conclude, Generating
  <2>7. CASE DraftAdded(t) \/ QualityRejected(t) \/ BudgetExhausted(t)
             \/ GenerationFailed(t) \/ \E wait \in RetryWaits : RateLimited(t, wait)
    <3>1. \E j : Conclude(t, j)
      BY <2>7 DEF DraftAdded, QualityRejected, BudgetExhausted, GenerationFailed,
         RateLimited, Fail
    <3> QED
      BY <2>6, <3>1
  <2> QED
    BY <1>3, <2>1, <2>2, <2>3, <2>4, <2>5, <2>7 DEF Generate
<1>4. CASE ~ \E t \in Ticks : Decide(t) \/ Generate(t)
  <2>1. UNCHANGED <<billed, ledger, stories, renders>>
    BY <1>4 DEF Next, vars, StartTick, TickSkipped, Crash, Restart, Environment,
       Outside, durable, observed, Elapse, SessionBegins, SessionEnds,
       IdentityChanges, SettingToggled, UserDrafts, UserArchives, FlipMined
  <2>2. \A t \in Ticks : pc'[t] \in {"story", "check2"} =>
          pc'[t] = pc[t] /\ mem'[t] = mem[t]
    BY <1>0, <1>4 DEF Next, vars, StartTick, TickSkipped, Release, Crash, Restart,
      Environment, Outside, Elapse, SessionBegins, SessionEnds, Stages,
      IdentityChanges, SettingToggled, UserDrafts, UserArchives, FlipMined
  <2>3. StageBilled'
    BY <2>1, <2>2 DEF BillInv, StageBilled, Mine
  <2> QED
    BY <1>0, <2>1, <2>3, NothingCharged
<1> QED
  BY <1>2, <1>3, <1>4

\* Nothing has been charged when the application is first started.
LEMMA BillInit == Init => BillInv
<1> SUFFICES ASSUME Init PROVE BillInv
  OBVIOUS
<1>1. \A s \in Sessions : billed[s] = 0
  BY DEF Init
<1>2. SpendBounded
  BY <1>1, ConstantsAssumption DEF SpendBounded
<1> QED
  BY <1>1, <1>2, BuyInit DEF Init, BillInv, UnboughtUnbilled, StageBilled

\* What the providers charge a profile with one identity for a session stays
\* below the cap plus the price of one call, whatever the calls cost and
\* whenever their prices are recorded.
THEOREM SpendingBounded ==
  ASSUME OneIdentity
  PROVE  Spec => []SpendBounded
<1>1. BillInv => SpendBounded
  BY DEF BillInv
<1>2. Init => BillInv
  BY BillInit
<1>3. BillInv /\ [Next]_vars => BillInv'
  BY BillStep
<1> QED
  BY <1>1, <1>2, <1>3, PTL DEF Spec
=============================================================================
