---------------------------- MODULE FlipScheduler ----------------------------
(***************************************************************************)
(* The post-session flip generation scheduler of the Electron main         *)
(* process: src/main/flip-generation-scheduler.js (tick) together with     *)
(* snapshot, stillNeeded, generate, budgetPayload and recordCost of        *)
(* src/main/flip-generation-runtime.js.                                    *)
(*                                                                         *)
(* A timer calls tick every 30 seconds. A tick takes a snapshot of the     *)
(* node and the settings, loads the journal post-session-flips.json, and   *)
(* at most claims one paid generation run: a story request and an image    *)
(* request to a provider that charges for both. Every await is a point     *)
(* where the world moves on or the application dies.                       *)
(***************************************************************************)
EXTENDS Integers, FiniteSets

CONSTANTS
  Ticks,          \* activations of tick() that the timer may have started
  Pairs,          \* keyword pair ids of the identity, numbered in node order
  Target,         \* flips wanted for the epoch: required plus extra flips
  Addrs,          \* coinbase addresses the profile may be connected to
  MaxEpoch,       \* bound: epochs explored
  MaxTime,        \* bound: the clock
  MaxCrashes,     \* bound: crashes of the application
  MaxSwitches,    \* bound: changes of the identity
  Skew,           \* how far a block time may be ahead of the local clock
  Window,         \* MAX_DELAY_MS: how long after the session a run may start
  Delays,         \* what chooseDelay returns
  BudgetWait,     \* pause after budget_exhausted
  RetryWaits,     \* pauses after rate_limited, clamped to 15..60 minutes
  SpendCap,       \* MAX_POST_SESSION_PROVIDER_SPEND_USD, in price units
  Costs,          \* what one provider call may cost
  Legacy,         \* journals an earlier release may have left behind
  NoPair, NoSession

MaxPaidAttempts == 1   \* MAX_PAID_ATTEMPTS_PER_SESSION

Sessions == [epoch: 1..MaxEpoch, addr: Addrs]

Statuses == {"scheduled", "running", "waiting_budget", "waiting_provider",
             "review_required", "quality_blocked", "failed", "interrupted",
             "missed_window", "completed", "attempts_exhausted"}

Waiting == {"waiting_budget", "waiting_provider"}
Open    == {"scheduled", "running"} \cup Waiting

ASSUME ConstantsAssumption ==
  /\ Pairs \subseteq Nat \ {0}
  /\ IsFiniteSet(Pairs)
  /\ Target \in Nat
  /\ MaxEpoch \in Nat \ {0}
  /\ MaxTime \in Nat
  /\ MaxCrashes \in Nat /\ MaxSwitches \in Nat
  /\ Skew \in Nat
  /\ Window \in Nat
  /\ Delays \subseteq 0..Window
  /\ BudgetWait \in Nat
  /\ RetryWaits \subseteq Nat
  /\ SpendCap \in Nat \ {0}
  /\ Costs \subseteq Nat
  /\ NoPair \notin Pairs
  /\ NoSession \notin Sessions

\* The journal post-session-flips.json. spendStarted abstracts a finite
\* spendStartedAt, which journals of earlier releases lack; started abstracts
\* startedAt, which is only tested for being set.
Journals ==
  [session:      Sessions \cup {NoSession},
   status:       Statuses,
   dueAt:        Nat,
   expiresAt:    Nat,
   spendStarted: BOOLEAN,
   started:      BOOLEAN,
   paid:         Nat,
   completed:    SUBSET Pairs,
   attempts:     [Pairs -> Nat],
   rejected:     SUBSET Pairs,
   active:       Pairs \cup {NoPair}]

\* What load() makes of a profile without a journal.
NoJournal ==
  [session |-> NoSession, status |-> "scheduled", dueAt |-> 0, expiresAt |-> 0,
   spendStarted |-> FALSE, started |-> FALSE, paid |-> 0, completed |-> {},
   attempts |-> [p \in Pairs |-> 0], rejected |-> {}, active |-> NoPair]

ASSUME LegacyAssumption ==
  /\ Legacy \subseteq {j \in Journals : ~j.spendStarted /\ j.paid = 0}
  /\ \A j \in Legacy : j.session \in [epoch: {1}, addr: Addrs]

Views == [enabled: BOOLEAN, period: {"None", "Session"},
          session: Sessions \cup {NoSession}, used: SUBSET Pairs]

NoView == [enabled |-> FALSE, period |-> "Session",
           session |-> NoSession, used |-> {}]

\* The locals of an activation past its claim: journal, pair, the time of the
\* claim and the price of the call in flight.
Works == [journal: Journals, pair: Pairs \cup {NoPair}, at: Nat, cost: Nat]

NoWork == [journal |-> NoJournal, pair |-> NoPair, at |-> 0, cost |-> 0]

Stages == {"none", "snapshot", "check1", "words", "story",
           "check2", "panels", "check3"}

Generating == Stages \ {"none", "snapshot"}

VARIABLES
  \* the world outside the scheduler
  now,        \* Date.now()
  epoch,      \* the epoch the node reports
  addr,       \* dna_getCoinbaseAddr
  switches,   \* changes of the identity so far
  period,     \* "None", or "Session" for every other period
  endedAt,    \* time of the first block of the epoch
  used,       \* keyword pairs the chain has flips for
  drafts,     \* pairs with a live draft made since the session ended
  enabled,    \* aiSolver.postSessionFlipGenerationEnabled
  \* the application
  up,         \* the process is running
  busy,       \* the latch of the scheduler
  pc,         \* pc[t]: the await at which activation t is suspended
  view,       \* view[t]: what the snapshot in progress read so far
  mem,        \* mem[t]: the local variables state, pair, time and the bill
  \* the profile directory, which survives a crash
  disk,       \* the journal
  ledger,     \* recorded provider cost since spendStartedAt
  draftIds,   \* ids scheduled-<session>-<pair> present in flips.json
  \* observers
  stories,    \* stories[s]: story requests sent for session s
  renders,    \* renders[s]: image requests sent for session s
  billed,     \* billed[s]: what the providers charged for session s
  crashes,    \* crashes so far
  cutOff      \* sessions whose claimed run ended without a saved outcome

world == <<now, epoch, addr, switches, period, endedAt, used, drafts, enabled>>
durable == <<disk, ledger, draftIds>>
observed == <<stories, renders, billed, crashes, cutOff>>
vars == <<now, epoch, addr, switches, period, endedAt, used, drafts, enabled,
          up, busy, pc, view, mem, disk, ledger, draftIds,
          stories, renders, billed, crashes, cutOff>>

Session == [epoch |-> epoch, addr |-> addr]

-----------------------------------------------------------------------------
(* snapshot(): settings and identity are read at its start, the epoch is    *)
(* read again and the drafts are read at its end.                           *)

CurrentView == [enabled |-> enabled, period |-> period,
                session |-> Session, used |-> used]

\* The first items of a set in node order.
FirstOf(S, k) == {p \in S : Cardinality({q \in S : q < p}) < k}

\* selectMissingPairs: pairs that are neither used, drafted nor rejected, as
\* many as the target still lacks.
SelectMissing(usedPairs, rejected) ==
  LET reserved == drafts \ usedPairs
      lacking  == Target - Cardinality(usedPairs) - Cardinality(reserved)
  IN  FirstOf(Pairs \ (usedPairs \cup drafts \cup rejected), lacking)

RejectedFor(s) == IF disk.session = s THEN disk.rejected ELSE {}

Missing(v) == SelectMissing(v.used, RejectedFor(v.session))

\* The snapshot is usable: enabled, node in sync, and the second dna_epoch
\* read agrees with the first one.
Usable(v) == v.enabled /\ v.period = "None" /\ period = "None"
             /\ v.session.epoch = epoch

-----------------------------------------------------------------------------
(* tick() up to the claim. It runs without an await once the snapshot is    *)
(* there, so each of its exits is one step.                                 *)

FreshJournal(s, delay) ==
  [session |-> s, status |-> "scheduled",
   dueAt |-> endedAt + delay, expiresAt |-> endedAt + Window,
   spendStarted |-> TRUE, started |-> FALSE, paid |-> 0,
   completed |-> {}, attempts |-> [p \in Pairs |-> 0], rejected |-> {},
   active |-> NoPair]

\* The attempts an older journal vouches for: its completed pairs and the
\* recorded attempts of every pair.
KnownAttempts(j) ==
  LET tries == UNION {{p} \X (1..j.attempts[p]) : p \in Pairs}
  IN  Cardinality(j.completed) + Cardinality(tries)

\* Mutant: a migrated journal starts without paid attempts.
MigratedUncounted(j) == [j EXCEPT !.spendStarted = TRUE]

Migrated(j) ==
  [j EXCEPT !.spendStarted = TRUE,
            !.paid = IF KnownAttempts(j) > @ THEN KnownAttempts(j) ELSE @]

\* The journals load() and the two initialisations can lead to.
LoadedFor(s) ==
  IF disk.session # s
    THEN {FreshJournal(s, delay) : delay \in Delays}
    ELSE {IF disk.spendStarted THEN disk ELSE Migrated(disk)}

\* Mutant: a failed run is tried again.
DueAfterFailure(j) == \/ j.status \in {"scheduled", "failed"}
                      \/ j.status \in Waiting /\ now >= j.dueAt

\* A waiting journal whose pause is over counts as scheduled in memory only.
Due(j) == \/ j.status = "scheduled"
          \/ j.status \in Waiting /\ now >= j.dueAt

TooLate(j) == ~j.started /\ now > j.expiresAt

\* Missing pairs the run may take: fewest attempts first, then node order.
Candidates(v, j) == Missing(v) \ (j.completed \cup j.rejected)

Preferred(S, j) ==
  {p \in S : \A q \in S : \/ j.attempts[p] < j.attempts[q]
                          \/ j.attempts[p] = j.attempts[q] /\ p <= q}

-----------------------------------------------------------------------------
\* Mutant: a tick does not look at the latch.
StartTickUnlatched(t) ==
  /\ up /\ pc[t] = "none"
  /\ busy' = TRUE
  /\ pc' = [pc EXCEPT ![t] = "snapshot"]
  /\ view' = [view EXCEPT ![t] = CurrentView]
  /\ UNCHANGED <<world, up, mem, durable, observed>>

StartTick(t) ==
  /\ up /\ ~busy /\ pc[t] = "none"
  /\ busy' = TRUE
  /\ pc' = [pc EXCEPT ![t] = "snapshot"]
  /\ view' = [view EXCEPT ![t] = CurrentView]
  /\ UNCHANGED <<world, up, mem, durable, observed>>

\* The end of an activation: finally { busy = false }.
Release(t) ==
  /\ busy' = FALSE
  /\ pc' = [pc EXCEPT ![t] = "none"]
  /\ mem' = [mem EXCEPT ![t] = NoWork]
  /\ view' = [view EXCEPT ![t] = NoView]
  /\ UNCHANGED up

\* disabled_or_unready, session_active, invalid_session, a snapshot that
\* threw because the node did not answer, or a save that threw.
TickSkipped(t) ==
  /\ pc[t] = "snapshot"
  /\ Release(t)
  /\ UNCHANGED <<world, durable, observed>>

\* The snapshot arrived and the guards passed: continue with journal j.
Proceed(t, j) ==
  /\ pc[t] = "snapshot"
  /\ Usable(view[t])
  /\ endedAt <= now
  /\ j \in LoadedFor(view[t].session)

\* A journal for a new session starts a new spend window.
OpenWindow == ledger' = IF disk.session = disk'.session THEN ledger ELSE 0

\* save(state); return state.status
Settle(t, j, status) ==
  /\ disk' = [j EXCEPT !.status = status]
  /\ OpenWindow
  /\ Release(t)
  /\ UNCHANGED <<world, draftIds, observed>>

\* Mutant: a claim found at the start of a tick is taken for a live run.
TickStillRunning(t) ==
  \E j \in LoadedFor(view[t].session) :
    /\ Proceed(t, j)
    /\ j.status = "running"
    /\ Settle(t, j, "running")

\* A claim found at the start of a tick belongs to a process that died.
TickInterrupted(t) ==
  \E j \in LoadedFor(view[t].session) :
    /\ Proceed(t, j)
    /\ j.status = "running"
    /\ Settle(t, j, "interrupted")

\* Nothing to do yet, or never again: only a new or migrated journal is saved.
TickIdle(t) ==
  \E j \in LoadedFor(view[t].session) :
    /\ Proceed(t, j)
    /\ j.status # "running"
    /\ ~Due(j) \/ (~TooLate(j) /\ now < j.dueAt)
    /\ Settle(t, j, j.status)

\* A new or migrated journal was saved, the save that should follow threw.
TickHalfSaved(t) ==
  \E j \in LoadedFor(view[t].session) :
    /\ Proceed(t, j)
    /\ j # disk
    /\ Settle(t, j, j.status)

TickMissedWindow(t) ==
  \E j \in LoadedFor(view[t].session) :
    /\ Proceed(t, j)
    /\ Due(j) /\ TooLate(j)
    /\ Settle(t, j, "missed_window")

MayRun(j) == Due(j) /\ ~TooLate(j) /\ now >= j.dueAt

TickNothingMissing(t) ==
  \E j \in LoadedFor(view[t].session) :
    /\ Proceed(t, j)
    /\ MayRun(j)
    /\ Candidates(view[t], j) = {}
    /\ Settle(t, j, IF SelectMissing(view[t].used, {}) = {}
                      THEN "completed" ELSE "quality_blocked")

TickExhausted(t) ==
  \E j \in LoadedFor(view[t].session) :
    /\ Proceed(t, j)
    /\ MayRun(j)
    /\ Candidates(view[t], j) # {}
    /\ j.paid >= MaxPaidAttempts
    /\ Settle(t, j, "attempts_exhausted")

\* Mutant: the attempt is not counted with the claim.
ClaimedUncounted(j, p) ==
  [j EXCEPT !.status = "running", !.started = TRUE, !.active = p]

\* The durable claim: the journal says "running" and counts the attempt
\* before generate() is called.
Claimed(j, p) == [j EXCEPT !.status = "running", !.started = TRUE,
                           !.active = p, !.paid = @ + 1]

\* Mutant: the claim is saved with the outcome only.
ClaimInMemory(t, j, p) ==
  /\ Proceed(t, j)
  /\ MayRun(j)
  /\ j.paid < MaxPaidAttempts
  /\ disk' = j
  /\ OpenWindow
  /\ mem' = [mem EXCEPT ![t] = [journal |-> Claimed(j, p), pair |-> p,
                                at |-> now, cost |-> 0]]
  /\ pc' = [pc EXCEPT ![t] = "check1"]
  /\ view' = [view EXCEPT ![t] = CurrentView]
  /\ UNCHANGED <<world, up, busy, draftIds, observed>>

Claim(t, j, p) ==
  /\ Proceed(t, j)
  /\ MayRun(j)
  /\ j.paid < MaxPaidAttempts
  /\ disk' = Claimed(j, p)
  /\ OpenWindow
  /\ mem' = [mem EXCEPT ![t] = [journal |-> Claimed(j, p), pair |-> p,
                                at |-> now, cost |-> 0]]
  /\ pc' = [pc EXCEPT ![t] = "check1"]
  /\ view' = [view EXCEPT ![t] = CurrentView]
  /\ UNCHANGED <<world, up, busy, draftIds, observed>>

TickClaim(t) ==
  \E j \in LoadedFor(view[t].session) :
    \E p \in Preferred(Candidates(view[t], j), j) : Claim(t, j, p)

-----------------------------------------------------------------------------
(* generate(pair, current): three stillNeeded checks around two paid calls. *)

Mine(t) == mem[t].journal.session

\* Mutant: the check looks at the session only.
SessionStillOpen(t) == Usable(view[t]) /\ view[t].session = Mine(t)

\* stillNeeded: a second snapshot is usable, of the same session, and still
\* misses the pair.
StillNeeded(t) ==
  /\ Usable(view[t])
  /\ view[t].session = Mine(t)
  /\ mem[t].pair \in Missing(view[t])

\* budgetPayload: something of the allowance since spendStartedAt is left.
BudgetLeft == disk.spendStarted /\ ledger < SpendCap

Await(t, stage) == pc' = [pc EXCEPT ![t] = stage]

\* A provider is called; it charges whether or not the answer arrives.
Charge(t, cost) ==
  /\ billed' = [billed EXCEPT ![Mine(t)] = @ + cost]
  /\ mem' = [mem EXCEPT ![t].cost = cost]

FirstCheck(t) ==
  /\ pc[t] = "check1" /\ StillNeeded(t)
  /\ Await(t, "words")
  /\ view' = [view EXCEPT ![t] = NoView]
  /\ UNCHANGED <<world, up, busy, mem, durable, observed>>

RequestStory(t, cost) ==
  /\ pc[t] = "words" /\ BudgetLeft
  /\ stories' = [stories EXCEPT ![Mine(t)] = @ + 1]
  /\ Charge(t, cost)
  /\ Await(t, "story")
  /\ UNCHANGED <<world, up, busy, view, durable, renders, crashes, cutOff>>

\* Mutants: the cost is not recorded; it is taken off the ledger.
RecordNothing(t) == UNCHANGED ledger
RecordRefund(t)  == ledger' = ledger - mem[t].cost

RecordCost(t) == ledger' = ledger + mem[t].cost

StoryAccepted(t) ==
  /\ pc[t] = "story"
  /\ RecordCost(t)
  /\ view' = [view EXCEPT ![t] = CurrentView]
  /\ Await(t, "check2")
  /\ UNCHANGED <<world, up, busy, mem, disk, draftIds, observed>>

RequestPanels(t, cost) ==
  /\ pc[t] = "check2" /\ StillNeeded(t) /\ BudgetLeft
  /\ renders' = [renders EXCEPT ![Mine(t)] = @ + 1]
  /\ Charge(t, cost)
  /\ Await(t, "panels")
  /\ view' = [view EXCEPT ![t] = NoView]
  /\ UNCHANGED <<world, up, busy, durable, stories, crashes, cutOff>>

PanelsAccepted(t) ==
  /\ pc[t] = "panels"
  /\ RecordCost(t)
  /\ view' = [view EXCEPT ![t] = CurrentView]
  /\ Await(t, "check3")
  /\ UNCHANGED <<world, up, busy, mem, disk, draftIds, observed>>

\* The end of a run: the in-memory journal is saved with its outcome, unless
\* the write fails, which leaves the claim on disk.
Conclude(t, j) ==
  /\ Release(t)
  /\ \/ disk' = j /\ UNCHANGED cutOff
     \/ UNCHANGED disk /\ cutOff' = cutOff \cup {Mine(t)}
  /\ UNCHANGED <<stories, renders, billed, crashes>>

\* The last check, the draft and the journal entry are one step: no await
\* lies between them. A draft id that is already there is not added again.
DraftAdded(t) ==
  LET id == <<Mine(t), mem[t].pair>> IN
  /\ pc[t] = "check3" /\ StillNeeded(t)
  /\ draftIds' = draftIds \cup {id}
  /\ drafts' = IF id \in draftIds THEN drafts ELSE drafts \cup {mem[t].pair}
  /\ Conclude(t, [mem[t].journal EXCEPT !.status = "review_required",
                                        !.completed = @ \cup {mem[t].pair},
                                        !.active = NoPair])
  /\ UNCHANGED <<now, epoch, addr, switches, period, endedAt, used, enabled, ledger>>

\* generate() threw.
Fail(t, j) ==
  /\ Conclude(t, j)
  /\ UNCHANGED <<world, draftIds>>

\* story_rejected after an answered story call, render_rejected after an
\* answered image call.
QualityRejected(t) ==
  /\ pc[t] \in {"story", "panels"}
  /\ RecordCost(t)
  /\ Fail(t, [mem[t].journal EXCEPT !.status = "quality_blocked",
                                    !.attempts[mem[t].pair] = @ + 1,
                                    !.active = NoPair])

BudgetExhausted(t) ==
  /\ \/ pc[t] = "words"
     \/ pc[t] = "check2" /\ StillNeeded(t)
  /\ ~BudgetLeft
  /\ UNCHANGED ledger
  /\ Fail(t, [mem[t].journal EXCEPT !.status = "waiting_budget",
                                    !.active = NoPair,
                                    !.dueAt = mem[t].at + BudgetWait])

RateLimited(t, wait) ==
  /\ pc[t] \in {"story", "panels"}
  /\ UNCHANGED ledger
  /\ Fail(t, [mem[t].journal EXCEPT !.status = "waiting_provider",
                                    !.active = NoPair,
                                    !.dueAt = mem[t].at + wait])

\* Everything else: a check that finds the session or the drafts changed, a
\* node or provider error, an answer that is not ok (whose cost is recorded).
\* activePair stays set.
GenerationFailed(t) ==
  /\ pc[t] \in Generating
  /\ \/ UNCHANGED ledger
     \/ pc[t] \in {"story", "panels"} /\ RecordCost(t)
  /\ Fail(t, [mem[t].journal EXCEPT !.status = "failed"])

-----------------------------------------------------------------------------
(* The application dies and is started again.                               *)

Crash ==
  /\ up /\ crashes < MaxCrashes
  /\ up' = FALSE
  /\ busy' = FALSE
  /\ pc' = [t \in Ticks |-> "none"]
  /\ view' = [t \in Ticks |-> NoView]
  /\ mem' = [t \in Ticks |-> NoWork]
  /\ crashes' = crashes + 1
  /\ cutOff' = cutOff \cup {Mine(t) : t \in {u \in Ticks : pc[u] \in Generating}}
  /\ UNCHANGED <<world, durable, stories, renders, billed>>

Restart ==
  /\ ~up
  /\ up' = TRUE
  /\ UNCHANGED <<world, busy, pc, view, mem, durable, observed>>

-----------------------------------------------------------------------------
(* The world: clock, chain, user. None of it touches the application.       *)

Outside == UNCHANGED <<up, busy, pc, view, mem, durable, observed>>

Elapse ==
  /\ now < MaxTime /\ now' = now + 1
  /\ Outside
  /\ UNCHANGED <<epoch, addr, switches, period, endedAt, used, drafts, enabled>>

SessionBegins ==
  /\ period = "None" /\ epoch < MaxEpoch
  /\ period' = "Session"
  /\ Outside
  /\ UNCHANGED <<now, epoch, addr, switches, endedAt, used, drafts, enabled>>

\* A new epoch: new keyword pairs, and older drafts no longer count.
SessionEnds ==
  /\ period = "Session" /\ epoch < MaxEpoch
  /\ period' = "None"
  /\ epoch' = epoch + 1
  /\ endedAt' \in now..(now + Skew)
  /\ endedAt' + Window <= MaxTime   \* bound: room for the whole window
  /\ used' = {} /\ drafts' = {}
  /\ Outside
  /\ UNCHANGED <<now, addr, switches, enabled>>

\* The profile is pointed at another node or the node at another identity.
IdentityChanges ==
  /\ switches < MaxSwitches /\ switches' = switches + 1
  /\ addr' \in Addrs \ {addr}
  /\ used' = {}
  /\ Outside
  /\ UNCHANGED <<now, epoch, period, endedAt, drafts, enabled>>

SettingToggled ==
  /\ enabled' = ~enabled
  /\ Outside
  /\ UNCHANGED <<now, epoch, addr, switches, period, endedAt, used, drafts>>

\* The user drafts a flip by hand, archives one, or a flip is mined.
UserDrafts ==
  \E p \in Pairs \ (drafts \cup used) :
    /\ drafts' = drafts \cup {p}
    /\ Outside
    /\ UNCHANGED <<now, epoch, addr, switches, period, endedAt, used, enabled>>

UserArchives ==
  \E p \in drafts :
    /\ drafts' = drafts \ {p}
    /\ Outside
    /\ UNCHANGED <<now, epoch, addr, switches, period, endedAt, used, enabled>>

FlipMined ==
  \E p \in drafts \ used :
    /\ used' = used \cup {p}
    /\ Outside
    /\ UNCHANGED <<now, epoch, addr, switches, period, endedAt, drafts, enabled>>

-----------------------------------------------------------------------------
Init ==
  /\ now = 0 /\ epoch = 1 /\ addr \in Addrs /\ switches = 0 /\ period = "None" /\ endedAt = 0
  /\ used = {} /\ drafts = {} /\ enabled \in BOOLEAN
  /\ up = TRUE /\ busy = FALSE
  /\ pc = [t \in Ticks |-> "none"]
  /\ view = [t \in Ticks |-> NoView]
  /\ mem = [t \in Ticks |-> NoWork]
  /\ disk \in {NoJournal} \cup Legacy
  /\ ledger = 0 /\ draftIds = {}
  /\ stories = [s \in Sessions |-> 0]
  /\ renders = [s \in Sessions |-> 0]
  /\ billed = [s \in Sessions |-> 0]
  /\ crashes = 0
  /\ cutOff = IF disk.status \in {"running", "interrupted"} THEN {disk.session} ELSE {}

\* The exits of a tick that got a usable snapshot.
Decide(t) ==
  \/ TickInterrupted(t) \/ TickIdle(t) \/ TickHalfSaved(t) \/ TickMissedWindow(t)
  \/ TickNothingMissing(t) \/ TickExhausted(t) \/ TickClaim(t)

Generate(t) ==
  \/ FirstCheck(t) \/ StoryAccepted(t) \/ PanelsAccepted(t) \/ DraftAdded(t)
  \/ \E cost \in Costs : RequestStory(t, cost) \/ RequestPanels(t, cost)
  \/ QualityRejected(t) \/ BudgetExhausted(t) \/ GenerationFailed(t)
  \/ \E wait \in RetryWaits : RateLimited(t, wait)

Environment ==
  \/ Elapse \/ SessionBegins \/ SessionEnds \/ IdentityChanges
  \/ SettingToggled \/ UserDrafts \/ UserArchives \/ FlipMined

Next ==
  \/ \E t \in Ticks : StartTick(t) \/ TickSkipped(t) \/ Decide(t) \/ Generate(t)
  \/ Crash \/ Restart
  \/ Environment

Spec == Init /\ [][Next]_vars

\* The timer keeps firing, awaits end (RPCs and provider calls carry timeouts),
\* a node that is asked again and again eventually answers in time, the user
\* restarts the application, the clock runs.
Fairness ==
  /\ WF_vars(\E t \in Ticks : StartTick(t))
  /\ WF_vars(\E t \in Ticks : TickSkipped(t) \/ Decide(t) \/ Generate(t))
  /\ SF_vars(\E t \in Ticks : Decide(t))
  /\ WF_vars(Restart)
  /\ WF_vars(Elapse)

FairSpec == Spec /\ Fairness

-----------------------------------------------------------------------------
TypeOK ==
  /\ now \in Nat /\ epoch \in 1..MaxEpoch /\ addr \in Addrs
  /\ switches \in Nat
  /\ period \in {"None", "Session"} /\ endedAt \in Nat
  /\ used \subseteq Pairs /\ drafts \subseteq Pairs
  /\ enabled \in BOOLEAN /\ up \in BOOLEAN /\ busy \in BOOLEAN
  /\ pc \in [Ticks -> Stages]
  /\ view \in [Ticks -> Views]
  /\ mem \in [Ticks -> Works]
  /\ disk \in Journals
  /\ ledger \in Nat
  /\ draftIds \subseteq (Sessions \cup {NoSession}) \X (Pairs \cup {NoPair})
  /\ stories \in [Sessions -> Nat]
  /\ renders \in [Sessions -> Nat]
  /\ billed \in [Sessions -> Nat]
  /\ crashes \in Nat
  /\ cutOff \subseteq Sessions \cup {NoSession}

\* At most one story request and one image request are bought for a session,
\* whatever the interleaving of ticks, crashes, restarts, failed writes and
\* changes of the settings (MAX_PAID_ATTEMPTS_PER_SESSION and the comment at
\* createFlipGenerationScheduler). The claim is the only thing that says so
\* after a restart.
OnePaidRunPerSession ==
  \A s \in Sessions : stories[s] <= 1 /\ renders[s] <= 1

\* While a paid request may be in flight the journal on disk already carries
\* the claim for that session and pair, so a crash at any await leaves it.
ClaimIsDurable ==
  \A t \in Ticks : pc[t] \in Generating =>
    /\ disk.session = Mine(t)
    /\ disk.status = "running"
    /\ disk.active = mem[t].pair
    /\ disk.paid = MaxPaidAttempts

\* "interrupted" is only ever written for a run whose outcome was really lost:
\* an overlapping tick must not mistake a live run for a dead one.
InterruptedMeansCutOff ==
  disk.status = "interrupted" => disk.session \in cutOff

\* Every completed pair and recorded quality failure is counted as a paid
\* attempt, also after a journal of an earlier release was migrated.
AttemptsAccounted ==
  disk.spendStarted => KnownAttempts(disk) <= disk.paid

\* What the providers charge for a session stays below the cap plus the price
\* of the last call, although the price is only recorded when a call answers.
SpendBounded ==
  \A s \in Sessions, c \in Costs :
    (\A d \in Costs : d <= c) => billed[s] < SpendCap + c

\* A session whose journal reached a final status is never reopened, and its
\* count of paid attempts never falls.
JournalNeverReopens ==
  [][disk.session = disk'.session =>
       /\ disk.status \notin Open => disk'.status = disk.status
       /\ disk.paid <= disk'.paid]_vars

\* A generated draft never duplicates a live draft of the same pair and never
\* lands in another epoch or in a validation session, although the user and
\* the chain move on while the providers work.
DraftStillWanted ==
  [][\A id \in draftIds' \ draftIds :
       /\ id[2] \notin drafts
       /\ id[1].epoch = epoch
       /\ period = "None"]_vars

\* Once the setting stays on outside a validation session and the identity is
\* the same, the session gets an outcome: a review, a failure, a pause or a
\* missed window, but never an eternal claim.
Decided ==
  disk.session = Session /\ disk.status \notin {"scheduled", "running"}

SessionGetsOutcome ==
  \A a \in Addrs :
    <>[](enabled /\ period = "None" /\ up /\ addr = a) => <>[]Decided
=============================================================================
