# IdenaAI: models, checks and proofs

IdenaAI is an Electron desktop client of the Idena network. The main process
(`src/main`) supervises a node and AI providers and works in the background; the
renderer (`src/renderer`) runs the pages, most of them as XState statecharts. What
a user can lose is concentrated in few places: paid AI requests, flips that are
published twice or unseen, market actions and stakes that are paid twice, a node
that is restarted for nothing, and the answers of a validation ceremony that has
minutes and no second try. This directory models those places in TLA+, checks the
models with TLC and proves theorems about them with TLAPS.

    tlc -config FlipScheduler.cfg MCFlipScheduler.tla     # one run
    tlapm FlipSchedulerProofs.tla                         # the proofs of one module

`PROJECT.json` lists the runs, the code lines behind every definition, the hazards
with the properties that cover them, and the mutants.

## 1. The system

| Component | State | Operations | Hard behaviour | Correct when |
|---|---|---|---|---|
| Post-session scheduler, `src/main/flip-generation-scheduler.js` | latch `busy`; journal `post-session-flips.json` | `tick()` every 30 s | overlapping ticks, crash between claim and outcome, failed writes, migration of old journals | one paid run per session, nothing is bought again, the latch opens again |
| Generation runtime, `src/main/flip-generation-runtime.js` | cost ledger, `flips.json`, latch `publishing` | `snapshot`, `generate`, `publishPending` | the node and the user move on between awaits; `flip_submit` may be accepted and its answer lost | no duplicate draft, bounded spending, a draft is submitted once, only after review |
| Flip store, `src/main/stores/flips.js` | `flips.json` | `getFlips`, `saveFlips`, `addDraft`, `updateDraft` | two writers, read and write are separate IPC calls | no claim of the main process is erased |
| Flip list and editor, `src/renderer/screens/flips/machines.js`, `utils.js` | one statechart per flip with a copy of its record | publish, delete, archive, edit, poll the transaction | stale copies, timeouts of the poll | type of a record agrees with the chain |
| Long session, `src/renderer/screens/validation/machine.js` 633-1245 | flips, ratings, reports, two parallel regions; persisted to a file | load flips, answer, rate, submit, retry, refetch, restore | late flips, services that outlive their state, lost submission answers, restart in any state, timers | no answer is lost, the attempts to submit agree, reports stay in the quota, loading and submitting end |
| Short session, same file 196-632 | flips, regular or extra; two polling regions; persisted to a file | load flips, replace failed ones by extra flips, answer, submit, retry, restore | deadline, polls that know nothing of a swap, refetch, restart, lost submission answers | as many regular flips as assigned, chosen answers are the ones sent, failed only for lack of answers |
| Validation page and AI solver, `src/renderer/pages/validation.js`, `screens/validation/ai` | refs of the page | recovery refetch, solver runs | events sent into the statechart in any state | no user answer is overwritten |
| FOD signing, `src/main/fod-v7.js`, `fod-v8.js` | `nonce.lock`, `nonce-journal.jsonl`, one directory per action; latch and grant of each service | `prepare`, `submit`, `withNonceLock`, `withCLI`, import of old attempts; `unlock`, `tick`, `placeTrade` | services of several market versions share the directory; crash between journal, attempt and signature; the signing process outlives the application | an action is signed once, a nonce by one action, an automatic step waits for the one before it |
| Automatic transfer and stake, `src/deploy/auto-stake` | one journal per host | a run of `idena-auto-transfer-source`, of `idena-auto-stake-target` | a run may end after every request; mempools forget; epochs and nonces start anew; manual transactions | a batch is staked once, a transfer given up is not executed later, no batch waits for ever while the balance covers one |
| Node watchdog, `src/scripts/idena_node_watchdog.py` | `state.json`: evidence, latches, restart history | sample, recheck, restart | it dies, the host reboots, the service is started anew, the clock is set | restarts keep cooldown and budget, one for an outage, each outage is proven |
| Managed node, updater | child process | start, stop, update | overlapping starts | at most one node per directory |
| Provider bridge and budgets | key store, usage ledger | chat and image calls | concurrent reservations | spending below the cap |
| Rehearsal devnet, local AI, RAG, oracles, ads, wallets, home | page or process local | single RPC calls, data processing | little | low stakes |

Interactions: the timer in `src/main/index.js` (2311-2329) awaits `publishPending`
and then `tick`. Both read the node, the settings and `flips.json`. The renderer
reaches `flips.json` over synchronous IPC. The validation page sends events into the
statechart and persists each of its states; at the next start
`loadValidationStateForPeriod` restores it.

The signing services are created in `src/main/index.js` (891-910), one for each market
version, in one directory; what they exchange is that directory. The two
auto-stake services run on different hosts and share the chain only.

## 2. Modules

### FlipScheduler

`tick`, `snapshot`, `selectMissingPairs`, `stillNeeded`, `generate`, `budgetPayload`,
`recordCost`. The unit of atomicity is the code between two awaits. `pc[t]` is the
await at which activation `t` waits:

| Code | Model |
|---|---|
| `busy`, the `finally` block | `busy`, `StartTick`, `Release` |
| `snapshot()` in progress | `pc[t] = "snapshot"`, `view[t]` holds what its first reads saw; `Usable` compares the second `dna_epoch` read |
| the exits of `tick` | `TickSkipped`, `TickInterrupted`, `TickIdle`, `TickHalfSaved`, `TickMissedWindow`, `TickNothingMissing`, `TickExhausted`, `TickClaim` (together `Decide`) |
| three `stillNeeded` checks and two paid calls | `FirstCheck`, `RequestStory`, `StoryAccepted`, `RequestPanels`, `PanelsAccepted`, `DraftAdded` |
| `catch` of `generate` | `QualityRejected`, `BudgetExhausted`, `RateLimited`, `GenerationFailed`; `Conclude` lets the last save fail |
| profile directory | `disk`, `ledger`, `draftIds`; all that survives `Crash` |
| node, clock, user | `Environment` |

`stories`, `renders`, `billed` and `cutOff` are histories of what the code cannot see: what was
bought, what was charged, which claims lost their outcome.

Idealisations. The second reads of a snapshot, the decision and the save that follows
are one step; a save is durable when it returns (the code fsyncs the temporary file
but not the directory). Settings and keyword pairs count as read when a snapshot
begins. Time is counted in units in which the window, the delays and the pauses are
one; prices in units of which the cap has three. `startedAt` and `spendStartedAt` are
only asked whether they are set. Other changes to the provider ledger (manual calls)
are outside; the allowance after the session counts this session's costs only.

### FlipPublish

`publishPending` and `publishDraft` of the main process against every other writer of
`flips.json`: `flipMachine` of the list page, the editor, and the rewriting of the
collection by `archiveFlips`, `archiveFlipsForEpoch` and `handleOutdatedFlips`.

| Code | Model |
|---|---|
| `flips.json` | `store[d]`: type, `requiresManualReview`, `autoPublishSubmission.status`, whether content matches its audit |
| a record that `handleOutdatedFlips` has deleted | type "gone"; its other fields are kept as history, and no writer changes them |
| `updateDraft`, nothing if there is no record | `Write`, `SetClaim`; `Overlay`, `Persist` |
| `const [draft] = pendingDrafts(current)` | `First`; drafts are numbered in the order of `flips.json`, which no writer changes |
| `publishPending`, `publishDraft` | `StartPublish`, `NothingPublished`, `ClaimDraft`, `AuditFails`, `SubmitFlip`, `Published`, `OutcomeUnknown` |
| `flipMachine` states and its copy of the record | `ui[d]`, `copy[d]` |
| `archiveFlips`, `archiveFlipsForEpoch`; `handleOutdatedFlips` | `Rewritten`: everything is archived (`Archived`), or any set of records is 30 days old and deleted (`WithoutOutdated`) |
| `getFlips` then `saveFlips` | `RewriteAtOnce` if nobody comes between them, `RewriteReads` and `RewriteSaves` if somebody does (a torn rewrite; bounded by `MaxRewrites`, no session after it); the renderer, being one synchronous function, does nothing else in between |
| the flip on the chain | `onNode[d]` |

A flip machine persists the record it copied when the page was opened. Since a context
without a claim leaves the stored one, it cannot erase a claim, but it can put
"submitting" back over "submitted" or "unknown": the refinement of `PaidOnce` maps all
three to "claimed". `NodeAnswers` followed by `OutcomeUnknown` is the lost answer. `Review` is external:
no code under `src/` clears `requiresManualReview`, its tests do, so automatic
publishing needs a person who edits the store. The page that views one flip, keyword
voting and translations are not modelled; the editor leaves for the list when a flip
is sent, so it never sees a flip mined.

What it does not promise: `handleOutdatedFlips` deletes a record nobody has modified for
30 days together with its claim, also that of a flip the node has or of a submission
nobody has reconciled. `AcceptedLeavesTrace` exempts these records by name; it speaks of
the records that are left. A draft that is gone is not submitted again.

### LongSession

`fetch.flips` and `solve.answer` of `longSession`, run in parallel, with submission,
the automatic retry, the check at the end of the session, recovery refetches of the
page, persistence and restart.

| Code | Model |
|---|---|
| state of `solve.answer`, or the final state | `at` |
| state of `fetch.flips` | `fetch`; `queue` are the hashes the running `fetchFlips` has still to ask for |
| a callback service that returned a promise goes on after its state is left | `stray`, `StrayArrives` |
| `longFlips`, `reports`, `bestFlipHashes` | `flips`, `reports`, `best` |
| delayed transitions | `timers`, removed when they fire |
| restore without running the restored states' invocations | `Restart`, `dead` |
| `flip_submitLongAnswers` | `Submit`, `NodeTakesAnswers`, `SubmitDone`, `AlreadyKnown`, `SubmitFails`, `AutoRetry`, `RetrySubmit` |
| `getLongSubmitAnswer`, `deterministicAnswerFallback` | `getLongSubmitAnswer`: none, the chosen side, or the fallback |

`Outcomes` are what `flip_get` can do: an image, a payload that does not decode, an
error in the answer, a rejected call. A state is persisted in the step that reaches it
(the page persists in the transition listener). One stray answer per hash. Navigation,
keywords and translations change none of this state and are left out.

`posted` is a history of what the attempts carried: the node may take any of them, the
first, a retry or one that was given up. `AlreadyKnown` is the error by whose text
(`isDuplicateSubmitTxError`) the code goes to the success screen; the model asks for
nothing else than the code does, so no property says that success means accepted. What
is checked instead is that it does not matter which attempt the node has: they agree on
the answer of each flip they do not report (`AttemptsKeepAnswers`). Their grades may
differ, because a refetch resets ratings.

### ShortSession

Built like LongSession, with what only the short session has: hashes and flips are
polled by two parallel regions, some flips are extra flips, and unanswered regular
flips get an answer derived from their hash before they are sent.

| Code | Model |
|---|---|
| `fetch.polling.fetchHashes`, `fetchFlips` | `hashes`, `get`, `queue`; `stray` as above |
| `extra`, `flipped`, `flipExtraFlip`, `extraFlips` | `Pulled`, `Swap`, `BumpExtraFlips`; which failed flips are taken depends on their order, so any may be |
| `REFETCH_FLIPS` leaves `fetch` and enters it again | `Refetch`, which arms "bump" and "finalize" anew |
| `ANSWER`, `APPLY_AI_ANSWERS` | `Answer` for a flip the page shows, `ApplyAiAnswers` for any ready one: the solver may have started before a swap |
| `ensureShortSubmitOptions` | on entry to submitting, in `Submit` |
| `SHORT_SESSION_AUTO_SUBMIT` | `AutoSubmit`; `at = "failed"` is `validationFailed` |
| restore or discard | `Restored`, `Discarded` |

`given` observes what was chosen last for a flip, apart from the option its record
holds. "finalize" is assumed to be due after "bump" (35 and 90 seconds by default).
The early submission of rehearsals is a `SUBMIT` the page sends by itself, which
`SubmitAnswers` covers. `submitted` keeps waiting for the long session.

### PaidOnce

The abstract specification of what the publisher and the signing services both
promise: an effect that cannot be taken back happens at most once per item, and only
under a claim recorded before. It has no model of crashes; a crash is a stuttering
step, which is the point. Two modules implement it by `INSTANCE ... WITH`:
`FlipPublish!PublishesOnce` (claim: `autoPublishSubmission`, effect: `flip_submit`)
and `FodSigning!SignsOnce` (claim: `attempt.json`, effect: the signature). Both are
checked and proved.

### FodSigning

`submit` with everything it calls, the nonce journal and its import, and the automatic
trade handling of bonded markets. `pc[s]` is the await at which service `s` waits.

| Code | Model |
|---|---|
| `busy` of a service | `pc[s] = "idle"` |
| `nonce.lock`, `nonce-journal.jsonl`, `meta.json`, `attempt.json` | `lock`; `imported`, `journal`, `torn`; `saved[x]`; `attempt[x]` |
| `ensureNonceJournal` | `ImportReads`, `ImportWrites` |
| `prepare`; `submit` up to the key | `Prepare`; `Submit`, `GiveUp` |
| `withNonceLock` and what runs under it | `TakeLock`, `ReadAccount`, `ReadEpoch`, `Check`, `Append`, `MarkAttempt`, `Unlock`, `FailLocked` |
| `withCLI`, the signing process | `Launch`, `Finish`; `cli`, `CliSigns`, `CliFails` |
| `unlock`, expiry; `tick`, `placeTrade` | `UnlockGrant`, `GrantEnds`; `Unresolved`, `Automatic` |
| a process that dies in a write | `Crash`: a torn journal line, an unreadable `attempt.json` |
| the user removes a lock nobody holds | `Reconcile` |

`dna_getBalance` and `dna_epoch` are two reads; an epoch may begin between them. The
node may forget a transaction (`Drop`) that another node mines later (`Mine` takes
anything that was ever sent), another client may use a nonce (`OtherTx`).

Idealisations. A market version stands for its deployment pin. A grant counts
signatures (fees, purchase budget and order limits are amounts of the same kind). The
cache of resolved actions in a grant is left out: it only spares look-ups. What an
action pays, receipts, private messages and deliveries are data.

Seen while modelling: the journal reserves a nonce of an identity without its epoch
although account nonces start again with each epoch, so the first actions of an epoch
are refused until the account has passed the nonces of earlier ones, and a reserved
nonce that was never signed, a torn journal or a lock left by a crash stop signing until
a person reconciles them. All of this fails closed. An attempt that is never mined keeps
automatic handling waiting for ever, which `AutomaticWaits` demands.

### AutoStake

Both scripts, request by request; `pc[h]` is the request the run on host `h` makes
next, and each run starts from nothing but its journal.

| Code | Model |
|---|---|
| `source-state.json`, `target-state.json` | `active`, `completed`, `abandoned`; `receipts` |
| `pending_transactions_for`, `recent_transactions_for` | `Begin`, `SourceReads`, `TargetReads`; `pending`, `recent` |
| `transaction_slot` | `SlotTaken`, `ReadNonce`, `ReadEpoch` |
| balance, `estimate_transaction`, `submit_transaction` | `CannotPay`, `Submit`, `Refused` |
| source: look-up, retirement, reconciliation of the active transfer | `ActiveConfirmed`, `ActivePending`, `ActiveMissing`, `Retire`, `Retain`, `Reconcile`, `JournalTransfer` |
| target: submitted stakes, candidate, crash window, new stake | `StakeConfirmed`, `StakeMissing`, `StakesLookedUp`, `NoCandidate`, `AdoptPending`, `AdoptRecent`, `NewStake`, `JournalStake` |
| a run that fails or is killed | `Abort`; between submission and journal the transaction becomes `unrecorded` |
| half an hour, a minute | `aged`, set by `AgeActive`, `AgeReceipt` |

Idealisations. The 100 transactions `bcn_transactions` returns are all there are; the
half hour of the source's reconciliation is left out; which of several candidates is
staked first is open; the fee estimate is part of `Submit`. `--dry-run` and `--status`
change nothing.

`funds[h]` counts the batches the balance covers with fee and reserve. A transaction the
user sends by hand costs what is there, down to nothing (`Costs`); a transfer or a stake
costs its batch and perhaps another one, when its fee uses up what was left over. A
transaction that is pending may still be paid from the reserve. A host whose funds are 0
defers what it has to send (`CannotPay`), for as long as that lasts.

Four things the properties exclude by name, each a gap of the design rather than of a
line. `Lost`: a stake whose run died before it could journal it and which the node of
the host has forgotten as well is sent again, and another node may mine both. `Gap`:
`transaction_slot` reads the nonce before the epoch; an epoch that begins in between
leaves a pending transaction with a nonce no block can hold, and the service waits
behind it until somebody sends a transaction by hand. `Short`: the user or the fees have
spent what came in, and a transfer without a stake on the chain waits for as long as the
balance of the target stays short; the run finds `EveryTransferDecided` violated without
this exemption. And a transfer that is mined between the look-up of its hash and the read
of the balance is archived as invalidated although it was executed: `ArchivedStaysOut`
therefore speaks of what happens after. `EveryTransferDecided` exempts `Short`, `Gap` and
a stake that is lost (`SomeLost`), and nothing else: runs that are cut off, stakes that
are forgotten but journaled, transactions sent by hand that leave a batch, and new epochs
are covered.

### Watchdog

`evaluate_tick` as operators over the state record, `main` as the actions between which
time passes.

| Code | Model |
|---|---|
| `state.json`, `next_state` | `disk`, `mem` |
| `prune_restart_history`, `_restart_cooldown_ready`, `_restart_budget_ready` | `Pruned`, `CooldownReady`, `BudgetReady` |
| `evaluate_tick` | `Renewed`, `PeersSeen`, `IdentitySeen`, `Proposed` |
| the sample, the second snapshot and `recheck_action` | `Watch`, `Propose`; `Agrees`, `Cancel`, `Mark` |
| `mark_action_started`, `restart_idena_service`, `mark_action_failed` | `Started`, `Restart`, `CannotRestart` |
| `time.monotonic()`, `time.time()` | `now`, `wall == now + offset`; `SetClock` |

A snapshot is a choice of what it says, kept to what `online_health_failures` lets go
together. `Samples` caps the count of zero samples. The minute by which a counted
restart may lie ahead of the clock is `Tolerance`, 0 in the run, whose unit of time is
longer; the proofs hold for any. The restart history is a set of numbered times: the
code sorts its list, filters it and asks for its length. `decided`, `tries` and `window` are
histories: when it decided, how many restarts may have happened in this outage, and
what a person reading the samples would say of it.

What it does not promise: a reboot clears the latch of a peer outage, so the node may be
restarted once more after it; a restart systemctl could not begin releases the latch; a
peer-loss restart does not ask for the ceremony; a run that fails to read its
configuration leaves the evidence as it is. The wall clock tells cooldown and budget,
so `RestartsSpaced` is conditional on how the clock was set.

## 3. Runs

Every passing run is complete for its bounds. `CHECK_DEADLOCK FALSE` is set because the
systems may really stop: the clock, the epochs and the crashes are bounded, and a
finished session does nothing more. Symmetry is used in safety runs only.

| Run | Bounds | What it shows |
|---|---|---|
| `flip_scheduler` | 2 ticks, 2 pairs, 2 epochs, 1 crash | two ticks are all the latch can confuse, one crash separates every claim from its outcome, the second epoch brings new journals. One paid run per session, the claim is on disk while anything is bought, `interrupted` is only said of runs that were cut off, spending is bounded by the cap plus one call, final statuses are final, a draft never duplicates another or enters the wrong epoch |
| `flip_scheduler_identities` | 2 ticks, 1 pair, 2 identities, 2 switches, 1 crash | what does not depend on one identity: honest `interrupted`, no duplicate draft. Two switches lead away and back |
| `flip_scheduler_live` | 1 tick, 1 pair, 2 epochs, journals of an earlier release, block time one unit ahead | migration loses no attempt, so the one paid run also holds after an upgrade; a session gets an outcome |
| `flip_publish` | either 1 draft, with or without audit evidence, that the user handles on the pages, or 2 ordered drafts: an unreviewed one, with or without audit evidence, and behind it a reviewed one, both left to the timer; 2 ticks, 2 epochs, 1 crash, 1 edit or 1 torn rewrite (one of the three in a behaviour) | the publisher implements `PaidOnce` until a rewrite is torn, nothing unseen is submitted, a record that lasts keeps the trace of an accepted flip, "published" is only said of what the node took. The queue drains: the head of it becomes pending before or after the one behind it, fails its audit, is refused, uncertain or deleted, and does not block it. The pages see one draft (`Handled`) because a machine of the list knows no other record |
| `flip_publish_rewrite` (violation) | the same, asked for what a torn rewrite leaves | a rewrite erases the claim and the flip is submitted again |
| `long_session` | 3 flips (one report slot), the timer that may end the session, a refetch, a restart | an approved flip takes no report slot, no refetch, late answer or restart takes back an answer, the attempts to submit agree |
| `long_session_live` | 2 flips, one late, images and errors, the three loading timers | loading ends although flips stay undecodable, a submission is concluded |
| `long_session_reports` (violation) | 6 flips (two slots), a refetch | more reports are submitted than there are slots |
| `short_session` | 2 assigned flips, of which one may not decode and the other is late and never arrives; 1 extra flip; all timers; one refetch of the connection or one restart (`MaxBreaks`), recovery once for each start; one flip is answered, the fallback serves the others | fewer extra flips than failed ones, a swap and a swap back, submission before and after them: the number of regular flips is kept, nothing that can be shown is taken away, chosen answers are sent, the session fails only for lack of answers |
| `fod_signing` | 2 services, one with automatic handling, 2 actions, 2 identities, 2 nonces, 2 epochs, 2 faults, an empty profile or one attempt of an earlier release | two services and two actions are what a nonce can be contested by; two faults let a crash be followed by the epoch, identity or transaction that would exploit what it left. One signature per nonce, automatic steps wait, signing implements `PaidOnce` |
| `auto_stake` | the source alone with 2 batches and 2 faults; the target alone with 2 transfers, funds for 1 and 2 faults, with 1 transfer, funds for 2 and 2 faults, with 2 transfers, funds for 2 and 1 fault; both with 1 batch and 1 fault; 2 aborts, 4 nonces, 2 epochs, 2 fees per nonce | the second batch meets what the first left behind, two aborts and two faults combine a lost journal entry with a forgotten or a manual transaction or an epoch. One stake per transfer, archived transfers stay out, every transfer is decided as long as the balance covers a batch |
| `watchdog` | peer and online outages of 1 unit and 2 samples, cooldown 2, window 4, budget 2, 5 units of time, 5 starts, 2 faults, a clock set back by 2 or ahead by 3 | time for a restart, a cooldown, another one and a third attempt within the window; a jump ahead skips the cooldown, one back reaches before a restart. Spacing and budget, one restart per outage, no outage without its evidence |

Each property has a mutant in `PROJECT.json`: a definition changed the way a bug would
change the code (a dropped latch, a claim saved too late, an attempt that is not
counted), for which TLC finds the property violated. The mutated operators stand before
the definitions they replace, with a comment that begins "Mutant".

### Fairness

- The timer keeps firing (`setInterval`, 30 s): weak fairness of `StartTick`. An await
  ends, because RPC and provider calls carry timeouts: weak fairness of what follows it.
  The user starts the application again. For publishing this is one weak fairness, of
  the main process that goes on or is started again: with one latch only one activation
  has anything to do.
- A node that is asked again and again gives a usable answer some time: strong fairness
  of `Decide` and `Handle`. Without it no outcome can be promised, since every snapshot
  may fail.
- In the long session, timers fire and calls return. `NodeTakesAnswers` and `SubmitDone`
  are strongly fair: the retry timer repeats the submission until the node is reached.
- `auto_stake`: the timer of the target goes on and its requests are answered (weak
  fairness of `Target`); `AgeReceipt` is strongly fair, because it is only enabled
  between runs: minutes pass whatever the script does; blocks hold what is pending and
  covered by the balance (a transaction of the user counts as covered).
  Nothing is assumed of the source, of aborts or of faults, which are bounded.
- `FodSigning` and `Watchdog` are checked for safety only: a signing service waits
  for people, and the watchdog promises no restart.
- Nothing is assumed about the user, the clock beyond that it runs, the order of events
  or crashes. The liveness runs of the long session have no restart: a restored
  machine runs neither its invocation nor its retry timer and waits for the user, so
  nothing can be promised then.

## 4. Disagreements between the code and what it says

1. `flip_publish_rewrite`: "never retried automatically, including after an app restart"
   (`flip-generation-runtime.js:606`). `archiveFlipsForEpoch` and `handleOutdatedFlips`
   write back a collection they read earlier.
2. `long_session_reports`: `FLIP` resets the relevance of a flip and leaves its hash in
   `reports`; the quota counts the set, the grades are computed from the relevance.

Seen while modelling, without a run of its own: a profile switched to another identity
and back forgets an interrupted run and buys it again, although "an interrupted request
requires review instead of silently buying it again" (`flip-generation-scheduler.js:46`):
there is one journal per profile. A dialog says of automatic trading "You can stop at any
time" (`fod-v8.js:781`), and `stop` is refused while a step is under way. `pollStatus` (`machines.js:572`) takes
every failed `bcn_transaction` call for a missing transaction, so `TxNull` can mark a
flip invalid that is in a block; no code clears `requiresManualReview`; the check at
the end of the long session is a timer of the whole answer region, so `LongSessionCheck`
can show the failure screen over a submission the node has accepted.

## 5. Proofs

`FlipSchedulerProofs` proves for all values of the constants (any number of ticks,
pairs, epochs, crashes, any delays, costs and legacy journals):

- `TypeCorrect`: `Spec => []TypeOK`. `TypeOK` is not inductive, because a step reads
  the session of a view and the pair of a claim; `TypeInv` adds that they are a session
  and a pair while they are used.
- `ClaimDurable`: `Spec => []ClaimIsDurable`. The inductive invariant `SafeInv` is
  `TypeInv` with `LatchInv` (one activation at a time, and only while the latch is
  closed) and `ClaimInv` (the journal in memory of a running activation is the journal
  on disk). The latch is what makes the claim stable: no other tick can write.
- `OnePaidRun`: `OneIdentity |- Spec => []OnePaidRunPerSession`. `BuyInv` adds that
  nothing was bought for a session younger than the journal or under a journal that
  counts no paid attempt, and that a running activation has not yet made the call it is
  about to make. `OneIdentity` (a profile is connected to one identity) is needed: see
  section 4.

`FlipPublishProofs` proves for any drafts in any order, any number of activations,
crashes, edits and rewrites, and for any stored collection nothing of which is on the
node yet:

- `TypesKept`: `Spec => []TypeOK`.
- `PublishedMeansAccepted`: `Spec => []PublishedIsAccepted`, `NothingUnseenSubmitted`:
  `Spec => []OnlyViewedSubmitted`, `TraceKept`: `Spec => []AcceptedLeavesTrace`.
  `TraceKept` is about the records that exist; the inductive part (`TraceInv`) says the
  same of the history of a deleted record, whose claim no writer can reach any more.
- `PublishingImplementsPaidOnce`: `Spec => PublishesOnce`, and from the same invariant
  `SubmittedOnce`: `MaxRewrites = 0 |- Spec => []AutoSubmitsOnce`. With torn rewrites
  it is false, as `flip_publish_rewrite` shows.

The inductive invariant `Inv` has these parts. `StoreInv`, `RewriteInv`, `CopyInv`: what
a record says of its flip is true in the store, in what a rewrite has read and in every
open page, for each of them may become the store. `CopyInv` also says why a stale copy
does no harm: as long as no rewrite is torn its claim, if it has one, is of the kind the
store has. `LatchInv`: one activation at a time. `TargetInv`: it works on a reviewed draft
whose claim is in the store, and has not submitted it while it is about to. `ClaimInv`:
without a claim nothing was sent, and with one it was sent once. `PanelInv`: a page that
submits has shown the flip. `ClockInv`: a session is of an epoch that has a successor.

`FodSigningProofs` proves for any number of services, identities, actions, nonces,
epochs and faults:

- `TypesKept`: `Spec => []TypeOK`.
- `NonceSignedOnce`: `Spec => []OneSignaturePerNonce`, and `AutomaticStepsWait`:
  `Spec => []AutomaticWaits`.
- `SigningImplementsPaidOnce`: `Spec => SignsOnce`, every step being a step of
  `PaidOnce` or a stutter.

The inductive invariant `Inv` has these parts. `LockInv`: a service that works under the
lock holds it and is the only one (the lock survives a crash, and nobody else may take
it). `JobInv`: what a service is about to sign is an action that was saved for it and
its identity, with the attempt and the reservation made by the steps already behind it.
`JournalInv`: the journal reserves a nonce of an identity for one action, and a
signature or a running signing process has its record. `ImportInv`: before the import
there is no job, and what an import has read is what it will write. `ClaimInv`: a
signature needs a recorded attempt, and one signing process at most belongs to an
attempt, with no signature before it. `AutoInv`: a service that is placing an automatic
step has seen every earlier one on the chain. That the reservation is checked and written under one lock is
what `JournalInv` rests on; that `attempt.json` is created exclusively is what `ClaimInv`
rests on.

`FlipJournalProofs` continues `FlipSchedulerProofs`, for the same constants:

- `OnlyLostRunsInterrupted`: `Spec => []InterruptedMeansCutOff`. `LossInv` adds to
  `SafeInv` that a claim on disk has a running activation or was cut off
  (`ClaimHasRun`): a tick that finds `running` and is let in by the latch therefore
  reads what a dead process left.
- `NeverReopens`: `Spec => JournalNeverReopens`, `DraftsStillWanted`:
  `Spec => DraftStillWanted`, both from `SafeInv` and a lemma that says which journals a
  step may write.
- `AttemptsCounted`: `Spec => []AttemptsAccounted`. `CountInv` adds that nothing is
  recorded yet of a run in flight (`RunUnrecorded`): its outcome is the one attempt its
  claim has counted.
- `SpendingBounded`: `OneIdentity |- Spec => []SpendBounded`. `BillInv` extends `BuyInv`
  by what has been charged when: nothing while nothing was bought (`UnboughtUnbilled`),
  the price of the story until it is recorded, no more than the ledger when the second
  check looks at the cap (`StageBilled`). Only the panels can be charged beyond it.

`LongSessionProofs`, for any number of flips, outcomes of their loading, timers,
refetches and restarts:

- `TypesKept`: `Spec => []TypeOK`, which is inductive here.
- `AttemptsAgree`: `Spec => []AttemptsKeepAnswers`. `AttemptInv` adds that there is an
  attempt only where answers are no longer given (`PostedLate`), so that no step between
  two attempts, a restart included, can choose another side.
- `ApprovedFlipsNotReported`: `Spec => []ApprovedNotReported`. `RatingInv` puts in the
  place of the grades what they are computed from: there is one best flip, and a relevant
  one is not in `reports`. This half survives that `FLIP` resets a relevance and leaves
  the report; the quota does not (section 4).
- `AnswersNeverLost`: `Spec => AnswersSurvive`, with a case for each way a record is
  merged, marked or touched.

`ShortSessionProofs`, for any number of assigned and extra flips, timers, refetches,
breaks and restarts:

- `TypesKept`: `Spec => []TypeOK`. `LoadInv` adds that a flip that was never swapped has
  the role the node gave it (`SwapMarked`) and that what is decoded or asked for is ready
  and its hashes known (`LoadedReady`).
- `RegularsCounted`: `Spec => []RegularsKept`. A swap exchanges two sets of one
  cardinality; a poll keeps a role that is marked and confirms one that is not.
- `ShownFlipsStay`: `Spec => DecodedStaysRegular`, from `LoadInv`.
- `ChosenSent`: `Spec => []ChosenIsSent`. `ChoiceInv` adds that the record of a flip
  holds what was chosen last (`GivenKept`), which every merge and restart must keep.
- `FailedForTooFew`: `Spec => []FailedMeansTooFew`. `EndInv` adds in which states the
  node can have taken answers (`AcceptedInTime`).

`AutoStakeProofs`, for any number of transfers, nonces, epochs, runs that are cut off and
transactions that are forgotten or sent by hand:

- `TypesKept`: `Spec => []TypeOK`. `TypeInv` adds what a run knows at each request
  (`Planned`).
- `ArchivedNeverExecuted`: `Spec => ArchivedStaysOut`; what is archived is past its nonce
  or epoch, and stays so.
- `NoSecondStake`: `Spec => []StakedOnce`. A run may end between sending a stake and
  journaling it, so the journal does not rule out a second one; the chain does.
  `StakeInv` says: what was sent is pending, mined, forgotten or spent, past its nonce or
  epoch (`Located`); a stake without a journal entry is about to get one, or its run was
  cut off (`Recorded`); a run that looks for stakes knows each earlier one as pending, as
  mined or as spent (`Informed`), because it reads the pending transactions before the
  confirmed ones and a transaction only moves that way; once it has chosen a transfer
  every earlier stake for it is spent (`Cleared`); so one stake at most can ever be
  executed (`Single`). Each with the exception `Lost`.

`WatchdogProofs`, for all periods, budgets and settings of the clock, and any number of
reboots, services and watchdogs that die:

- `TypesKept`: `Spec => []TypeOK`. `TypeInv` has for the file, and for the state a
  running watchdog holds, that its evidence is consistent (`Sound`), and that what is
  about to be marked has room in the budget.
- `RestartsKeepDistance`: `Spec => []RestartsSpaced`. `SpaceInv` says what a state still
  knows (`Remembers`): the last restart, unless the clock was put ahead, and every
  restart of the window, unless it was set at all. If the budget were exceeded, as many
  restarts as it allows would map one to one into a history that has room for one more.
- `OneRestart`: `Spec => []OneRestartPerOutage`. `LatchInv`: a restart that may have
  happened in this outage has its latch in the file, for a peer outage with this boot.
- `OutagesProven`: `Spec => OutageProven`. `EvidenceInv`: evidence of the main process
  that runs was sampled in a row (`Evidence`), in the file and in the state between the
  two snapshots.

Assumptions, all of which TLC evaluates:

- `PublishAssumption` of the publisher: ranges; drafts are numbered, the user handles
  some of them, and what is stored at first is a record for each that does not say
  published or submitted.
- `ConstantsAssumption` and `LegacyAssumption` of the scheduler: ranges (`SpendCap` is
  positive, 1.5 dollars in the code); delays within the window, which `tick` checks; a
  journal of an earlier release has no spend window, no paid count, and is of the first
  epoch. A first journal that says `interrupted` is one whose run was cut off before.
- `SigningAssumption` and `LegacyAssumption` of the signing services: ranges; attempts of
  an earlier release use no nonce twice, which the import refuses.
- `LongSessionAssumption`, `ShortSessionAssumption`: finitely many flips; every flip has
  an outcome of its loading; a flip is not both assigned and extra.
- `StakeAssumption`, `NoneAssumption` of auto-stake: ranges, with at least one nonce and
  fee; a transaction for no transfer is told from a stake.
- `WatchdogAssumption`: ranges; `OnlineLoss` is positive (the configuration demands 900
  seconds). With 0 `OutageProven` would be false: an outage could be interrupted by an
  offline identity that is restarted for at once.

`OneIdentity` is a hypothesis of two theorems of the scheduler, not an assumption of the
module: `flip_scheduler_identities` runs without it.

Only model-checked: the liveness properties `SessionGetsOutcome`, `QueueDrains`,
`FetchEnds`, `SubmissionConcludes` and `EveryTransferDecided`, because TLAPS does not
prove liveness under fairness. Every invariant and every action property of a passing
run, and both refinements, are proved.

## 6. Plan

Done in this order because money and the chain come first: scheduler, publisher, long
session, short session, signing, auto-stake, watchdog; the proofs of the scheduler, the
publisher and of signing, then those of both sessions, of auto-stake and of the
watchdog. Next:

1. Proofs: an abstract submission of answers that both validation sessions implement;
   the claim of the scheduler as a third implementation of `PaidOnce`.
2. The solver runs of the validation page against the statecharts they send events to.
3. The managed node: overlapping starts, stops and updates of one child process.
4. The budget reservation of the provider bridge, and the scheduler as its client.

## 7. Not modelled

- Data: prompts, panels, payload encoding, cropping, translations, layout.
- `deleteDraft` of the runtime's store, which nothing calls in this flow, and the daily
  budget of manual provider calls.
- The node itself. It appears as answers that are accepted, refused or lost.
- What a market action pays and for whom, receipts, private messages, withdrawals,
  purchase budgets and order limits of the signing services.
- How the watchdog takes a snapshot, checks its files and writes its status page.
- Rehearsal devnet, node updater, local AI, RAG, oracles, ads, wallets and the home
  page: process supervision or single calls whose state does not outlive a page. The
  list in `PROJECT.json` has the reason for each.
