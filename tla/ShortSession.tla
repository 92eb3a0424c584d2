----------------------------- MODULE ShortSession -----------------------------
(***************************************************************************)
(* The short session of the validation ceremony: state shortSession of     *)
(* createValidationMachine (src/renderer/screens/validation/machine.js).   *)
(*                                                                         *)
(* Region fetch polls hashes and flips in parallel and, once, replaces     *)
(* flips that cannot be shown by extra flips. Region solve.answer collects *)
(* answers and submits them, on demand or before the deadline. Persistence *)
(* and restart are as in LongSession.                                      *)
(***************************************************************************)
EXTENDS Integers, FiniteSets

CONSTANTS
  Regular,       \* the flips the node assigned
  Extra,         \* the extra flips it offers
  Late,          \* flips the node may not have ready at first
  Outcomes,      \* Outcomes[f]: outcomes of flip_get for f that are explored
  Answered,      \* flips the user or the solver answers
  Choices,       \* sides a user or the solver chooses
  Odd,           \* flips whose hash makes "right" the fallback
  Timers,        \* timers that are explored
  MaxRefetches,  \* bound: REFETCH_FLIPS sent when the connection is back
  MaxRestarts,   \* bound: restarts of the application
  MaxBreaks      \* bound: both together

Flips == Regular \cup Extra

ASSUME ShortSessionAssumption ==
  /\ IsFiniteSet(Flips) /\ Regular # {} /\ Regular \cap Extra = {}
  /\ Late \subseteq Flips /\ Answered \subseteq Flips /\ Odd \subseteq Flips
  /\ Outcomes \in [Flips -> SUBSET {"image", "garbled", "error", "lost"} \ {{}}]
  /\ Choices \subseteq {"left", "right"}
  /\ Timers \subseteq {"bump", "finalize", "auto"}
  /\ MaxRefetches \in Nat /\ MaxRestarts \in Nat /\ MaxBreaks \in Nat

VARIABLES
  period,     \* what the node reports: "short", later "long"
  at,         \* state of solve.answer; "long" and "failed" leave the session
  fetch,      \* "polling" or "done"
  hashes,     \* region fetchHashes of polling
  get,        \* region fetchFlips of polling
  queue,      \* hashes the running fetchFlips has not answered yet
  stray,      \* hashes of abandoned calls of fetchFlips, which run on
  dead,       \* regions restored without their invocations and timers
  timers,     \* timers still to fire
  known,      \* shortFlips holds the hashes
  flips,      \* shortFlips
  given,      \* given[f]: the last answer of the user or the solver
  sent,       \* the answers of the last flip_submitShortAnswers
  accepted,   \* the node has taken answers
  recovered,  \* shortSessionDecodeRecoveryAttemptedRef
  refetches, restarts

answering == <<at, given, sent, accepted>>
loading   == <<fetch, hashes, get, queue, stray>>
counters  == <<recovered, refetches, restarts>>
vars == <<period, at, fetch, hashes, get, queue, stray, dead, timers, known, flips,
          given, sent, accepted, recovered, refetches, restarts>>

Options == {"none", "left", "right"}
Records == [ready: BOOLEAN, extra: BOOLEAN, flipped: BOOLEAN, fetched: BOOLEAN,
            decoded: BOOLEAN, failed: BOOLEAN, option: Options]
Fresh == [f \in Flips |->
           [ready |-> FALSE, extra |-> f \in Extra, flipped |-> FALSE,
            fetched |-> FALSE, decoded |-> FALSE, failed |-> FALSE, option |-> "none"]]
NoAnswers == [f \in Flips |-> "none"]

Live == at \notin {"long", "failed"}

Init ==
  /\ period = "short" /\ at = "normal"
  /\ fetch = "polling" /\ hashes = "fetching" /\ get = "fetching"
  /\ queue = {} /\ stray = {} /\ dead = {} /\ timers = Timers /\ known = FALSE
  /\ flips = Fresh
  /\ given = NoAnswers /\ sent = NoAnswers /\ accepted = FALSE
  /\ recovered = FALSE /\ refetches = 0 /\ restarts = 0

-----------------------------------------------------------------------------
(* Region fetch.                                                            *)

NotFetched(fs)  == {f \in Flips : fs[f].ready /\ ~fs[f].fetched}
Renderable(fs)  == {f \in Flips : fs[f].decoded /\ ~fs[f].failed}
FailedFlips     == {f \in Flips : ~flips[f].extra /\ ~(flips[f].ready /\ flips[f].decoded)}
AvailableExtras == {f \in Flips : flips[f].extra /\ flips[f].decoded}

didFetchShortFlips ==
  /\ known
  /\ \A f \in Flips : ~flips[f].extra =>
       flips[f].ready /\ flips[f].fetched /\ flips[f].decoded

Polling == Live /\ fetch = "polling" /\ "fetch" \notin dead

\* Entering polling starts both regions; an abandoned fetchFlips runs on.
EnterPolling ==
  /\ fetch' = "polling" /\ hashes' = "fetching" /\ get' = "fetching"
  /\ queue' = NotFetched(flips') /\ stray' = stray \cup queue

LeavePolling ==
  /\ fetch' = "done" /\ queue' = {} /\ stray' = stray \cup queue
  /\ UNCHANGED <<hashes, get>>

\* Mutant: the answer of the node replaces a swapped flip, too.
PolledAll(flip, f, ready) == [flip EXCEPT !.ready = ready, !.extra = f \in Extra]

\* What flip_shortHashes says of a flip, unless the flip was swapped.
Polled(flip, f, ready) ==
  IF flip.flipped THEN flip ELSE [flip EXCEPT !.ready = ready, !.extra = f \in Extra]

HashesFetched ==
  /\ Polling /\ hashes = "fetching" /\ hashes' = "check"
  /\ \E late \in SUBSET Late :
       flips' = [f \in Flips |->
                  Polled(flips[f], f, flips[f].ready \/ f \notin Late \/ f \in late)]
  /\ known' = TRUE
  /\ UNCHANGED <<period, answering, fetch, get, queue, stray, dead, timers, counters>>

HashesFailed ==
  /\ Polling /\ hashes = "fetching" /\ hashes' = "check"
  /\ UNCHANGED <<period, answering, fetch, get, queue, stray, dead, timers, known, flips,
                 counters>>

\* What FLIP merges into the record.
Arrived(flip, outcome) ==
  IF outcome = "lost" THEN [flip EXCEPT !.fetched = FALSE]
  ELSE [flip EXCEPT !.fetched = outcome # "error", !.decoded = outcome = "image"]

FlipArrives(f) ==
  /\ Polling /\ get = "fetching" /\ f \in queue
  /\ \E outcome \in Outcomes[f] : flips' = [flips EXCEPT ![f] = Arrived(@, outcome)]
  /\ queue' = queue \ {f}
  /\ UNCHANGED <<period, answering, fetch, hashes, get, stray, dead, timers, known, counters>>

\* An answer to an abandoned call: only fetchFlips.fetching takes FLIP.
StrayArrives(f) ==
  /\ Live /\ f \in stray /\ stray' = stray \ {f}
  /\ \/ /\ Polling /\ get = "fetching"
        /\ \E outcome \in Outcomes[f] : flips' = [flips EXCEPT ![f] = Arrived(@, outcome)]
     \/ /\ ~(Polling /\ get = "fetching")
        /\ UNCHANGED flips
  /\ UNCHANGED <<period, answering, fetch, hashes, get, queue, dead, timers, known, counters>>

FlipsFetched ==
  /\ Polling /\ get = "fetching" /\ queue = {} /\ get' = "check"
  /\ UNCHANGED <<period, answering, fetch, hashes, queue, stray, dead, timers, known, flips,
                 counters>>

\* The two check states: fetch again unless every regular flip is there.
Quiet == UNCHANGED <<period, answering, dead, timers, known, flips, counters>>

CheckHashes ==
  /\ Polling /\ hashes = "check" /\ Quiet
  /\ \/ didFetchShortFlips /\ LeavePolling
     \/ /\ ~didFetchShortFlips /\ hashes' = "fetching"
        /\ UNCHANGED <<fetch, get, queue, stray>>

CheckFlips ==
  /\ Polling /\ get = "check" /\ Quiet
  /\ \/ didFetchShortFlips /\ LeavePolling
     \/ /\ ~didFetchShortFlips /\ get' = "fetching" /\ queue' = NotFetched(flips)
        /\ UNCHANGED <<fetch, hashes, stray>>

-----------------------------------------------------------------------------
(* Replacing and finalising.                                                *)

Swap(flip) == [flip EXCEPT !.extra = ~@, !.flipped = TRUE]

\* Mutant: every failed flip is taken out, however few extra flips there are.
PulledUneven ==
  {FailedFlips \cup taken : taken \in
     {t \in SUBSET AvailableExtras : Cardinality(t) <= Cardinality(FailedFlips)}}

\* As many failed flips as there are decoded extra flips change places with them.
Pulled ==
  {swap[1] \cup swap[2] : swap \in
     {pair \in (SUBSET FailedFlips) \X (SUBSET AvailableExtras) :
        /\ Cardinality(pair[1]) = Cardinality(pair[2])
        /\ pair[1] = FailedFlips \/ pair[2] = AvailableExtras}}

\* BUMP_EXTRA_FLIPS, extraFlips and EXTRA_FLIPS_PULLED.
BumpExtraFlips ==
  /\ Live /\ "bump" \in timers /\ timers' = timers \ {"bump"}
  /\ \/ /\ FailedFlips # {} /\ AvailableExtras # {}
        /\ \E pulled \in Pulled :
             flips' = [f \in Flips |-> IF f \in pulled THEN Swap(flips[f]) ELSE flips[f]]
        /\ EnterPolling
     \/ /\ FailedFlips = {} \/ AvailableExtras = {}
        /\ UNCHANGED <<loading, flips>>
  /\ UNCHANGED <<period, answering, dead, known, counters>>

MarkFailed ==
  flips' = [f \in Flips |-> [flips[f] EXCEPT !.failed = @ \/ (known /\ f \in FailedFlips)]]

\* FINALIZE_FLIPS, which is due after BUMP_EXTRA_FLIPS.
FinalizeFlips ==
  /\ Live /\ "finalize" \in timers /\ "bump" \notin timers
  /\ timers' = timers \ {"finalize"}
  /\ MarkFailed /\ LeavePolling
  /\ UNCHANGED <<period, answering, dead, known, counters>>

\* REFETCH_FLIPS leaves fetch and enters it again, which arms its timers anew.
Refetch ==
  /\ Live
  /\ flips' = [f \in Flips |-> [flips[f] EXCEPT !.fetched = FALSE, !.decoded = FALSE]]
  /\ EnterPolling
  /\ timers' = timers \cup (Timers \cap {"bump", "finalize"})
  /\ dead' = dead \ {"fetch"}
  /\ UNCHANGED <<period, answering, known, restarts>>

RefetchFlips ==
  /\ refetches < MaxRefetches /\ refetches + restarts < MaxBreaks /\ refetches' = refetches + 1
  /\ Refetch /\ UNCHANGED recovered

\* Once for each start of the page, when there are ready flips and none to show.
RecoverDecodeState ==
  /\ ~recovered /\ recovered' = TRUE
  /\ period = "short"
  /\ (\E f \in Flips : flips[f].ready) /\ Renderable(flips) = {}
  /\ Refetch /\ UNCHANGED refetches

-----------------------------------------------------------------------------
(* Region solve.answer.                                                     *)

Choose(f) ==
  /\ at = "normal"
  /\ \E option \in Choices :
       /\ flips' = [flips EXCEPT ![f].option = option]
       /\ given' = [given EXCEPT ![f] = option]
  /\ UNCHANGED <<period, at, sent, accepted, loading, dead, timers, known, counters>>

\* The user answers a flip the page shows.
Answer(f) == ~flips[f].extra /\ f \in Renderable(flips) /\ Choose(f)

\* The solver may have looked at f before a swap, a refetch or a restart.
ApplyAiAnswers(f) == known /\ flips[f].ready /\ Choose(f)

deterministicAnswerFallback(f) == IF f \in Odd THEN "right" ELSE "left"

\* Mutant: the fallback is no side.
BlankSubmitOptions(fs) ==
  [f \in Flips |-> IF fs[f].extra \/ fs[f].option # "none" THEN fs[f]
                   ELSE [fs[f] EXCEPT !.option = "inappropriate"]]

\* Regular flips without an answer get one derived from their hash.
ensureShortSubmitOptions(fs) ==
  [f \in Flips |-> IF fs[f].extra \/ fs[f].option # "none" THEN fs[f]
                   ELSE [fs[f] EXCEPT !.option = deterministicAnswerFallback(f)]]

\* Entering submitting; leaving normal cancels its timer.
Submit(from) ==
  /\ at \in from /\ at' = "submitting"
  /\ known
  /\ flips' = ensureShortSubmitOptions(flips)
  /\ sent' = [f \in Flips |-> flips'[f].option]
  /\ timers' = timers \ {"auto"}
  /\ dead' = dead \ {"answer"}
  /\ UNCHANGED <<period, given, accepted, loading, known, counters>>

SubmitAnswers == Submit({"normal"})
AutoRetry     == "answer" \notin dead /\ Submit({"fail"})
RetrySubmit   == Submit({"fail"})

\* Six of ten regular flips that can be shown have an answer.
hasEnoughAnswers ==
  LET solvable == {f \in Flips : flips[f].decoded /\ ~flips[f].extra}
      answered == {f \in solvable : flips[f].option # "none"}
  IN  solvable # {} /\ 5 * Cardinality(answered) >= 3 * Cardinality(solvable)

GiveUp ==
  /\ at' = "failed" /\ timers' = timers \ {"auto"}
  /\ UNCHANGED <<period, given, sent, accepted, loading, dead, known, flips, counters>>

\* Mutant: the timer belongs to the session, not to the state normal.
AutoSubmitAnywhere ==
  /\ Live /\ "auto" \in Timers /\ "answer" \notin dead
  /\ IF hasEnoughAnswers THEN Submit({"normal"}) ELSE known /\ GiveUp

\* SHORT_SESSION_AUTO_SUBMIT, a timer of the state normal.
AutoSubmit ==
  /\ at = "normal" /\ "auto" \in timers
  /\ \/ hasEnoughAnswers /\ Submit({"normal"})
     \/ ~hasEnoughAnswers /\ known /\ GiveUp
     \/ /\ ~known /\ timers' = timers \ {"auto"}
        /\ UNCHANGED <<period, answering, loading, dead, known, flips, counters>>

Submitting == at = "submitting" /\ "answer" \notin dead

Moves(to) ==
  /\ at' = to
  /\ UNCHANGED <<period, given, sent, accepted, loading, dead, timers, known, flips, counters>>

\* The node takes the answers; its reply may still be lost.
NodeTakesAnswers ==
  /\ Submitting /\ ~accepted /\ accepted' = TRUE
  /\ UNCHANGED <<period, at, given, sent, loading, dead, timers, known, flips, counters>>

\* A transaction hash, or the error of a transaction that is known already.
SubmitDone  == Submitting /\ accepted /\ Moves("submitted")
SubmitFails == Submitting /\ Moves("fail")

\* WAIT_FOR_LONG_SESSION, or START_LONG_SESSION of the page in the long session.
StartLongSession ==
  at = "submitted" /\ ("answer" \notin dead \/ period = "long") /\ Moves("long")

PeriodEnds ==
  /\ period = "short" /\ period' = "long"
  /\ UNCHANGED <<answering, loading, dead, timers, known, flips, counters>>

-----------------------------------------------------------------------------
\* Mutant: of a persisted flip only what the node says of it is kept.
UnloadedWhole(flip) ==
  [flip EXCEPT !.fetched = FALSE, !.decoded = FALSE, !.option = "none"]

\* The images of a persisted flip are gone with the window.
Unloaded(flip) ==
  IF flip.decoded THEN [flip EXCEPT !.fetched = FALSE, !.decoded = FALSE] ELSE flip

\* The persisted state is taken up in the short session, and after it while a
\* submitted session waits for the long one.
Restored ==
  /\ known /\ (period = "long" => at = "submitted")
  /\ flips' = [f \in Flips |-> Unloaded(flips[f])]
  /\ fetch' = IF at # "submitted" /\ \E f \in Flips : flips[f].ready
                THEN "polling" ELSE fetch
  /\ dead' = {"fetch", "answer"} /\ timers' = {}
  /\ UNCHANGED <<answering, hashes, get, known>>

\* Without hashes, or in the long session, it is discarded.
Discarded ==
  /\ ~known \/ period = "long"
  /\ at' = IF period = "long" THEN "long" ELSE "normal"
  /\ flips' = Fresh /\ given' = NoAnswers /\ sent' = NoAnswers /\ known' = FALSE
  /\ fetch' = "polling" /\ hashes' = "fetching" /\ get' = "fetching"
  /\ dead' = {} /\ timers' = Timers
  /\ UNCHANGED accepted

Restart ==
  /\ Live /\ restarts < MaxRestarts /\ refetches + restarts < MaxBreaks /\ restarts' = restarts + 1
  /\ recovered' = FALSE /\ queue' = {} /\ stray' = {}
  /\ Restored \/ Discarded
  /\ UNCHANGED <<period, refetches>>

FetchStep ==
  \/ HashesFetched \/ HashesFailed \/ FlipsFetched \/ CheckHashes \/ CheckFlips
  \/ \E f \in Flips : FlipArrives(f) \/ StrayArrives(f)

UserStep ==
  \/ \E f \in Answered : Answer(f) \/ ApplyAiAnswers(f)
  \/ SubmitAnswers \/ RetrySubmit

SubmitStep == AutoRetry \/ NodeTakesAnswers \/ SubmitDone \/ SubmitFails \/ StartLongSession

Next ==
  \/ FetchStep \/ UserStep \/ SubmitStep
  \/ BumpExtraFlips \/ FinalizeFlips \/ AutoSubmit
  \/ RefetchFlips \/ RecoverDecodeState \/ PeriodEnds \/ Restart

Spec == Init /\ [][Next]_vars

-----------------------------------------------------------------------------
TypeOK ==
  /\ period \in {"short", "long"}
  /\ at \in {"normal", "submitting", "submitted", "fail", "long", "failed"}
  /\ fetch \in {"polling", "done"}
  /\ hashes \in {"fetching", "check"} /\ get \in {"fetching", "check"}
  /\ queue \subseteq Flips /\ stray \subseteq Flips
  /\ dead \subseteq {"fetch", "answer"} /\ timers \subseteq Timers
  /\ known \in BOOLEAN /\ flips \in [Flips -> Records]
  /\ given \in [Flips -> Options] /\ sent \in [Flips -> Options]
  /\ accepted \in BOOLEAN /\ recovered \in BOOLEAN
  /\ refetches \in 0..MaxRefetches /\ restarts \in 0..MaxRestarts

\* As many flips are regular as the node assigned, through swaps, swaps back,
\* polls, refetches and restarts: the node counts that many answers.
RegularsKept ==
  Cardinality({f \in Flips : ~flips[f].extra}) = Cardinality(Regular)

\* A flip that can be shown is never taken from the user again, neither by a
\* swap nor by a poll that does not know of the swap.
DecodedStaysRegular ==
  [][\A f \in Flips :
       Live' /\ ~flips[f].extra /\ flips'[f].extra => ~flips[f].decoded]_vars

\* What was chosen is what is sent: no fallback, refetch, restart or retry
\* changes an answer.
ChosenIsSent ==
  at \in {"submitting", "fail", "submitted"} =>
    \A f \in Flips : given[f] # "none" => sent[f] = given[f]

\* The session only fails for lack of answers, and never after the node has
\* taken some.
FailedMeansTooFew == at = "failed" => known /\ ~accepted /\ ~hasEnoughAnswers
=============================================================================
