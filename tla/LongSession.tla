----------------------------- MODULE LongSession -----------------------------
(***************************************************************************)
(* The long session of the validation ceremony: state longSession of        *)
(* createValidationMachine (src/renderer/screens/validation/machine.js).   *)
(*                                                                         *)
(* Two regions run in parallel: fetch.flips loads the flips, solve.answer  *)
(* collects answers, approvals and reports and submits them. The page      *)
(* persists every state and restores it after a restart                    *)
(* (src/renderer/screens/validation/utils.js). A restored machine does not *)
(* run the invocations and timers of the states it is restored in (xstate),*)
(* only those of the states it enters from there.                          *)
(***************************************************************************)
EXTENDS Integers, FiniteSets

CONSTANTS
  Flips,         \* the flips of the session
  Late,          \* those the node may not have ready at first
  Outcomes,      \* outcomes of flip_get that are explored
  Timers,        \* timers that are explored; "grace" is the time flips may get ready
  MaxRefetches,  \* bound: REFETCH_FLIPS sent because of the connection or an image
  MaxRestarts    \* bound: restarts of the application

ASSUME LongSessionAssumption ==
  /\ IsFiniteSet(Flips) /\ Late \subseteq Flips
  /\ Outcomes \subseteq {"image", "garbled", "error", "lost"}
  /\ Timers \subseteq {"grace", "finalize", "finalizeAll", "check"}
  /\ MaxRefetches \in Nat /\ MaxRestarts \in Nat

VARIABLES
  at,         \* state of solve.answer, or the final state of the machine
  fetch,      \* state of fetch.flips
  queue,      \* hashes the running fetchFlips has not answered yet
  stray,      \* hashes of abandoned calls of fetchFlips, which run on
  dead,       \* regions restored without their invocation or timer
  timers,     \* timers still to fire
  known,      \* longFlips holds the hashes
  flips,      \* longFlips
  reports,    \* context.reports
  best,       \* context.bestFlipHashes
  sent,       \* the grades of the last flip_submitLongAnswers
  posted,     \* history: <<f, answer>> of every attempt that did not report f
  accepted,   \* the node has taken answers
  recovered,  \* longSessionDecodeRecoveryAttemptedRef
  refetches, restarts

answering == <<at, dead, reports, best, sent, posted, accepted>>
fetching  == <<fetch, queue, stray, timers, known, recovered, refetches>>
vars == <<at, fetch, queue, stray, dead, timers, known, flips, reports, best, sent,
          posted, accepted, recovered, refetches, restarts>>

Relevances == {"abstained", "relevant", "irrelevant"}
Grades     == {"A", "D", "reported", "none"}
Sides      == {"chosen", "fallback"}
Records == [ready: BOOLEAN, fetched: BOOLEAN, decoded: BOOLEAN,
            missing: BOOLEAN, failed: BOOLEAN, answered: BOOLEAN,
            relevance: Relevances]
Fresh == [ready |-> FALSE, fetched |-> FALSE, decoded |-> FALSE,
          missing |-> FALSE, failed |-> FALSE, answered |-> FALSE,
          relevance |-> "abstained"]

Unsent == [f \in Flips |-> "none"]

Live == at \notin {"succeeded", "failed"}

Init ==
  /\ at = "welcome" /\ fetch = "hashes" /\ queue = {} /\ stray = {} /\ dead = {}
  /\ timers = Timers /\ known = FALSE
  /\ flips = [f \in Flips |-> Fresh]
  /\ reports = {} /\ best = {} /\ sent = Unsent /\ posted = {}
  /\ accepted = FALSE
  /\ recovered = FALSE /\ refetches = 0 /\ restarts = 0

-----------------------------------------------------------------------------
(* fetch.flips                                                              *)

Ready(fs)         == {f \in Flips : fs[f].ready}
NotFetched(fs)    == {f \in Ready(fs) : ~fs[f].fetched}
Renderable(fs)    == {f \in Flips : fs[f].decoded /\ ~fs[f].failed}
PendingDecode(fs) ==
  {f \in Ready(fs) : ~fs[f].failed /\ (fs[f].missing \/ ~fs[f].decoded)}

Fetching(state) == Live /\ fetch = state /\ "fetch" \notin dead

\* A callback service that returned a promise is not stopped with its state:
\* what is left of its queue is still asked for, and FLIP sent.
Fetch(state, hashes) ==
  fetch' = state /\ queue' = hashes /\ stray' = stray \cup queue

\* flip_longHashes; a flip that is not ready yet may be at a later call.
HashesFetched ==
  /\ Fetching("hashes")
  /\ \E late \in SUBSET Late :
       flips' = [f \in Flips |->
                  [flips[f] EXCEPT !.ready = @ \/ f \notin Late \/ f \in late]]
  /\ known' = TRUE
  /\ Fetch("flips", NotFetched(flips'))
  /\ UNCHANGED <<answering, timers, recovered, refetches, restarts>>

HashesFailed ==
  /\ Fetching("hashes")
  /\ Fetch("flips", NotFetched(flips))
  /\ UNCHANGED <<answering, flips, timers, known,
                      recovered, refetches, restarts>>

\* Mutant: FLIP merges no relevance.
ArrivedUnrated(flip, outcome) ==
  [flip EXCEPT !.fetched = TRUE, !.decoded = outcome = "image",
               !.missing = outcome = "error", !.relevance = "none"]

\* What FLIP merges into the record. A rejected flip_get has only fetched.
Arrived(flip, outcome) ==
  LET merged == [flip EXCEPT !.fetched = outcome \in {"image", "garbled"},
                             !.relevance = "abstained"]
  IN IF outcome = "lost" THEN merged
     ELSE [merged EXCEPT !.decoded = outcome = "image", !.missing = outcome = "error"]

FlipArrives(f) ==
  /\ Fetching("flips") \/ Fetching("missing")
  /\ f \in queue
  /\ \E outcome \in Outcomes : flips' = [flips EXCEPT ![f] = Arrived(@, outcome)]
  /\ queue' = queue \ {f}
  /\ UNCHANGED <<answering, fetch, stray, timers, known,
                 recovered, refetches, restarts>>

\* An answer to an abandoned call. Bound: one for each hash.
StrayArrives(f) ==
  /\ Live /\ f \in stray
  /\ \E outcome \in Outcomes : flips' = [flips EXCEPT ![f] = Arrived(@, outcome)]
  /\ stray' = stray \ {f}
  /\ UNCHANGED <<answering, fetch, queue, timers, known,
                 recovered, refetches, restarts>>

Quiet == UNCHANGED <<answering, flips, timers, known,
                      recovered, refetches, restarts>>

\* shouldPollLongFlips: a flip is not ready and the grace time is not over.
KeepPolling ==
  /\ Fetching("flips") /\ queue = {}
  /\ "grace" \in timers /\ known /\ Ready(flips) # Flips
  /\ Fetch("enqueued", {}) /\ Quiet

DetectMissing ==
  /\ Fetching("flips") /\ queue = {}
  /\ IF PendingDecode(flips) = {} THEN Fetch("done", {})
     ELSE Fetch("missing", PendingDecode(flips))
  /\ Quiet

PollAgain == Fetching("enqueued") /\ Fetch("hashes", {}) /\ Quiet

CheckMissing ==
  /\ Fetching("missing") /\ queue = {}
  /\ Fetch(IF PendingDecode(flips) = {} THEN "done" ELSE "backoff", {})
  /\ Quiet

FetchMissing ==
  Fetching("backoff") /\ Fetch("missing", PendingDecode(flips)) /\ Quiet

GraceEnds ==
  /\ Live /\ "grace" \in timers
  /\ timers' = timers \ {"grace"}
  /\ UNCHANGED <<answering, fetch, queue, stray, flips, known, recovered, refetches, restarts>>

\* Mutant: loading is stopped, but no flip is marked as failed.
FinalizeUnmarked(timer, given) ==
  /\ Live /\ timer \in timers
  /\ timers' = timers \ {timer}
  /\ Fetch("done", {})
  /\ UNCHANGED <<answering, flips, known, recovered, refetches, restarts>>

\* FINALIZE_LONG_FLIPS, FINALIZE_ALL_LONG_FLIPS
Finalize(timer, given) ==
  /\ Live /\ timer \in timers
  /\ timers' = timers \ {timer}
  /\ flips' = [f \in Flips |-> [flips[f] EXCEPT !.failed = @ \/ (known /\ f \in given)]]
  /\ Fetch("done", {})
  /\ UNCHANGED <<answering, known, recovered, refetches, restarts>>

FinalizeLongFlips == "grace" \notin timers /\ Finalize("finalize", Flips \ Ready(flips))
FinalizeAllLongFlips == "finalize" \notin timers /\ Finalize("finalizeAll", Flips)

\* REFETCH_FLIPS
Refetch ==
  /\ Live
  /\ flips' = [f \in Flips |-> [flips[f] EXCEPT !.fetched = FALSE, !.decoded = FALSE]]
  /\ Fetch("flips", Ready(flips))
  /\ dead' = dead \ {"fetch"}
  /\ UNCHANGED <<at, timers, known, reports, best, sent, posted, accepted, restarts>>

\* The page sends it when the connection is back or an image fails to show.
RefetchFlips ==
  /\ refetches < MaxRefetches
  /\ refetches' = refetches + 1
  /\ Refetch
  /\ UNCHANGED recovered

\* Once, when there are ready flips and none can be shown.
RecoverDecodeState ==
  /\ ~recovered
  /\ Ready(flips) # {} /\ Renderable(flips) = {}
  /\ fetch = "done" => at \in {"flips", "keywords"}
  /\ recovered' = TRUE
  /\ Refetch
  /\ UNCHANGED refetches

-----------------------------------------------------------------------------
(* solve.answer                                                             *)

availableReportsNumber == IF known THEN Cardinality(Flips) \div 3 ELSE 0

Answering(from, to) ==
  /\ at \in from /\ at' = to
  /\ UNCHANGED <<fetching, flips, dead, reports, best, sent, posted, accepted, restarts>>

StartLongSession == Answering({"welcome"}, "flips")
FinishFlips      == Answering({"flips"}, "finishFlips")
StartKeywords    == Answering({"finishFlips"}, "keywords")
ResumeFlips      == Answering({"keywords"}, "flips")

Answer(f) ==
  /\ at \in {"flips", "keywords"} /\ f \in Renderable(flips)
  /\ flips' = [flips EXCEPT ![f].answered = TRUE]
  /\ UNCHANGED <<answering, fetching, restarts>>

Toggle(s, f) == IF f \in s THEN s \ {f} ELSE s \cup {f}

\* Relevance r is set, or taken back if the flip has it.
Mark(f, r) == flips' = [flips EXCEPT ![f].relevance = IF @ = r THEN "abstained" ELSE r]

Rate(f, nextReports, nextBest) ==
  /\ at = "keywords" /\ f \in Ready(flips)
  /\ reports' = nextReports /\ best' = nextBest
  /\ UNCHANGED <<fetching, at, dead, sent, posted, accepted, restarts>>

\* Mutant: approving a reported flip keeps its report.
approveReported(f) ==
  /\ Mark(f, "relevant")
  /\ Rate(f, reports,
          IF flips[f].relevance = "relevant" THEN best \ {f} ELSE best)

approveFlip(f) ==
  /\ Mark(f, "relevant")
  /\ Rate(f, reports \ {f},
          IF flips[f].relevance = "relevant" THEN best \ {f} ELSE best)

reportFlip(f) ==
  LET within == Cardinality(reports) < availableReportsNumber
  IN \/ /\ within
        /\ Mark(f, "irrelevant")
        /\ Rate(f, Toggle(reports, f), best \ {f})
     \/ /\ ~within /\ f \in reports
        /\ flips' = [flips EXCEPT ![f].relevance = "abstained"]
        /\ Rate(f, reports \ {f}, best)
     \/ /\ ~within /\ f \notin reports
        /\ flips' = [flips EXCEPT ![f].relevance = "abstained"]
        /\ Rate(f, reports, best \ {f})

\* The page offers the star for an approved flip, if no other flip has it.
Favorite(f) ==
  /\ at = "keywords"
  /\ flips[f].relevance = "relevant" /\ best \subseteq {f}
  /\ best' = Toggle(best, f)
  /\ UNCHANGED <<fetching, flips, at, dead, reports, sent, posted, accepted, restarts>>

Grade(f) ==
  CASE flips[f].relevance = "relevant"   -> IF f \in best THEN "A" ELSE "D"
    [] flips[f].relevance = "irrelevant" -> "reported"
    [] OTHER                             -> "none"

\* Mutant: a flip that is not approved gets no answer either.
answerApproved(f) ==
  IF flips[f].relevance # "relevant" THEN "none"
  ELSE IF flips[f].answered THEN "chosen" ELSE "fallback"

\* A reported flip gets no answer, one the user left open a side that follows
\* from its hash.
getLongSubmitAnswer(f) ==
  IF flips[f].relevance = "irrelevant" THEN "none"
  ELSE IF flips[f].answered THEN "chosen" ELSE "fallback"

\* Entering submitLongSession.submitting starts flip_submitLongAnswers. It posts
\* the same answers up to three times, and what it gives up the node may still
\* take, so any attempt may be the one that counts.
Submit(from) ==
  /\ at \in from /\ at' = "submitting"
  /\ sent' = [f \in Flips |-> Grade(f)]
  /\ posted' = posted \cup
       {<<f, getLongSubmitAnswer(f)>> : f \in {g \in Flips : known /\ Grade(g) # "reported"}}
  /\ dead' = dead \ {"submit"}
  /\ UNCHANGED <<fetching, flips, reports, best, accepted, restarts>>

\* Mutant: only the user retries.
NeverRetry    == FALSE

SubmitAnswers == Submit({"flips", "finishFlips", "keywords"})
AutoRetry     == "submit" \notin dead /\ Submit({"fail"})
RetrySubmit   == Submit({"fail"})

Submitting == at = "submitting" /\ "submit" \notin dead

NodeTakesAnswers ==
  /\ Submitting /\ ~accepted
  /\ accepted' = TRUE
  /\ UNCHANGED <<fetching, flips, at, dead, reports, best, sent, posted, restarts>>

\* A transaction hash.
SubmitDone   == Submitting /\ accepted /\ Answering({"submitting"}, "succeeded")
\* The error says that the transaction is known already (isDuplicateSubmitTxError).
\* Whether the node has these answers, or any, is not looked at.
AlreadyKnown == Submitting /\ Answering({"submitting"}, "succeeded")
\* Any other error, a lost answer included.
SubmitFails == Submitting /\ Answering({"submitting"}, "fail")

\* LONG_SESSION_CHECK, 15 seconds before the end.
TooFewAnswers ==
  LET solvable == {f \in Flips : flips[f].decoded}
      answered == {f \in solvable : flips[f].answered}
  IN solvable = {} \/ 2 * Cardinality(answered) < Cardinality(solvable)

LongSessionCheck ==
  /\ Live /\ "check" \in timers
  /\ timers' = timers \ {"check"}
  /\ at' = IF TooFewAnswers THEN "failed" ELSE at
  /\ UNCHANGED <<fetch, queue, stray, dead, known, flips, reports, best, sent, posted,
                 accepted, recovered, refetches, restarts>>

-----------------------------------------------------------------------------
\* Mutant: of a persisted flip only its hash is kept.
UnloadedWhole(flip) ==
  IF flip.decoded THEN [Fresh EXCEPT !.ready = flip.ready] ELSE flip

\* The images of a persisted flip are gone with the window.
Unloaded(flip) ==
  IF flip.decoded
  THEN [flip EXCEPT !.fetched = FALSE, !.decoded = FALSE, !.missing = FALSE]
  ELSE flip

\* loadValidationStateForPeriod: without hashes the state is discarded.
Restart ==
  /\ Live /\ restarts < MaxRestarts
  /\ restarts' = restarts + 1
  /\ flips' = [f \in Flips |-> Unloaded(flips[f])]
  /\ recovered' = FALSE
  /\ queue' = {} /\ stray' = {}
  /\ \/ /\ known
        /\ fetch' = IF Ready(flips) = {} THEN fetch ELSE "hashes"
        /\ dead' = {"fetch", "submit"} /\ timers' = timers \cap {"grace"}
        /\ UNCHANGED <<at, reports, best, sent>>
     \/ /\ ~known
        /\ at' = "welcome" /\ fetch' = "hashes"
        /\ dead' = {} /\ timers' = Timers
        /\ reports' = {} /\ best' = {} /\ sent' = Unsent
  /\ UNCHANGED <<known, posted, accepted, refetches>>

FetchStep ==
  \/ HashesFetched \/ HashesFailed
  \/ \E f \in Flips : FlipArrives(f) \/ StrayArrives(f)
  \/ KeepPolling \/ DetectMissing \/ PollAgain \/ CheckMissing \/ FetchMissing

TimerFires == GraceEnds \/ FinalizeLongFlips \/ FinalizeAllLongFlips \/ LongSessionCheck

UserStep ==
  \/ StartLongSession \/ FinishFlips \/ StartKeywords \/ ResumeFlips
  \/ \E f \in Flips : Answer(f) \/ approveFlip(f) \/ reportFlip(f) \/ Favorite(f)
  \/ SubmitAnswers \/ RetrySubmit

SubmitStep == AutoRetry \/ NodeTakesAnswers \/ SubmitDone \/ AlreadyKnown \/ SubmitFails

Next ==
  \/ FetchStep \/ TimerFires \/ UserStep \/ SubmitStep
  \/ RefetchFlips \/ RecoverDecodeState \/ Restart

Spec == Init /\ [][Next]_vars

-----------------------------------------------------------------------------
TypeOK ==
  /\ at \in {"welcome", "flips", "finishFlips", "keywords", "submitting", "fail",
             "succeeded", "failed"}
  /\ fetch \in {"hashes", "flips", "enqueued", "missing", "backoff", "done"}
  /\ queue \subseteq Flips /\ stray \subseteq Flips
  /\ dead \subseteq {"fetch", "submit"}
  /\ timers \subseteq Timers /\ known \in BOOLEAN
  /\ flips \in [Flips -> Records]
  /\ reports \subseteq Flips /\ best \subseteq Flips
  /\ sent \in [Flips -> Grades] /\ posted \subseteq Flips \X Sides
  /\ accepted \in BOOLEAN /\ recovered \in BOOLEAN
  /\ refetches \in 0..MaxRefetches /\ restarts \in 0..MaxRestarts

\* Whichever attempt the node takes, first or retried, it has for each flip the
\* side the user chose, and the fallback only where none was chosen, unless the
\* attempt reports the flip: refetches and late FLIPs between two attempts change
\* the ratings, restarts drop the images, but no attempt contradicts another.
AttemptsKeepAnswers ==
  \A p \in posted : p[2] = IF flips[p[1]].answered THEN "chosen" ELSE "fallback"

\* A flip that will be sent as approved takes no report slot, and no two flips
\* are sent as the best one, although a refetch resets what was rated.
ApprovedNotReported ==
  /\ \A f \in Flips : flips[f].relevance = "relevant" => f \notin reports
  /\ Cardinality({f \in Flips : Grade(f) = "A"}) <= 1

\* No refetch, timer, late FLIP or restart takes back an answer.
AnswersSurvive ==
  [][\A f \in Flips : flips[f].answered => flips'[f].answered]_vars

\* The answers sent report at most availableReportsNumber flips ("All available
\* reports are used. You can skip this flip or remove Report status from other
\* flips.").
ReportsWithinQuota ==
  Cardinality({f \in Flips : sent[f] = "reported"}) <= Cardinality(Flips) \div 3

\* Timers fire, RPC calls return, the automatic retry is scheduled; a submission
\* that is repeated again and again is answered some time.
Fairness ==
  /\ WF_vars(FetchStep) /\ WF_vars(GraceEnds)
  /\ WF_vars(FinalizeLongFlips) /\ WF_vars(FinalizeAllLongFlips)
  /\ WF_vars(AutoRetry) /\ SF_vars(NodeTakesAnswers) /\ SF_vars(SubmitDone)

FairSpec == Spec /\ Fairness

\* Loading comes to an end although flips stay undecodable or never get ready.
FetchEnds == <>[](Live => fetch = "done")

\* A submission is concluded without another click of the user.
SubmissionConcludes == at = "submitting" ~> ~Live
=============================================================================
