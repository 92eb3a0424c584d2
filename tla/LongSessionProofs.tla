-------------------------- MODULE LongSessionProofs --------------------------
(***************************************************************************)
(* Proofs about LongSession: type correctness, that an approved flip takes *)
(* no report slot, that no answer is taken back, and that all attempts to  *)
(* submit send the same answers.                                           *)
(***************************************************************************)
EXTENDS LongSession, FiniteSetTheorems, TLAPS

-----------------------------------------------------------------------------
(* Facts about the records of the flips.                                    *)

\* A copy of a record with other marks of the loader.
LEMMA RecordUpdates ==
  ASSUME NEW r \in Records, NEW a \in BOOLEAN, NEW b \in BOOLEAN, NEW c \in BOOLEAN
  PROVE  /\ [r EXCEPT !.ready = a] \in Records
         /\ [r EXCEPT !.failed = a] \in Records
         /\ [r EXCEPT !.answered = a] \in Records
         /\ [r EXCEPT !.fetched = a, !.decoded = b] \in Records
         /\ [r EXCEPT !.fetched = a, !.decoded = b, !.missing = c] \in Records
         /\ \A v \in Relevances : [r EXCEPT !.relevance = v] \in Records
BY DEF Records

\* FLIP keeps the answer, the verdict on failure and the readiness, and resets
\* the relevance.
LEMMA ArrivedRecord ==
  ASSUME NEW r \in Records, NEW outcome \in Outcomes
  PROVE  /\ Arrived(r, outcome) \in Records
         /\ Arrived(r, outcome).answered = r.answered
         /\ Arrived(r, outcome).relevance = "abstained"
<1> DEFINE m == [r EXCEPT !.fetched = outcome \in {"image", "garbled"},
                          !.relevance = "abstained"]
<1>1. m \in Records /\ m.answered = r.answered /\ m.relevance = "abstained"
  <2>1. (outcome \in {"image", "garbled"}) \in BOOLEAN /\ "abstained" \in Relevances
    BY DEF Relevances
  <2> QED
    BY <2>1 DEF Records
<1> DEFINE n == [m EXCEPT !.decoded = outcome = "image", !.missing = outcome = "error"]
<1> HIDE DEF m
<1>2. n \in Records /\ n.answered = m.answered /\ n.relevance = m.relevance
  <2>1. (outcome = "image") \in BOOLEAN /\ (outcome = "error") \in BOOLEAN
    OBVIOUS
  <2> QED
    BY <1>1, <2>1 DEF Records
<1>3. Arrived(r, outcome) = m \/ Arrived(r, outcome) = n
  BY DEF Arrived, m
<1> HIDE DEF n
<1> QED
  BY <1>1, <1>2, <1>3

\* What a restart keeps of a record.
LEMMA UnloadedRecord ==
  ASSUME NEW r \in Records
  PROVE  /\ Unloaded(r) \in Records
         /\ Unloaded(r).answered = r.answered
         /\ Unloaded(r).relevance = r.relevance
BY DEF Unloaded, Records

-----------------------------------------------------------------------------
(* What a step does to the flips: it keeps the answers, and only the user's *)
(* approval makes a flip relevant.                                          *)

SameRatings(f) ==
  /\ flips'[f].answered = flips[f].answered
  /\ flips'[f].relevance \in {flips[f].relevance, "abstained"}

\* Every flip keeps its answer and its relevance, or loses the latter.
FlipsLoaded == flips' \in [Flips -> Records] /\ \A f \in Flips : SameRatings(f)

\* The user answers or rates flip f.
FlipTouched(f) ==
  /\ flips' \in [Flips -> Records]
  /\ flips[f].answered => flips'[f].answered
  /\ \A g \in Flips \ {f} : flips'[g] = flips[g]

\* The steps of the loader, the timers and the page.
LEMMA FlipsLoadedBySteps ==
  ASSUME flips \in [Flips -> Records], FetchStep \/ GraceEnds \/ FinalizeLongFlips
           \/ FinalizeAllLongFlips \/ LongSessionCheck \/ Refetch
  PROVE  FlipsLoaded
<1>1. CASE UNCHANGED flips
  BY <1>1 DEF FlipsLoaded, SameRatings
<1>2. ASSUME NEW m \in [Flips -> BOOLEAN],
             \/ flips' = [f \in Flips |-> [flips[f] EXCEPT !.ready = m[f]]]
             \/ flips' = [f \in Flips |-> [flips[f] EXCEPT !.failed = m[f]]]
      PROVE  FlipsLoaded
  BY <1>2 DEF FlipsLoaded, SameRatings, Records
<1>3. CASE HashesFetched
  <2>1. PICK late \in SUBSET Late :
          flips' = [f \in Flips |->
                     [flips[f] EXCEPT !.ready = @ \/ f \notin Late \/ f \in late]]
    BY <1>3 DEF HashesFetched
  <2> DEFINE m == [f \in Flips |-> (flips[f].ready \/ f \notin Late \/ f \in late) = TRUE]
  <2>2. m \in [Flips -> BOOLEAN]
    OBVIOUS
  <2>3. \A f \in Flips : m[f] = (flips[f].ready \/ f \notin Late \/ f \in late)
    BY DEF Records
  <2>4. flips' = [f \in Flips |-> [flips[f] EXCEPT !.ready = m[f]]]
    BY <2>1, <2>3
  <2> HIDE DEF m
  <2> QED
    BY <1>2, <2>2, <2>4
<1>4. ASSUME NEW f \in Flips, FlipArrives(f) \/ StrayArrives(f) PROVE FlipsLoaded
  <2>1. PICK outcome \in Outcomes : flips' = [flips EXCEPT ![f] = Arrived(@, outcome)]
    BY <1>4 DEF FlipArrives, StrayArrives
  <2>2. flips[f] \in Records
    OBVIOUS
  <2> QED
    BY <2>1, <2>2, ArrivedRecord DEF FlipsLoaded, SameRatings
<1>5. ASSUME NEW timer, NEW given, Finalize(timer, given) PROVE FlipsLoaded
  <2> DEFINE m == [f \in Flips |-> (flips[f].failed \/ (known /\ f \in given)) = TRUE]
  <2>1. m \in [Flips -> BOOLEAN]
    OBVIOUS
  <2>2. \A f \in Flips : m[f] = (flips[f].failed \/ (known /\ f \in given))
    BY DEF Records
  <2>3. flips' = [f \in Flips |-> [flips[f] EXCEPT !.failed = m[f]]]
    BY <1>5, <2>2 DEF Finalize
  <2> HIDE DEF m
  <2> QED
    BY <1>2, <2>1, <2>3
<1>6. CASE Refetch
  BY <1>6 DEF Refetch, FlipsLoaded, SameRatings, Records
<1> QED
  BY <1>1, <1>3, <1>4, <1>5, <1>6
  DEF FetchStep, HashesFailed, KeepPolling, DetectMissing, PollAgain, CheckMissing,
      FetchMissing, Quiet, GraceEnds, FinalizeLongFlips, FinalizeAllLongFlips,
      LongSessionCheck

\* The steps of the user that change a flip.
LEMMA FlipTouchedByUser ==
  ASSUME flips \in [Flips -> Records], NEW f \in Flips,
         Answer(f) \/ approveFlip(f) \/ reportFlip(f)
  PROVE  FlipTouched(f)
<1>1. CASE Answer(f)
  BY <1>1 DEF Answer, FlipTouched, Records
<1>2. ASSUME NEW v \in Relevances, flips' = [flips EXCEPT ![f].relevance = v]
      PROVE  FlipTouched(f)
  BY <1>2 DEF FlipTouched, Records
<1>3. ASSUME NEW r \in {"relevant", "irrelevant"}, Mark(f, r) PROVE FlipTouched(f)
  BY <1>2, <1>3 DEF Mark, Relevances
<1> QED
  BY <1>1, <1>2, <1>3 DEF approveFlip, reportFlip, Relevances

-----------------------------------------------------------------------------
(* Type correctness.                                                        *)

\* The types hold when the long session begins.
LEMMA TypeInit == Init => TypeOK
<1> SUFFICES ASSUME Init PROVE TypeOK
  OBVIOUS
<1>1. Fresh \in Records
  BY DEF Fresh, Records, Relevances
<1>2. flips \in [Flips -> Records]
  BY <1>1 DEF Init
<1>3. sent \in [Flips -> Grades]
  BY DEF Init, Unsent, Grades
<1>4. refetches \in 0..MaxRefetches /\ restarts \in 0..MaxRestarts
  BY LongSessionAssumption DEF Init
<1> QED
  BY <1>2, <1>3, <1>4 DEF Init, TypeOK

\* Every step keeps the types.
LEMMA TypeStep == TypeOK /\ [Next]_vars => TypeOK'
<1> SUFFICES ASSUME TypeOK, [Next]_vars PROVE TypeOK'
  OBVIOUS
<1>0. flips \in [Flips -> Records]
  BY DEF TypeOK
<1>1. \A fs : NotFetched(fs) \subseteq Flips /\ PendingDecode(fs) \subseteq Flips
              /\ Ready(fs) \subseteq Flips
  BY DEF NotFetched, PendingDecode, Ready
<1>2. CASE FetchStep
  <2>1. flips' \in [Flips -> Records]
    BY <1>0, <1>2, FlipsLoadedBySteps DEF FlipsLoaded
  <2>2. fetch' \in {"hashes", "flips", "enqueued", "missing", "backoff", "done"}
    BY <1>2 DEF FetchStep, TypeOK, HashesFetched, HashesFailed, FlipArrives, StrayArrives,
       KeepPolling, DetectMissing, PollAgain, CheckMissing, FetchMissing, Fetch
  <2>3. queue' \subseteq Flips /\ stray' \subseteq Flips
    BY <1>1, <1>2 DEF FetchStep, TypeOK, HashesFetched, HashesFailed, FlipArrives,
       StrayArrives, KeepPolling, DetectMissing, PollAgain, CheckMissing, FetchMissing, Fetch
  <2>4. known' \in BOOLEAN
        /\ UNCHANGED <<at, dead, timers, reports, best, sent, posted, accepted, recovered,
                       refetches, restarts>>
    BY <1>2 DEF FetchStep, TypeOK, HashesFetched, HashesFailed, FlipArrives, StrayArrives,
       KeepPolling, DetectMissing, PollAgain, CheckMissing, FetchMissing, Quiet, answering
  <2> QED
    BY <2>1, <2>2, <2>3, <2>4 DEF TypeOK
<1>3. CASE TimerFires
  <2>1. flips' \in [Flips -> Records]
    BY <1>0, <1>3, FlipsLoadedBySteps DEF FlipsLoaded, TimerFires
  <2>2. /\ fetch' \in {fetch, "done"} /\ queue' \subseteq queue
        /\ stray' \subseteq stray \cup queue /\ timers' \subseteq timers
        /\ at' \in {at, "failed"}
        /\ UNCHANGED <<dead, known, reports, best, sent, posted, accepted, recovered,
                       refetches, restarts>>
    BY <1>3 DEF TimerFires, GraceEnds, FinalizeLongFlips, FinalizeAllLongFlips, Finalize,
       LongSessionCheck, Fetch, answering
  <2> QED
    BY <2>1, <2>2 DEF TypeOK
<1>4. CASE Refetch /\ recovered' \in BOOLEAN /\ refetches' \in 0..MaxRefetches
  <2>1. flips' \in [Flips -> Records]
    BY <1>0, <1>4, FlipsLoadedBySteps DEF FlipsLoaded
  <2>2. /\ fetch' = "flips" /\ queue' \subseteq Flips
        /\ stray' \subseteq stray \cup queue /\ dead' \subseteq dead
        /\ UNCHANGED <<at, timers, known, reports, best, sent, posted, accepted, restarts>>
    BY <1>1, <1>4 DEF Refetch, Fetch
  <2> QED
    BY <1>4, <2>1, <2>2 DEF TypeOK
<1>5. CASE RefetchFlips \/ RecoverDecodeState
  <2>1. MaxRefetches \in Nat /\ refetches \in 0..MaxRefetches /\ recovered \in BOOLEAN
    BY LongSessionAssumption DEF TypeOK
  <2>2. Refetch
    BY <1>5 DEF RefetchFlips, RecoverDecodeState
  <2>3. recovered' \in {recovered, TRUE}
    BY <1>5 DEF RefetchFlips, RecoverDecodeState
  <2>4. refetches' = refetches \/ (refetches < MaxRefetches /\ refetches' = refetches + 1)
    BY <1>5 DEF RefetchFlips, RecoverDecodeState
  <2>5. refetches' \in 0..MaxRefetches
    BY <2>1, <2>4
  <2> QED
    BY <1>4, <2>1, <2>2, <2>3, <2>5
<1>6. CASE StartLongSession \/ FinishFlips \/ StartKeywords \/ ResumeFlips
             \/ SubmitDone \/ AlreadyKnown \/ SubmitFails
  BY <1>6 DEF StartLongSession, FinishFlips, StartKeywords, ResumeFlips, SubmitDone,
     AlreadyKnown, SubmitFails, Answering, fetching, TypeOK
<1>7. ASSUME NEW f \in Flips, Answer(f) PROVE TypeOK'
  <2>1. flips' \in [Flips -> Records]
    BY <1>0, <1>7, FlipTouchedByUser DEF FlipTouched
  <2> QED
    BY <1>7, <2>1 DEF Answer, answering, fetching, TypeOK
<1>8. ASSUME NEW f \in Flips, approveFlip(f) \/ reportFlip(f) PROVE TypeOK'
  <2>1. flips' \in [Flips -> Records]
    BY <1>0, <1>8, FlipTouchedByUser DEF FlipTouched
  <2>2. reports' \subseteq Flips /\ best' \subseteq Flips
        /\ UNCHANGED <<fetching, at, dead, sent, posted, accepted, restarts>>
    BY <1>8 DEF approveFlip, reportFlip, Rate, Toggle, TypeOK
  <2> QED
    BY <2>1, <2>2 DEF fetching, TypeOK
<1>9. ASSUME NEW f \in Flips, Favorite(f) PROVE TypeOK'
  BY <1>9 DEF Favorite, Toggle, fetching, TypeOK
<1>10. ASSUME NEW from, Submit(from) PROVE TypeOK'
  <2>1. sent' \in [Flips -> Grades]
    BY <1>10 DEF Submit, Grade, Grades
  <2>2. posted' \subseteq Flips \X Sides
    <3>1. \A f \in Flips : Grade(f) # "reported" => getLongSubmitAnswer(f) \in Sides
      BY DEF Grade, getLongSubmitAnswer, Sides
    <3> QED
      BY <1>10, <3>1 DEF Submit, TypeOK
  <2> QED
    BY <1>10, <2>1, <2>2 DEF Submit, fetching, TypeOK
<1>11. CASE NodeTakesAnswers
  BY <1>11 DEF NodeTakesAnswers, fetching, TypeOK
<1>12. CASE Restart
  <2>1. flips' \in [Flips -> Records]
    BY <1>0, <1>12, UnloadedRecord DEF Restart
  <2>2. sent' \in [Flips -> Grades]
    BY <1>12 DEF Restart, Unsent, Grades, TypeOK
  <2>3. /\ at' \in {at, "welcome"} /\ fetch' \in {fetch, "hashes"}
        /\ queue' = {} /\ stray' = {} /\ dead' \subseteq {"fetch", "submit"}
        /\ timers' \subseteq Timers /\ reports' \subseteq reports /\ best' \subseteq best
        /\ recovered' = FALSE
        /\ UNCHANGED <<known, posted, accepted, refetches>>
    BY <1>12 DEF Restart, TypeOK
  <2>4. restarts' \in 0..MaxRestarts
    BY <1>12, LongSessionAssumption DEF Restart, TypeOK
  <2> QED
    BY <2>1, <2>2, <2>3, <2>4 DEF TypeOK
<1>13. CASE UNCHANGED vars
  BY <1>13 DEF vars, TypeOK
<1> QED
  BY <1>2, <1>3, <1>5, <1>6, <1>7, <1>8, <1>9, <1>10, <1>11, <1>12, <1>13
  DEF Next, UserStep, SubmitStep, SubmitAnswers, RetrySubmit, AutoRetry

\* Every reachable state of the long session is well typed, for any number of
\* flips, refetches and restarts.
THEOREM TypesKept == Spec => []TypeOK
BY TypeInit, TypeStep, PTL DEF Spec

-----------------------------------------------------------------------------
(* Reports and the best flip.                                               *)

RelevantNotReported == \A f \in Flips : flips[f].relevance = "relevant" => f \notin reports

OneBest == \A f, g \in best : f = g

RatingInv == TypeOK /\ RelevantNotReported /\ OneBest

\* A rating of one flip that does not leave it both relevant and reported.
LEMMA RatingKept ==
  ASSUME RatingInv, NEW f \in Flips, FlipTouched(f),
         reports' \ {f} \subseteq reports,
         flips'[f].relevance = "relevant" => f \notin reports',
         best' \subseteq best
  PROVE  RelevantNotReported' /\ OneBest'
<1>1. \A g \in Flips \ {f} : flips'[g].relevance = "relevant" => g \notin reports'
  BY DEF RatingInv, RelevantNotReported, FlipTouched
<1> QED
  BY <1>1 DEF RatingInv, RelevantNotReported, OneBest

\* Every step keeps the reports apart from the approvals.
LEMMA RatingStep == RatingInv /\ [Next]_vars => RatingInv'
<1> SUFFICES ASSUME RatingInv, [Next]_vars PROVE RatingInv'
  OBVIOUS
<1>0. TypeOK /\ TypeOK' /\ flips \in [Flips -> Records]
  BY TypeStep DEF RatingInv, TypeOK
<1> SUFFICES RelevantNotReported' /\ OneBest'
  BY <1>0 DEF RatingInv
<1>1. ASSUME FlipsLoaded, UNCHANGED <<reports, best>>
      PROVE  RelevantNotReported' /\ OneBest'
  BY <1>1 DEF RatingInv, FlipsLoaded, SameRatings, RelevantNotReported, OneBest
<1>2. CASE FetchStep \/ TimerFires \/ RefetchFlips \/ RecoverDecodeState
  <2>1. FlipsLoaded
    BY <1>0, <1>2, FlipsLoadedBySteps DEF TimerFires, RefetchFlips, RecoverDecodeState
  <2>2. UNCHANGED <<reports, best>>
    BY <1>2 DEF FetchStep, HashesFetched, HashesFailed, FlipArrives, StrayArrives,
     KeepPolling, DetectMissing, PollAgain, CheckMissing, FetchMissing, Quiet,
     TimerFires, GraceEnds, FinalizeLongFlips, FinalizeAllLongFlips, Finalize,
     LongSessionCheck, RefetchFlips, RecoverDecodeState, Refetch, answering
  <2> QED
    BY <1>1, <2>1, <2>2
<1>3. ASSUME NEW f \in Flips, Answer(f) PROVE RelevantNotReported' /\ OneBest'
  <2>1. FlipTouched(f) /\ UNCHANGED <<reports, best>>
    BY <1>0, <1>3, FlipTouchedByUser DEF Answer, answering
  <2>2. flips'[f].relevance = flips[f].relevance
    BY <1>0, <1>3 DEF Answer, Records
  <2> QED
    BY <2>1, <2>2, RatingKept DEF RatingInv, RelevantNotReported
<1>4. ASSUME NEW f \in Flips, approveFlip(f) PROVE RelevantNotReported' /\ OneBest'
  <2>1. FlipTouched(f)
    BY <1>0, <1>4, FlipTouchedByUser
  <2>2. reports' = reports \ {f} /\ best' \subseteq best
    BY <1>4 DEF approveFlip, Rate
  <2> QED
    BY <2>1, <2>2, RatingKept
<1>5. ASSUME NEW f \in Flips, reportFlip(f) PROVE RelevantNotReported' /\ OneBest'
  <2>1. FlipTouched(f)
    BY <1>0, <1>5, FlipTouchedByUser
  <2>2. reports' \ {f} \subseteq reports /\ best' \subseteq best
    BY <1>5 DEF reportFlip, Rate, Toggle
  <2>3. flips'[f].relevance # "relevant"
    BY <1>0, <1>5 DEF reportFlip, Mark, Records
  <2> QED
    BY <2>1, <2>2, <2>3, RatingKept
<1>6. ASSUME NEW f \in Flips, Favorite(f) PROVE RelevantNotReported' /\ OneBest'
  BY <1>6 DEF Favorite, Toggle, RatingInv, RelevantNotReported, OneBest
<1>7. CASE UNCHANGED <<flips, reports, best>>
  BY <1>7 DEF RatingInv, RelevantNotReported, OneBest
<1>8. CASE Restart
  <2>1. FlipsLoaded /\ reports' \subseteq reports /\ best' \subseteq best
    BY <1>0, <1>8, UnloadedRecord DEF Restart, FlipsLoaded, SameRatings
  <2> QED
    BY <2>1 DEF RatingInv, FlipsLoaded, SameRatings, RelevantNotReported, OneBest
<1>9. ASSUME NEW from, Submit(from) PROVE UNCHANGED <<flips, reports, best>>
  BY <1>9 DEF Submit
<1>10. CASE UNCHANGED vars
  BY <1>7, <1>10 DEF vars
<1> QED
  BY <1>2, <1>3, <1>4, <1>5, <1>6, <1>7, <1>8, <1>9, <1>10
  DEF Next, UserStep, SubmitStep, StartLongSession, FinishFlips, StartKeywords,
      ResumeFlips, SubmitAnswers, RetrySubmit, AutoRetry, NodeTakesAnswers, SubmitDone,
      AlreadyKnown, SubmitFails, Answering

\* Flips graded as the best one are among the stars, of which there is one.
LEMMA RatingsApart == RatingInv => ApprovedNotReported
<1> SUFFICES ASSUME RatingInv PROVE ApprovedNotReported
  OBVIOUS
<1> DEFINE A == {f \in Flips : Grade(f) = "A"}
<1>1. A \subseteq best
  BY DEF Grade
<1>2. \A f, g \in A : f = g
  BY <1>1 DEF RatingInv, OneBest
<1>3. Cardinality(A) <= 1
  <2>1. CASE A = {}
    BY <2>1, FS_EmptySet
  <2>2. CASE A # {}
    <3>1. PICK f : f \in A
      BY <2>2
    <3>2. A = {f}
      BY <1>2, <3>1
    <3> HIDE DEF A
    <3> QED
      BY <3>2, FS_Singleton
  <2> QED
    BY <2>1, <2>2
<1> QED
  BY <1>3 DEF RatingInv, RelevantNotReported, ApprovedNotReported

\* A flip that will be sent as approved takes no report slot and at most one is
\* sent as the best, however often flips are rated, refetched and restored.
THEOREM ApprovedFlipsNotReported == Spec => []ApprovedNotReported
<1>1. Init => RatingInv
  BY TypeInit DEF Init, RatingInv, RelevantNotReported, OneBest
<1> QED
  BY <1>1, RatingStep, RatingsApart, PTL DEF Spec

-----------------------------------------------------------------------------
(* Answers.                                                                 *)

AnswersKept == \A f \in Flips : flips[f].answered => flips'[f].answered

\* No step takes back an answer.
LEMMA AnswersStep == TypeOK /\ [Next]_vars => AnswersKept
<1> SUFFICES ASSUME TypeOK, [Next]_vars PROVE AnswersKept
  OBVIOUS
<1>0. flips \in [Flips -> Records]
  BY DEF TypeOK
<1>1. CASE FetchStep \/ TimerFires \/ RefetchFlips \/ RecoverDecodeState
  BY <1>0, <1>1, FlipsLoadedBySteps
  DEF TimerFires, RefetchFlips, RecoverDecodeState, FlipsLoaded, SameRatings, AnswersKept
<1>2. ASSUME NEW f \in Flips, Answer(f) \/ approveFlip(f) \/ reportFlip(f)
      PROVE  AnswersKept
  BY <1>0, <1>2, FlipTouchedByUser DEF FlipTouched, AnswersKept
<1>3. CASE UNCHANGED flips
  BY <1>3 DEF AnswersKept
<1>4. CASE Restart
  BY <1>0, <1>4, UnloadedRecord DEF Restart, AnswersKept
<1> QED
  BY <1>1, <1>2, <1>3, <1>4
  DEF Next, vars, UserStep, SubmitStep, StartLongSession, FinishFlips, StartKeywords,
      ResumeFlips, Favorite, SubmitAnswers, RetrySubmit, AutoRetry, Submit,
      NodeTakesAnswers, SubmitDone, AlreadyKnown, SubmitFails, Answering

\* No refetch, timer, late FLIP or restart takes back an answer.
THEOREM AnswersNeverLost == Spec => AnswersSurvive
<1>1. TypeOK /\ [Next]_vars
        => [\A f \in Flips : flips[f].answered => flips'[f].answered]_vars
  BY AnswersStep DEF AnswersKept
<1> QED
  BY <1>1, TypeInit, TypeStep, PTL DEF Spec, AnswersSurvive
-----------------------------------------------------------------------------
(* Attempts to submit.                                                      *)

\* Once something has been posted the user answers no more: the machine never
\* returns to a state that takes answers, unless it is restarted without hashes,
\* and without hashes nothing is posted.
PostedLate ==
  posted # {} => known /\ at \in {"submitting", "fail", "succeeded", "failed"}

AttemptInv == TypeOK /\ PostedLate /\ AttemptsKeepAnswers

\* A step that posts nothing and changes no answer.
LEMMA AttemptsUntouched ==
  ASSUME AttemptInv, UNCHANGED posted,
         posted # {} => /\ \A f \in Flips : flips'[f].answered = flips[f].answered
                        /\ known' /\ at' \in {"submitting", "fail", "succeeded", "failed"}
  PROVE  PostedLate' /\ AttemptsKeepAnswers'
<1>1. \A p \in posted : p[1] \in Flips
  BY DEF AttemptInv, TypeOK
<1>2. PostedLate'
  BY DEF PostedLate
<1>3. AttemptsKeepAnswers'
  BY <1>1 DEF AttemptInv, AttemptsKeepAnswers
<1> QED
  BY <1>2, <1>3

\* Every step keeps the answers of the attempts.
LEMMA AttemptStep == AttemptInv /\ [Next]_vars => AttemptInv'
<1> SUFFICES ASSUME AttemptInv, [Next]_vars PROVE AttemptInv'
  OBVIOUS
<1>0. TypeOK /\ TypeOK' /\ flips \in [Flips -> Records]
  BY TypeStep DEF AttemptInv, TypeOK
<1> SUFFICES PostedLate' /\ AttemptsKeepAnswers'
  BY <1>0 DEF AttemptInv
<1>1. posted # {} => known /\ at \in {"submitting", "fail", "succeeded", "failed"}
  BY DEF AttemptInv, PostedLate
<1>2. CASE FetchStep \/ TimerFires \/ RefetchFlips \/ RecoverDecodeState
  <2>1. \A f \in Flips : flips'[f].answered = flips[f].answered
    BY <1>0, <1>2, FlipsLoadedBySteps
    DEF TimerFires, RefetchFlips, RecoverDecodeState, FlipsLoaded, SameRatings
  <2>2. posted' = posted /\ known' \in {known, TRUE} /\ at' \in {at, "failed"}
    BY <1>2 DEF FetchStep, HashesFetched, HashesFailed, FlipArrives, StrayArrives,
     KeepPolling, DetectMissing, PollAgain, CheckMissing, FetchMissing, Quiet,
     TimerFires, GraceEnds, FinalizeLongFlips, FinalizeAllLongFlips, Finalize,
     LongSessionCheck, RefetchFlips, RecoverDecodeState, Refetch, answering
  <2>3. known => known'
    BY <2>2
  <2>4. posted # {} => known' /\ at' \in {"submitting", "fail", "succeeded", "failed"}
    BY <1>1, <2>2, <2>3
  <2> QED
    BY <2>1, <2>2, <2>4, AttemptsUntouched
<1>3. ASSUME NEW f \in Flips, Answer(f) PROVE PostedLate' /\ AttemptsKeepAnswers'
  <2>1. at \in {"flips", "keywords"} /\ posted' = posted
    BY <1>3 DEF Answer, answering
  <2>2. posted = {}
    BY <1>1, <2>1
  <2> QED
    BY <2>1, <2>2, AttemptsUntouched
<1>4. ASSUME NEW f \in Flips, approveFlip(f) \/ reportFlip(f) \/ Favorite(f)
      PROVE  PostedLate' /\ AttemptsKeepAnswers'
  <2>1. at = "keywords" /\ posted' = posted
    BY <1>4 DEF approveFlip, reportFlip, Favorite, Rate
  <2>2. posted = {}
    BY <1>1, <2>1
  <2> QED
    BY <2>1, <2>2, AttemptsUntouched
<1>5. CASE StartLongSession \/ FinishFlips \/ StartKeywords \/ ResumeFlips
  <2>1. at \notin {"submitting", "fail", "succeeded", "failed"} /\ posted' = posted
    BY <1>5 DEF StartLongSession, FinishFlips, StartKeywords, ResumeFlips, Answering
  <2>2. posted = {}
    BY <1>1, <2>1
  <2> QED
    BY <2>1, <2>2, AttemptsUntouched
<1>6. CASE NodeTakesAnswers \/ SubmitDone \/ AlreadyKnown \/ SubmitFails
  <2>1. UNCHANGED <<posted, flips, known>> /\ at' \in {at, "succeeded", "fail"}
    BY <1>6 DEF NodeTakesAnswers, SubmitDone, AlreadyKnown, SubmitFails, Answering, fetching
  <2> QED
    BY <1>1, <2>1, AttemptsUntouched
<1>7. ASSUME NEW from, Submit(from) PROVE PostedLate' /\ AttemptsKeepAnswers'
  <2>1. UNCHANGED <<flips, known>> /\ at' = "submitting"
    BY <1>7 DEF Submit, fetching
  <2>2. PostedLate'
    <3>1. posted' # {} => posted # {} \/ known
      BY <1>7 DEF Submit
    <3> QED
      BY <1>1, <2>1, <3>1 DEF PostedLate
  <2>3. ASSUME NEW p \in posted'
        PROVE  p[2] = IF flips[p[1]].answered THEN "chosen" ELSE "fallback"
    <3>1. CASE p \in posted
      BY <3>1 DEF AttemptInv, AttemptsKeepAnswers
    <3>2. CASE p \notin posted
      <4>1. PICK f \in Flips : Grade(f) # "reported" /\ p = <<f, getLongSubmitAnswer(f)>>
        BY <1>7, <3>2 DEF Submit
      <4>2. flips[f].relevance # "irrelevant"
        BY <4>1 DEF Grade
      <4> QED
        BY <4>1, <4>2 DEF getLongSubmitAnswer
    <3> QED
      BY <3>1, <3>2
  <2> QED
    BY <2>1, <2>2, <2>3 DEF AttemptsKeepAnswers
<1>8. CASE Restart
  <2>1. \A f \in Flips : flips'[f].answered = flips[f].answered
    BY <1>0, <1>8, UnloadedRecord DEF Restart
  <2>2. UNCHANGED <<posted, known>> /\ (known => at' = at)
    BY <1>8 DEF Restart
  <2> QED
    BY <1>1, <2>1, <2>2, AttemptsUntouched
<1>9. CASE UNCHANGED vars
  <2>1. UNCHANGED <<posted, flips, known, at>>
    BY <1>9 DEF vars
  <2> QED
    BY <1>1, <2>1, AttemptsUntouched
<1> QED
  BY <1>2, <1>3, <1>4, <1>5, <1>6, <1>7, <1>8, <1>9
  DEF Next, UserStep, SubmitStep, SubmitAnswers, RetrySubmit, AutoRetry

\* Whichever attempt the node takes, it has the sides the user chose and the
\* fallback for the others, reported flips apart.
THEOREM AttemptsAgree == Spec => []AttemptsKeepAnswers
<1>1. Init => AttemptInv
  BY TypeInit DEF Init, AttemptInv, PostedLate, AttemptsKeepAnswers
<1>2. AttemptInv => AttemptsKeepAnswers
  BY DEF AttemptInv
<1> QED
  BY <1>1, <1>2, AttemptStep, PTL DEF Spec
=============================================================================
