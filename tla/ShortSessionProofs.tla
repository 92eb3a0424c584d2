-------------------------- MODULE ShortSessionProofs --------------------------
(***************************************************************************)
(* Proofs about ShortSession: type correctness, that as many flips stay    *)
(* regular as the node assigned and a shown flip stays one, that what was  *)
(* chosen is what is sent, and that only a lack of answers ends a session. *)
(***************************************************************************)
EXTENDS ShortSession, FiniteSetTheorems, TLAPS

-----------------------------------------------------------------------------
(* What holds of the records besides their types.                           *)

\* A flip that was never swapped is extra or not as the node said.
SwapMarked == \A f \in Flips : ~flips[f].flipped => (flips[f].extra <=> f \in Extra)

\* Only flips the node has ready are asked for and decoded, and only when the
\* hashes are known.
LoadedReady ==
  /\ \A f \in Flips : flips[f].decoded => flips[f].ready
  /\ \A f \in queue \cup stray : flips[f].ready
  /\ \A f \in Flips : flips[f].ready => known

\* An answer stays in the record of its flip.
GivenKept == \A f \in Flips : given[f] # "none" => flips[f].option = given[f]

\* The node takes answers only in the states of the submission.
AcceptedInTime ==
  /\ at = "normal" => ~accepted
  /\ at \in {"submitting", "fail", "submitted"} => known
  /\ accepted => known \/ at = "long"

\* What a merge may do to the record of a flip.
Merged(f) ==
  /\ flips'[f].extra = flips[f].extra /\ flips'[f].flipped = flips[f].flipped
  /\ flips'[f].option = flips[f].option
  /\ flips[f].ready => flips'[f].ready
  /\ flips'[f].decoded => flips'[f].ready
  /\ flips'[f].ready => flips[f].ready \/ known'

FlipsMerged == flips' \in [Flips -> Records] /\ \A f \in Flips : Merged(f)

\* Copies of a record.
LEMMA RecordUpdates ==
  ASSUME NEW r \in Records, NEW a \in BOOLEAN, NEW b \in BOOLEAN, NEW o \in Options
  PROVE  /\ [r EXCEPT !.ready = a, !.extra = b] \in Records
         /\ [r EXCEPT !.fetched = a] \in Records
         /\ [r EXCEPT !.failed = a] \in Records
         /\ [r EXCEPT !.fetched = a, !.decoded = b] \in Records
         /\ [r EXCEPT !.extra = a, !.flipped = b] \in Records
         /\ [r EXCEPT !.option = o] \in Records
BY DEF Records

\* The first record of a flip.
LEMMA FreshRecord ==
  /\ Fresh \in [Flips -> Records] /\ NoAnswers \in [Flips -> Options]
  /\ \A f \in Flips : /\ ~Fresh[f].ready /\ ~Fresh[f].flipped /\ ~Fresh[f].decoded
                      /\ Fresh[f].extra = (f \in Extra)
                      /\ Fresh[f].option = "none" /\ NoAnswers[f] = "none"
BY DEF Fresh, NoAnswers, Records, Options

\* FLIP keeps the role, the option and the readiness of a flip.
LEMMA ArrivedRecord ==
  ASSUME NEW r \in Records, NEW outcome
  PROVE  /\ Arrived(r, outcome) \in Records
         /\ Arrived(r, outcome).extra = r.extra /\ Arrived(r, outcome).flipped = r.flipped
         /\ Arrived(r, outcome).option = r.option /\ Arrived(r, outcome).ready = r.ready
<1>1. (outcome # "error") \in BOOLEAN /\ (outcome = "image") \in BOOLEAN
  OBVIOUS
<1> QED
  BY <1>1 DEF Arrived, Records

\* An answer of flip_shortHashes, which is always at least as ready as before.
LEMMA PolledRecord ==
  ASSUME NEW f \in Flips, NEW r \in Records, NEW ready \in BOOLEAN,
         ~r.flipped => (r.extra <=> f \in Extra), r.ready => ready
  PROVE  /\ Polled(r, f, ready) \in Records
         /\ Polled(r, f, ready).extra = r.extra /\ Polled(r, f, ready).flipped = r.flipped
         /\ Polled(r, f, ready).option = r.option
         /\ Polled(r, f, ready).decoded = r.decoded
         /\ r.ready => Polled(r, f, ready).ready
<1>1. CASE r.flipped
  BY <1>1 DEF Polled
<1>2. CASE ~r.flipped
  <2>1. r.extra = (f \in Extra) /\ (f \in Extra) \in BOOLEAN
    BY <1>2 DEF Records
  <2> QED
    BY <1>2, <2>1 DEF Polled, Records
<1> QED
  BY <1>1, <1>2

\* A restart and REFETCH_FLIPS only take the image away.
LEMMA UnloadedRecord ==
  ASSUME NEW r \in Records
  PROVE  /\ Unloaded(r) \in Records /\ ~Unloaded(r).decoded
         /\ Unloaded(r).extra = r.extra /\ Unloaded(r).flipped = r.flipped
         /\ Unloaded(r).option = r.option /\ Unloaded(r).ready = r.ready
BY DEF Unloaded, Records

\* The loader, FINALIZE_FLIPS, REFETCH_FLIPS and a restored state merge.
LEMMA MergedBySteps ==
  ASSUME TypeOK, SwapMarked, LoadedReady,
         FetchStep \/ FinalizeFlips \/ Refetch \/ (Restart /\ Restored)
  PROVE  FlipsMerged
<1>0. flips \in [Flips -> Records]
  BY DEF TypeOK
<1>1. CASE UNCHANGED flips
  BY <1>0, <1>1 DEF FlipsMerged, Merged, LoadedReady
<1>2. CASE HashesFetched
  <2>1. PICK late \in SUBSET Late :
          flips' = [f \in Flips |->
                     Polled(flips[f], f, flips[f].ready \/ f \notin Late \/ f \in late)]
    BY <1>2 DEF HashesFetched
  <2>2. ASSUME NEW f \in Flips PROVE flips'[f] \in Records /\ Merged(f)
    <3> DEFINE ready == (flips[f].ready \/ f \notin Late \/ f \in late)
    <3>1. flips[f] \in Records /\ ready \in BOOLEAN
      BY <1>0 DEF Records
    <3>2. flips'[f] = Polled(flips[f], f, ready)
      BY <2>1
    <3>3. ~flips[f].flipped => (flips[f].extra <=> f \in Extra)
      BY DEF SwapMarked
    <3>4. flips[f].ready => ready
      OBVIOUS
    <3>5. flips[f].decoded => flips[f].ready
      BY DEF LoadedReady
    <3> HIDE DEF ready
    <3>6. known'
      BY <1>2 DEF HashesFetched
    <3> QED
      BY <3>1, <3>2, <3>3, <3>4, <3>5, <3>6, PolledRecord DEF Merged
  <2> QED
    BY <2>1, <2>2 DEF FlipsMerged
<1>3. ASSUME NEW f \in Flips, NEW outcome, f \in queue \cup stray,
             flips' = [flips EXCEPT ![f] = Arrived(@, outcome)]
      PROVE  FlipsMerged
  <2>1. flips[f].ready /\ flips[f] \in Records
    BY <1>0, <1>3 DEF LoadedReady
  <2>2. flips'[f] = Arrived(flips[f], outcome)
        /\ \A g \in Flips \ {f} : flips'[g] = flips[g]
    BY <1>0, <1>3
  <2>3. flips' \in [Flips -> Records]
    BY <1>0, <1>3, <2>1, ArrivedRecord
  <2> QED
    BY <2>1, <2>2, <2>3, ArrivedRecord DEF FlipsMerged, Merged, LoadedReady
<1>4. ASSUME NEW f \in Flips, FlipArrives(f) \/ StrayArrives(f) PROVE FlipsMerged
  BY <1>1, <1>3, <1>4 DEF FlipArrives, StrayArrives
<1>5. CASE FinalizeFlips
  <2>1. flips' = [f \in Flips |->
                   [flips[f] EXCEPT !.failed = @ \/ (known /\ f \in FailedFlips)]]
    BY <1>5 DEF FinalizeFlips, MarkFailed
  <2>2. ASSUME NEW f \in Flips PROVE flips'[f] \in Records /\ Merged(f)
    <3> DEFINE failed == (flips[f].failed \/ (known /\ f \in FailedFlips))
    <3>1. flips[f] \in Records /\ failed \in BOOLEAN
      BY <1>0 DEF Records, TypeOK
    <3>2. flips'[f] = [flips[f] EXCEPT !.failed = failed]
      BY <2>1
    <3> HIDE DEF failed
    <3> QED
      BY <3>1, <3>2 DEF Merged, Records, LoadedReady
  <2> QED
    BY <2>1, <2>2 DEF FlipsMerged
<1>6. CASE Refetch
  BY <1>0, <1>6 DEF Refetch, FlipsMerged, Merged, Records
<1>7. CASE Restart /\ Restored
  BY <1>0, <1>7, UnloadedRecord DEF Restored, FlipsMerged, Merged
<1> QED
  BY <1>1, <1>2, <1>4, <1>5, <1>6, <1>7
  DEF FetchStep, HashesFailed, FlipsFetched, CheckHashes, CheckFlips, Quiet

\* A swap only changes roles.
Swapped(out, taken) ==
  /\ out \subseteq FailedFlips /\ taken \subseteq AvailableExtras
  /\ Cardinality(out) = Cardinality(taken)
  /\ flips' = [f \in Flips |-> IF f \in out \cup taken THEN Swap(flips[f]) ELSE flips[f]]

\* BUMP_EXTRA_FLIPS swaps as many flips out as in, or none.
LEMMA BumpSwaps ==
  ASSUME BumpExtraFlips
  PROVE  UNCHANGED flips \/ \E out, taken \in SUBSET Flips : Swapped(out, taken)
<1>1. CASE \E pulled \in Pulled :
             flips' = [f \in Flips |-> IF f \in pulled THEN Swap(flips[f]) ELSE flips[f]]
  <2>1. PICK pulled \in Pulled :
          flips' = [f \in Flips |-> IF f \in pulled THEN Swap(flips[f]) ELSE flips[f]]
    BY <1>1
  <2>2. PICK out \in SUBSET FailedFlips, taken \in SUBSET AvailableExtras :
          Cardinality(out) = Cardinality(taken) /\ pulled = out \cup taken
    BY DEF Pulled
  <2>3. FailedFlips \subseteq Flips /\ AvailableExtras \subseteq Flips
    BY DEF FailedFlips, AvailableExtras
  <2>4. Swapped(out, taken)
    BY <2>1, <2>2 DEF Swapped
  <2> QED
    BY <2>2, <2>3, <2>4
<1> QED
  BY <1>1 DEF BumpExtraFlips

\* What a swap does to a record.
LEMMA SwapRecord ==
  ASSUME NEW r \in Records
  PROVE  /\ Swap(r) \in Records /\ Swap(r).extra = ~r.extra /\ Swap(r).flipped
         /\ Swap(r).option = r.option /\ Swap(r).ready = r.ready
         /\ Swap(r).decoded = r.decoded
BY DEF Swap, Records

\* The user, the solver and the fallback only choose sides.
FlipsAnswered ==
  /\ flips' \in [Flips -> Records]
  /\ \A f \in Flips :
       /\ flips'[f].extra = flips[f].extra /\ flips'[f].flipped = flips[f].flipped
       /\ flips'[f].ready = flips[f].ready /\ flips'[f].decoded = flips[f].decoded

\* Choosing a side of flip f.
LEMMA ChooseRecord ==
  ASSUME TypeOK, NEW f \in Flips, Choose(f)
  PROVE  /\ FlipsAnswered
         /\ flips'[f].option = given'[f]
         /\ \A g \in Flips \ {f} : flips'[g].option = flips[g].option /\ given'[g] = given[g]
         /\ given' \in [Flips -> Options]
<1>1. PICK option \in Choices : flips' = [flips EXCEPT ![f].option = option]
                                /\ given' = [given EXCEPT ![f] = option]
  BY DEF Choose
<1>2. option \in Options
  BY ShortSessionAssumption DEF Options
<1> QED
  BY <1>1, <1>2 DEF TypeOK, FlipsAnswered, Records

\* Submitting fills in the flips that have no answer.
LEMMA SubmitRecord ==
  ASSUME TypeOK, NEW from, Submit(from)
  PROVE  /\ FlipsAnswered
         /\ \A f \in Flips : flips[f].option # "none" => flips'[f].option = flips[f].option
         /\ sent' \in [Flips -> Options]
         /\ \A f \in Flips : sent'[f] = flips'[f].option
<1>1. ASSUME NEW f \in Flips
      PROVE  \/ flips'[f] = flips[f]
             \/ /\ flips[f].option = "none"
                /\ \E o \in Options : flips'[f] = [flips[f] EXCEPT !.option = o]
  BY DEF Submit, ensureShortSubmitOptions, deterministicAnswerFallback, Options
<1>2. flips' = [f \in Flips |-> flips'[f]]
  BY DEF Submit, ensureShortSubmitOptions
<1>3. ASSUME NEW f \in Flips
      PROVE  /\ flips'[f] \in Records
             /\ flips'[f].extra = flips[f].extra /\ flips'[f].flipped = flips[f].flipped
             /\ flips'[f].ready = flips[f].ready /\ flips'[f].decoded = flips[f].decoded
             /\ flips[f].option # "none" => flips'[f].option = flips[f].option
  <2>1. flips[f] \in Records
    BY DEF TypeOK
  <2> QED
    BY <1>1, <2>1 DEF Records
<1>4. flips' \in [Flips -> Records]
  BY <1>2, <1>3
<1>5. sent' = [f \in Flips |-> flips'[f].option]
  BY DEF Submit
<1> QED
  BY <1>3, <1>4, <1>5 DEF FlipsAnswered, Records

-----------------------------------------------------------------------------
(* Type correctness, with what is known of the flips.                       *)

LoadInv == TypeOK /\ SwapMarked /\ LoadedReady

\* A merge leaves the roles and what is loaded consistent.
LEMMA MergeKeeps ==
  ASSUME LoadInv, FlipsMerged, known => known',
         queue' \subseteq Flips, stray' \subseteq Flips,
         queue' \cup stray' \subseteq queue \cup stray \cup NotFetched(flips')
  PROVE  SwapMarked' /\ LoadedReady'
<1>1. SwapMarked'
  BY DEF LoadInv, SwapMarked, FlipsMerged, Merged
<1>2. \A f \in Flips : flips'[f].decoded => flips'[f].ready
  BY DEF FlipsMerged, Merged
<1>3. \A f \in Flips : flips'[f].ready => known'
  BY DEF LoadInv, LoadedReady, FlipsMerged, Merged
<1>4. \A f \in queue' \cup stray' : flips'[f].ready
  BY DEF LoadInv, LoadedReady, FlipsMerged, Merged, NotFetched
<1> QED
  BY <1>1, <1>2, <1>3, <1>4 DEF LoadedReady

\* So does choosing sides.
LEMMA AnswerKeeps ==
  ASSUME LoadInv, FlipsAnswered, UNCHANGED <<known, queue, stray>>
  PROVE  SwapMarked' /\ LoadedReady'
<1>1. SwapMarked'
  BY DEF LoadInv, SwapMarked, FlipsAnswered
<1>2. queue \subseteq Flips /\ stray \subseteq Flips
  BY DEF LoadInv, TypeOK
<1> QED
  BY <1>1, <1>2 DEF LoadInv, LoadedReady, FlipsAnswered

\* So does a swap.
LEMMA SwapKeeps ==
  ASSUME LoadInv, NEW out \in SUBSET Flips, NEW taken \in SUBSET Flips,
         Swapped(out, taken), known' = known,
         queue' \subseteq Flips, stray' \subseteq Flips,
         queue' \cup stray' \subseteq queue \cup stray \cup NotFetched(flips')
  PROVE  flips' \in [Flips -> Records] /\ SwapMarked' /\ LoadedReady'
<1>0. flips \in [Flips -> Records]
  BY DEF LoadInv, TypeOK
<1>1. ASSUME NEW f \in Flips
      PROVE  /\ flips'[f] \in Records
             /\ flips'[f].ready = flips[f].ready /\ flips'[f].decoded = flips[f].decoded
             /\ flips'[f].flipped \/ flips'[f] = flips[f]
  <2>1. flips'[f] = IF f \in out \cup taken THEN Swap(flips[f]) ELSE flips[f]
    BY DEF Swapped
  <2> QED
    BY <1>0, <2>1, SwapRecord
<1>2. flips' \in [Flips -> Records]
  BY <1>1 DEF Swapped
<1>3. SwapMarked'
  BY <1>1 DEF LoadInv, SwapMarked
<1>4. \A f \in queue' \cup stray' : flips'[f].ready
  BY <1>1 DEF LoadInv, LoadedReady, NotFetched
<1> QED
  BY <1>1, <1>2, <1>3, <1>4 DEF LoadInv, LoadedReady

\* The sets a step may leave in the loader.
LEMMA QueueTypes ==
  ASSUME NEW fs
  PROVE  NotFetched(fs) \subseteq Flips
BY DEF NotFetched

\* Nothing is known, chosen or loaded when the short session begins.
LEMMA LoadInit == Init => LoadInv
<1> SUFFICES ASSUME Init PROVE LoadInv
  OBVIOUS
<1>1. flips = Fresh /\ given = NoAnswers /\ sent = NoAnswers
  BY DEF Init
<1>2. refetches \in 0..MaxRefetches /\ restarts \in 0..MaxRestarts
  BY ShortSessionAssumption DEF Init
<1>3. TypeOK
  <2> HIDE DEF Fresh, NoAnswers
  <2> QED
    BY <1>1, <1>2, FreshRecord DEF Init, TypeOK
<1>4. SwapMarked
  BY <1>1, FreshRecord DEF SwapMarked
<1>5. LoadedReady
  BY <1>1, FreshRecord DEF Init, LoadedReady
<1> QED
  BY <1>3, <1>4, <1>5 DEF LoadInv

\* Every step keeps the types and what is known of the flips.
LEMMA LoadStep == LoadInv /\ [Next]_vars => LoadInv'
<1> SUFFICES ASSUME LoadInv, [Next]_vars PROVE LoadInv'
  OBVIOUS
<1>0. /\ TypeOK /\ SwapMarked /\ LoadedReady /\ flips \in [Flips -> Records]
      /\ queue \subseteq Flips /\ stray \subseteq Flips
  BY DEF LoadInv, TypeOK
<1>1. CASE FetchStep
  <2>1. FlipsMerged
    BY <1>0, <1>1, MergedBySteps
  <2>2. /\ queue' \subseteq queue \cup NotFetched(flips') /\ stray' \subseteq stray \cup queue
        /\ fetch' \in {fetch, "done"} /\ hashes' \in {"fetching", "check"}
        /\ get' \in {"fetching", "check"}
    BY <1>0, <1>1 DEF FetchStep, TypeOK, HashesFetched, HashesFailed, FlipsFetched,
       CheckHashes, CheckFlips, FlipArrives, StrayArrives, LeavePolling, Quiet
  <2>3. known' \in {known, TRUE}
        /\ UNCHANGED <<period, at, given, sent, accepted, dead, timers, recovered,
                       refetches, restarts>>
    BY <1>1 DEF FetchStep, HashesFetched, HashesFailed, FlipsFetched,
       CheckHashes, CheckFlips, FlipArrives, StrayArrives, Quiet, answering, counters
  <2>4. SwapMarked' /\ LoadedReady'
    <3>1. known => known'
      BY <2>3
    <3>2. queue' \subseteq Flips /\ stray' \subseteq Flips
      BY <1>0, <2>2, QueueTypes
    <3>3. queue' \cup stray' \subseteq queue \cup stray \cup NotFetched(flips')
      BY <2>2
    <3> QED
      BY <1>0, <2>1, <3>1, <3>2, <3>3, MergeKeeps
  <2>5. TypeOK'
    BY <1>0, <2>1, <2>2, <2>3, QueueTypes DEF TypeOK, FlipsMerged
  <2> QED
    BY <2>4, <2>5 DEF LoadInv
<1>2. CASE FinalizeFlips
  <2>1. FlipsMerged
    BY <1>0, <1>2, MergedBySteps
  <2>2. /\ queue' = {} /\ stray' = stray \cup queue /\ fetch' = "done"
        /\ timers' \subseteq timers
        /\ UNCHANGED <<period, at, hashes, get, given, sent, accepted, dead, known,
                       recovered, refetches, restarts>>
    BY <1>2 DEF FinalizeFlips, LeavePolling, answering, counters
  <2>3. SwapMarked' /\ LoadedReady'
    BY <1>0, <2>1, <2>2, MergeKeeps
  <2>4. TypeOK'
    BY <1>0, <2>1, <2>2 DEF TypeOK, FlipsMerged
  <2> QED
    BY <2>3, <2>4 DEF LoadInv
<1>3. CASE RefetchFlips \/ RecoverDecodeState
  <2>1. FlipsMerged
    BY <1>0, <1>3, MergedBySteps DEF RefetchFlips, RecoverDecodeState
  <2>2. /\ queue' = NotFetched(flips') /\ stray' = stray \cup queue
        /\ fetch' = "polling" /\ hashes' = "fetching" /\ get' = "fetching"
        /\ timers' \subseteq Timers /\ dead' \subseteq dead
        /\ UNCHANGED <<period, at, given, sent, accepted, known, restarts>>
    BY <1>0, <1>3 DEF RefetchFlips, RecoverDecodeState, Refetch, EnterPolling, answering,
       TypeOK
  <2>3. recovered' \in BOOLEAN
    BY <1>0, <1>3 DEF RefetchFlips, RecoverDecodeState, TypeOK
  <2>4. refetches' \in 0..MaxRefetches
    <3>1. MaxRefetches \in Nat /\ refetches \in 0..MaxRefetches
      BY <1>0, ShortSessionAssumption DEF TypeOK
    <3>2. refetches' = refetches \/ (refetches < MaxRefetches /\ refetches' = refetches + 1)
      BY <1>3 DEF RefetchFlips, RecoverDecodeState
    <3> QED
      BY <3>1, <3>2
  <2>5. SwapMarked' /\ LoadedReady'
    BY <1>0, <2>1, <2>2, QueueTypes, MergeKeeps
  <2>6. TypeOK'
    BY <1>0, <2>1, <2>2, <2>3, <2>4, QueueTypes DEF TypeOK, FlipsMerged
  <2> QED
    BY <2>5, <2>6 DEF LoadInv
<1>4. CASE BumpExtraFlips
  <2>1. CASE UNCHANGED flips
    <3>1. FlipsMerged
      BY <1>0, <2>1 DEF FlipsMerged, Merged, LoadedReady
    <3>2. /\ queue' \subseteq queue \cup NotFetched(flips') /\ stray' \subseteq stray \cup queue
          /\ fetch' \in {fetch, "polling"} /\ hashes' \in {"fetching", "check"}
          /\ get' \in {"fetching", "check"} /\ timers' \subseteq timers
          /\ UNCHANGED <<period, at, given, sent, accepted, dead, known, recovered,
                         refetches, restarts>>
      BY <1>0, <1>4 DEF BumpExtraFlips, EnterPolling, loading, answering, counters, TypeOK
    <3>3. SwapMarked' /\ LoadedReady'
      BY <1>0, <3>1, <3>2, QueueTypes, MergeKeeps
    <3>4. TypeOK'
      BY <1>0, <2>1, <3>2, QueueTypes DEF TypeOK
    <3> QED
      BY <3>3, <3>4 DEF LoadInv
  <2>2. ASSUME NEW out \in SUBSET Flips, NEW taken \in SUBSET Flips, Swapped(out, taken)
        PROVE  LoadInv'
    <3>1. /\ queue' \subseteq queue \cup NotFetched(flips') /\ stray' \subseteq stray \cup queue
          /\ fetch' \in {fetch, "polling"} /\ hashes' \in {"fetching", "check"}
          /\ get' \in {"fetching", "check"} /\ timers' \subseteq timers
          /\ UNCHANGED <<period, at, given, sent, accepted, dead, known, recovered,
                         refetches, restarts>>
      BY <1>0, <1>4 DEF BumpExtraFlips, EnterPolling, loading, answering, counters, TypeOK
    <3>2. flips' \in [Flips -> Records] /\ SwapMarked' /\ LoadedReady'
      BY <1>0, <2>2, <3>1, QueueTypes, SwapKeeps
    <3>3. TypeOK'
      BY <1>0, <3>1, <3>2, QueueTypes DEF TypeOK
    <3> QED
      BY <3>2, <3>3 DEF LoadInv
  <2> QED
    BY <1>4, <2>1, <2>2, BumpSwaps
<1>5. ASSUME NEW f \in Flips, Choose(f) PROVE LoadInv'
  <2>1. FlipsAnswered /\ given' \in [Flips -> Options]
    BY <1>0, <1>5, ChooseRecord
  <2>2. UNCHANGED <<period, at, sent, accepted, fetch, hashes, get, queue, stray, dead,
                    timers, known, recovered, refetches, restarts>>
    BY <1>5 DEF Choose, loading, counters
  <2>3. SwapMarked' /\ LoadedReady'
    BY <2>1, <2>2, AnswerKeeps
  <2>4. TypeOK'
    BY <1>0, <2>1, <2>2 DEF TypeOK, FlipsAnswered
  <2> QED
    BY <2>3, <2>4 DEF LoadInv
<1>6. ASSUME NEW from, Submit(from) PROVE LoadInv'
  <2>1. FlipsAnswered /\ sent' \in [Flips -> Options]
    BY <1>0, <1>6, SubmitRecord
  <2>2. /\ at' = "submitting" /\ timers' \subseteq timers /\ dead' \subseteq dead
        /\ UNCHANGED <<period, given, accepted, fetch, hashes, get, queue, stray,
                    known, recovered, refetches, restarts>>
    BY <1>6 DEF Submit, loading, counters
  <2>3. SwapMarked' /\ LoadedReady'
    BY <2>1, <2>2, AnswerKeeps
  <2>4. TypeOK'
    BY <1>0, <2>1, <2>2 DEF TypeOK, FlipsAnswered
  <2> QED
    BY <2>3, <2>4 DEF LoadInv
<1>7. ASSUME UNCHANGED <<flips, known, queue, stray>>, TypeOK' PROVE LoadInv'
  BY <1>0, <1>7 DEF LoadInv, SwapMarked, LoadedReady
<1>8. CASE AutoSubmit
  <2>1. CASE GiveUp
    BY <1>0, <1>7, <2>1 DEF GiveUp, TypeOK, loading, counters
  <2>2. CASE timers' = timers \ {"auto"}
             /\ UNCHANGED <<period, answering, loading, dead, known, flips, counters>>
    BY <1>0, <1>7, <2>2 DEF TypeOK, loading, counters, answering
  <2> QED
    BY <1>6, <1>8, <2>1, <2>2 DEF AutoSubmit
<1>9. CASE NodeTakesAnswers \/ SubmitDone \/ SubmitFails \/ StartLongSession
  <2>1. /\ at' \in {at, "submitted", "fail", "long"} /\ accepted' \in {accepted, TRUE}
        /\ UNCHANGED <<period, given, sent, loading, dead, timers, known, flips, counters>>
    BY <1>9 DEF NodeTakesAnswers, SubmitDone, SubmitFails, StartLongSession, Moves
  <2>2. TypeOK'
    BY <1>0, <2>1 DEF TypeOK, loading, counters
  <2> QED
    BY <1>7, <2>1, <2>2 DEF loading
<1>10. CASE PeriodEnds
  BY <1>0, <1>7, <1>10 DEF PeriodEnds, TypeOK, loading, counters, answering
<1>11. CASE Restart
  <2>1. restarts' \in 0..MaxRestarts
    <3>1. MaxRestarts \in Nat /\ restarts \in 0..MaxRestarts
      BY <1>0, ShortSessionAssumption DEF TypeOK
    <3> QED
      BY <1>11, <3>1 DEF Restart
  <2>2. recovered' = FALSE /\ queue' = {} /\ stray' = {} /\ UNCHANGED <<period, refetches>>
    BY <1>11 DEF Restart
  <2>3. CASE Restored
    <3>1. FlipsMerged
      BY <1>0, <1>11, <2>3, MergedBySteps
    <3>2. /\ fetch' \in {fetch, "polling"} /\ dead' = {"fetch", "answer"} /\ timers' = {}
          /\ UNCHANGED <<at, given, sent, accepted, hashes, get, known>>
      BY <2>3 DEF Restored, answering
    <3>3. SwapMarked' /\ LoadedReady'
      BY <2>2, <3>1, <3>2, MergeKeeps
    <3>4. TypeOK'
      BY <1>0, <2>1, <2>2, <3>1, <3>2 DEF TypeOK, FlipsMerged
    <3> QED
      BY <3>3, <3>4 DEF LoadInv
  <2>4. CASE Discarded
    <3>1. /\ at' \in {"long", "normal"} /\ flips' = Fresh /\ given' = NoAnswers
          /\ sent' = NoAnswers /\ known' = FALSE /\ fetch' = "polling"
          /\ hashes' = "fetching" /\ get' = "fetching" /\ dead' = {} /\ timers' = Timers
          /\ accepted' = accepted
      BY <2>4 DEF Discarded
    <3> HIDE DEF Fresh, NoAnswers
    <3>2. SwapMarked' /\ LoadedReady'
      BY <2>2, <3>1, FreshRecord DEF SwapMarked, LoadedReady
    <3>3. TypeOK'
      BY <1>0, <2>1, <2>2, <3>1, FreshRecord DEF TypeOK
    <3> QED
      BY <3>2, <3>3 DEF LoadInv
  <2> QED
    BY <1>11, <2>3, <2>4 DEF Restart
<1>12. CASE UNCHANGED vars
  BY <1>0, <1>7, <1>12 DEF vars, TypeOK
<1>13. Answered \subseteq Flips
  BY ShortSessionAssumption
<1> QED
  BY <1>1, <1>2, <1>3, <1>4, <1>5, <1>6, <1>8, <1>9, <1>10, <1>11, <1>12, <1>13
  DEF Next, UserStep, SubmitStep, Answer, ApplyAiAnswers, SubmitAnswers, RetrySubmit,
      AutoRetry

\* Every reachable state of the short session is well typed, for any number of
\* flips, refetches and restarts.
THEOREM TypesKept == Spec => []TypeOK
<1>1. LoadInv => TypeOK
  BY DEF LoadInv
<1> QED
  BY <1>1, LoadInit, LoadStep, PTL DEF Spec

-----------------------------------------------------------------------------
(* What a step does to roles and options.                                   *)

SameRoles == \A f \in Flips : flips'[f].extra = flips[f].extra

SameOptions == \A f \in Flips : flips'[f].option = flips[f].option

\* A step leaves the roles alone, swaps, or begins anew.
LEMMA RoleSteps ==
  ASSUME LoadInv, [Next]_vars
  PROVE  \/ SameRoles
         \/ BumpExtraFlips /\ \E out, taken \in SUBSET Flips : Swapped(out, taken)
         \/ Restart /\ Discarded
<1>0. TypeOK /\ SwapMarked /\ LoadedReady
  BY DEF LoadInv
<1>1. CASE UNCHANGED flips
  BY <1>1 DEF SameRoles
<1>2. CASE FetchStep \/ FinalizeFlips \/ RefetchFlips \/ RecoverDecodeState
             \/ (Restart /\ Restored)
  <2>1. FlipsMerged
    BY <1>0, <1>2, MergedBySteps DEF RefetchFlips, RecoverDecodeState
  <2> QED
    BY <2>1 DEF FlipsMerged, Merged, SameRoles
<1>3. ASSUME NEW f \in Flips, Choose(f) PROVE SameRoles
  BY <1>0, <1>3, ChooseRecord DEF FlipsAnswered, SameRoles
<1>4. ASSUME NEW from, Submit(from) PROVE SameRoles
  BY <1>0, <1>4, SubmitRecord DEF FlipsAnswered, SameRoles
<1>5. Answered \subseteq Flips
  BY ShortSessionAssumption
<1> QED
  BY <1>1, <1>2, <1>3, <1>4, <1>5, BumpSwaps
  DEF Next, UserStep, SubmitStep, Answer, ApplyAiAnswers, SubmitAnswers, RetrySubmit,
      AutoRetry, AutoSubmit, GiveUp, NodeTakesAnswers, SubmitDone, SubmitFails,
      StartLongSession, Moves, PeriodEnds, Restart, vars

-----------------------------------------------------------------------------
(* Roles.                                                                   *)

Regulars == {f \in Flips : ~flips[f].extra}

\* Regular and extra flips change places one for one.
LEMMA SwapKeepsRegulars ==
  ASSUME LoadInv, NEW out \in SUBSET Flips, NEW taken \in SUBSET Flips,
         Swapped(out, taken)
  PROVE  Cardinality(Regulars') = Cardinality(Regulars)
<1>0. flips \in [Flips -> Records] /\ IsFiniteSet(Flips)
  BY ShortSessionAssumption DEF LoadInv, TypeOK
<1>1. out \subseteq Regulars /\ taken \cap Regulars = {}
  BY DEF Swapped, FailedFlips, AvailableExtras, Regulars
<1>2. \A f \in Flips : flips'[f].extra = IF f \in out \cup taken THEN ~flips[f].extra
                                         ELSE flips[f].extra
  <2> TAKE f \in Flips
  <2>1. flips[f] \in Records
    BY <1>0
  <2>2. flips'[f] = IF f \in out \cup taken THEN Swap(flips[f]) ELSE flips[f]
    BY DEF Swapped
  <2> QED
    BY <2>1, <2>2, SwapRecord
<1>3. Regulars' = (Regulars \ out) \cup taken
  <2>1. ASSUME NEW f \in Flips PROVE f \in Regulars' <=> f \in (Regulars \ out) \cup taken
    BY <1>1, <1>2 DEF Regulars
  <2>2. Regulars' \subseteq Flips /\ (Regulars \ out) \cup taken \subseteq Flips
    BY DEF Regulars
  <2> QED
    BY <2>1, <2>2
<1>4. IsFiniteSet(Regulars) /\ IsFiniteSet(out) /\ IsFiniteSet(taken)
      /\ IsFiniteSet(Regulars \ out)
  <2>1. Regulars \subseteq Flips /\ Regulars \ out \subseteq Flips
    BY DEF Regulars
  <2> QED
    BY <1>0, <2>1, FS_Subset
<1> HIDE DEF Regulars
<1>5. Regulars \cap out = out /\ (Regulars \ out) \cap taken = {}
  BY <1>1
<1>6. Cardinality(Regulars \ out) = Cardinality(Regulars) - Cardinality(out)
  BY <1>4, <1>5, FS_Difference
<1>7. Cardinality((Regulars \ out) \cup taken)
        = Cardinality(Regulars \ out) + Cardinality(taken) - Cardinality({})
  BY <1>4, <1>5, FS_Union
<1>8. Cardinality({}) = 0 /\ Cardinality(Regulars) \in Nat /\ Cardinality(out) \in Nat
  BY <1>4, FS_EmptySet, FS_CardinalityType
<1>9. Cardinality(out) = Cardinality(taken)
  BY DEF Swapped
<1> QED
  BY <1>3, <1>6, <1>7, <1>8, <1>9

\* The flips that begin as regular ones are those the node assigned.
LEMMA FreshRegulars == {f \in Flips : ~Fresh[f].extra} = Regular
BY FreshRecord, ShortSessionAssumption DEF Flips

RoleInv == LoadInv /\ RegularsKept

\* No step changes the number of regular flips.
LEMMA RoleStep == RoleInv /\ [Next]_vars => RoleInv'
<1> SUFFICES ASSUME RoleInv, [Next]_vars PROVE RoleInv'
  OBVIOUS
<1>0. LoadInv /\ LoadInv' /\ Cardinality(Regulars) = Cardinality(Regular)
  BY LoadStep DEF RoleInv, RegularsKept, Regulars
<1> SUFFICES Cardinality(Regulars') = Cardinality(Regular)
  BY <1>0 DEF RoleInv, RegularsKept, Regulars
<1>1. CASE SameRoles
  <2>1. Regulars' = Regulars
    BY <1>1 DEF SameRoles, Regulars
  <2> QED
    BY <1>0, <2>1
<1>2. ASSUME NEW out \in SUBSET Flips, NEW taken \in SUBSET Flips, Swapped(out, taken)
      PROVE  Cardinality(Regulars') = Cardinality(Regular)
  BY <1>0, <1>2, SwapKeepsRegulars
<1>3. CASE Discarded
  <2>1. Regulars' = Regular
    BY <1>3, FreshRegulars DEF Discarded, Regulars
  <2> QED
    BY <2>1
<1> QED
  BY <1>0, <1>1, <1>2, <1>3, RoleSteps

\* As many flips are regular as the node assigned, through any number of swaps,
\* polls, refetches and restarts.
THEOREM RegularsCounted == Spec => []RegularsKept
<1>1. Init => RoleInv
  BY LoadInit, FreshRegulars DEF Init, RoleInv, RegularsKept
<1>2. RoleInv => RegularsKept
  BY DEF RoleInv
<1> QED
  BY <1>1, <1>2, RoleStep, PTL DEF Spec

StaysRegular ==
  \A f \in Flips : Live' /\ ~flips[f].extra /\ flips'[f].extra => ~flips[f].decoded

\* Only a flip that cannot be shown is swapped out, and a session that begins
\* anew had shown none.
LEMMA RegularStep == LoadInv /\ [Next]_vars => StaysRegular
<1> SUFFICES ASSUME LoadInv, [Next]_vars PROVE StaysRegular
  OBVIOUS
<1>0. LoadedReady /\ flips \in [Flips -> Records]
  BY DEF LoadInv, TypeOK
<1>1. CASE SameRoles
  BY <1>1 DEF SameRoles, StaysRegular
<1>2. ASSUME NEW out \in SUBSET Flips, NEW taken \in SUBSET Flips, Swapped(out, taken)
      PROVE  StaysRegular
  <2> SUFFICES ASSUME NEW f \in Flips, ~flips[f].extra, flips'[f].extra
               PROVE  ~flips[f].decoded
    BY DEF StaysRegular
  <2>1. f \in out
    BY <1>2 DEF Swapped, AvailableExtras
  <2> QED
    BY <1>0, <1>2, <2>1 DEF Swapped, FailedFlips, LoadedReady
<1>3. CASE Discarded
  <2>1. CASE ~known
    BY <1>0, <2>1 DEF LoadedReady, StaysRegular
  <2>2. CASE period = "long"
    <3>1. ~Live'
      BY <1>3, <2>2 DEF Discarded, Live
    <3> QED
      BY <3>1 DEF StaysRegular
  <2> QED
    BY <1>3, <2>1, <2>2 DEF Discarded
<1> QED
  BY <1>1, <1>2, <1>3, RoleSteps

\* A flip that can be shown is never taken from the user again, neither by a
\* swap nor by a poll that does not know of the swap.
THEOREM ShownFlipsStay == Spec => DecodedStaysRegular
<1>1. LoadInv /\ [Next]_vars
        => [\A f \in Flips :
              Live' /\ ~flips[f].extra /\ flips'[f].extra => ~flips[f].decoded]_vars
  BY RegularStep DEF StaysRegular
<1> QED
  BY <1>1, LoadInit, LoadStep, PTL DEF Spec, DecodedStaysRegular

-----------------------------------------------------------------------------
(* Answers.                                                                 *)

InSubmission == at \in {"submitting", "fail", "submitted"}

ChoiceInv == LoadInv /\ GivenKept /\ ChosenIsSent

\* Every step keeps what was chosen, and what is sent once it is sent.
LEMMA ChoiceStep == ChoiceInv /\ [Next]_vars => ChoiceInv'
<1> SUFFICES ASSUME ChoiceInv, [Next]_vars PROVE ChoiceInv'
  OBVIOUS
<1>0. /\ LoadInv /\ LoadInv' /\ TypeOK /\ SwapMarked /\ LoadedReady
      /\ flips \in [Flips -> Records]
  BY LoadStep DEF ChoiceInv, LoadInv, TypeOK
<1> SUFFICES GivenKept' /\ ChosenIsSent'
  BY <1>0 DEF ChoiceInv
<1>1. ASSUME SameOptions, UNCHANGED <<given, sent>>, InSubmission' => InSubmission
      PROVE  GivenKept' /\ ChosenIsSent'
  BY <1>1 DEF SameOptions, InSubmission, ChoiceInv, GivenKept, ChosenIsSent
<1>2. CASE FetchStep \/ FinalizeFlips \/ RefetchFlips \/ RecoverDecodeState
             \/ (Restart /\ Restored)
  <2>1. SameOptions
    <3>1. FlipsMerged
      BY <1>0, <1>2, MergedBySteps DEF RefetchFlips, RecoverDecodeState
    <3> QED
      BY <3>1 DEF FlipsMerged, Merged, SameOptions
  <2>2. UNCHANGED <<at, given, sent>>
    BY <1>2 DEF FetchStep, HashesFetched, HashesFailed, FlipsFetched, CheckHashes,
       CheckFlips, FlipArrives, StrayArrives, Quiet, FinalizeFlips, RefetchFlips,
       RecoverDecodeState, Refetch, Restored, answering
  <2> QED
    BY <1>1, <2>1, <2>2 DEF InSubmission
<1>3. CASE BumpExtraFlips
  <2>1. SameOptions
    <3>1. ASSUME NEW out \in SUBSET Flips, NEW taken \in SUBSET Flips,
                 Swapped(out, taken), NEW f \in Flips
          PROVE  flips'[f].option = flips[f].option
      <4>1. flips[f] \in Records
        BY <1>0
      <4>2. flips'[f] = IF f \in out \cup taken THEN Swap(flips[f]) ELSE flips[f]
        BY <3>1 DEF Swapped
      <4> QED
        BY <4>1, <4>2, SwapRecord
    <3> QED
      BY <1>3, <3>1, BumpSwaps DEF SameOptions
  <2>2. UNCHANGED <<at, given, sent>>
    BY <1>3 DEF BumpExtraFlips, answering
  <2> QED
    BY <1>1, <2>1, <2>2 DEF InSubmission
<1>4. ASSUME NEW f \in Flips, Choose(f) PROVE GivenKept' /\ ChosenIsSent'
  <2>1. at' = "normal"
    BY <1>4 DEF Choose
  <2>2. flips'[f].option = given'[f]
        /\ \A g \in Flips \ {f} : flips'[g].option = flips[g].option /\ given'[g] = given[g]
    BY <1>0, <1>4, ChooseRecord
  <2> QED
    BY <2>1, <2>2 DEF ChoiceInv, GivenKept, ChosenIsSent
<1>5. ASSUME NEW from, Submit(from) PROVE GivenKept' /\ ChosenIsSent'
  <2>1. given' = given
    BY <1>5 DEF Submit
  <2>2. /\ \A f \in Flips : flips[f].option # "none" => flips'[f].option = flips[f].option
        /\ \A f \in Flips : sent'[f] = flips'[f].option
    BY <1>0, <1>5, SubmitRecord
  <2>3. \A f \in Flips : given[f] # "none" => flips'[f].option = given[f]
    BY <2>2 DEF ChoiceInv, GivenKept
  <2> QED
    BY <2>1, <2>2, <2>3 DEF GivenKept, ChosenIsSent
<1>6. CASE Restart /\ Discarded
  <2>1. given' = NoAnswers
    BY <1>6 DEF Discarded
  <2> QED
    BY <2>1, FreshRecord DEF GivenKept, ChosenIsSent
<1>7. CASE NodeTakesAnswers \/ SubmitDone \/ SubmitFails \/ StartLongSession \/ GiveUp
             \/ PeriodEnds \/ UNCHANGED vars
             \/ UNCHANGED <<period, answering, loading, dead, known, flips, counters>>
  <2>1. UNCHANGED <<flips, given, sent>> /\ (InSubmission' => InSubmission)
    BY <1>7 DEF NodeTakesAnswers, SubmitDone, SubmitFails, StartLongSession, GiveUp,
       PeriodEnds, Submitting, Moves, InSubmission, answering, vars
  <2> QED
    BY <1>1, <2>1 DEF SameOptions
<1>8. Answered \subseteq Flips
  BY ShortSessionAssumption
<1> QED
  BY <1>2, <1>3, <1>4, <1>5, <1>6, <1>7, <1>8
  DEF Next, UserStep, SubmitStep, Answer, ApplyAiAnswers, SubmitAnswers, RetrySubmit,
      AutoRetry, AutoSubmit, Restart

\* What was chosen is what is sent: no fallback, refetch, restart or retry
\* changes an answer.
THEOREM ChosenSent == Spec => []ChosenIsSent
<1>1. Init => ChoiceInv
  BY LoadInit, FreshRecord DEF Init, ChoiceInv, GivenKept, ChosenIsSent
<1>2. ChoiceInv => ChosenIsSent
  BY DEF ChoiceInv
<1> QED
  BY <1>1, <1>2, ChoiceStep, PTL DEF Spec

-----------------------------------------------------------------------------
(* Failure.                                                                 *)

EndInv == AcceptedInTime /\ FailedMeansTooFew

\* Every step keeps in time what the node takes, and fails only without answers.
LEMMA EndStep == EndInv /\ [Next]_vars => EndInv'
<1> SUFFICES ASSUME EndInv, [Next]_vars PROVE EndInv'
  OBVIOUS
<1>1. ASSUME at # "failed", UNCHANGED <<at, accepted>>, known => known'
      PROVE  EndInv'
  BY <1>1 DEF EndInv, AcceptedInTime, FailedMeansTooFew
<1>2. CASE FetchStep \/ FinalizeFlips \/ RefetchFlips \/ RecoverDecodeState
             \/ BumpExtraFlips \/ \E f \in Flips : Choose(f)
  <2>1. at # "failed"
    <3>1. CASE FetchStep
      BY <3>1 DEF FetchStep, HashesFetched, HashesFailed, FlipsFetched, CheckHashes,
         CheckFlips, FlipArrives, StrayArrives, Polling, Live
    <3>2. CASE FinalizeFlips \/ RefetchFlips \/ RecoverDecodeState
      BY <3>2 DEF FinalizeFlips, RefetchFlips, RecoverDecodeState, Refetch, Live
    <3>3. CASE BumpExtraFlips
      BY <3>3 DEF BumpExtraFlips, Live
    <3>4. ASSUME NEW f \in Flips, Choose(f) PROVE at # "failed"
      BY <3>4 DEF Choose
    <3> QED
      BY <1>2, <3>1, <3>2, <3>3, <3>4
  <2>2. UNCHANGED <<at, accepted>> /\ (known => known')
    <3>1. CASE FetchStep
      BY <3>1 DEF FetchStep, HashesFetched, HashesFailed, FlipsFetched, CheckHashes,
         CheckFlips, FlipArrives, StrayArrives, Quiet, answering
    <3>2. CASE FinalizeFlips
      BY <3>2 DEF FinalizeFlips, answering
    <3>4. CASE RefetchFlips \/ RecoverDecodeState
      <4>1. Refetch
        BY <3>4 DEF RefetchFlips, RecoverDecodeState
      <4> QED
        BY <4>1 DEF Refetch, answering
    <3>5. CASE BumpExtraFlips
      BY <3>5 DEF BumpExtraFlips, answering
    <3>3. ASSUME NEW f \in Flips, Choose(f)
          PROVE  UNCHANGED <<at, accepted>> /\ (known => known')
      BY <3>3 DEF Choose
    <3> QED
      BY <1>2, <3>1, <3>2, <3>3, <3>4, <3>5
  <2> QED
    BY <1>1, <2>1, <2>2
<1>3. ASSUME NEW from, Submit(from) PROVE EndInv'
  BY <1>3 DEF Submit, EndInv, AcceptedInTime, FailedMeansTooFew
<1>4. CASE NodeTakesAnswers \/ SubmitDone \/ SubmitFails \/ StartLongSession
  <2>1. /\ at \in {"submitting", "submitted"}
        /\ at' \in {"submitting", "submitted", "fail", "long"}
        /\ known' = known
    BY <1>4 DEF NodeTakesAnswers, SubmitDone, SubmitFails, StartLongSession, Submitting,
       Moves
  <2> QED
    BY <2>1 DEF EndInv, AcceptedInTime, FailedMeansTooFew
<1>5. ASSUME at = "normal", ~hasEnoughAnswers, known, GiveUp PROVE EndInv'
  <2>1. at' = "failed" /\ UNCHANGED <<accepted, known, flips>>
    BY <1>5 DEF GiveUp
  <2>2. hasEnoughAnswers' = hasEnoughAnswers
    BY <2>1 DEF hasEnoughAnswers
  <2> QED
    BY <1>5, <2>1, <2>2 DEF EndInv, AcceptedInTime, FailedMeansTooFew
<1>6. CASE UNCHANGED <<at, accepted, known, flips>>
  <2>1. hasEnoughAnswers' = hasEnoughAnswers
    BY <1>6 DEF hasEnoughAnswers
  <2> QED
    BY <1>6, <2>1 DEF EndInv, AcceptedInTime, FailedMeansTooFew
<1>7. CASE AutoSubmit
  BY <1>3, <1>5, <1>6, <1>7 DEF AutoSubmit, answering
<1>8. CASE PeriodEnds \/ UNCHANGED vars
  BY <1>6, <1>8 DEF PeriodEnds, answering, vars
<1>9. CASE Restart /\ Restored
  BY <1>1, <1>9 DEF Restart, Restored, Live, answering
<1>10. CASE Restart /\ Discarded
  <2>1. at' \in {"normal", "long"} /\ accepted' = accepted
        /\ (at' = "normal" => ~known /\ at # "long")
    BY <1>10 DEF Restart, Discarded, Live
  <2> QED
    BY <2>1 DEF EndInv, AcceptedInTime, FailedMeansTooFew
<1>11. Answered \subseteq Flips
  BY ShortSessionAssumption
<1> QED
  BY <1>2, <1>3, <1>4, <1>7, <1>8, <1>9, <1>10, <1>11
  DEF Next, UserStep, SubmitStep, Answer, ApplyAiAnswers, SubmitAnswers, RetrySubmit,
      AutoRetry, Restart

\* The session only fails for lack of answers, and never after the node has
\* taken some.
THEOREM FailedForTooFew == Spec => []FailedMeansTooFew
<1>1. Init => EndInv
  BY DEF Init, EndInv, AcceptedInTime, FailedMeansTooFew
<1>2. EndInv => FailedMeansTooFew
  BY DEF EndInv
<1> QED
  BY <1>1, <1>2, EndStep, PTL DEF Spec
=============================================================================
