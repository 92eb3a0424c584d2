--------------------------- MODULE MCFlipScheduler ---------------------------
EXTENDS FlipScheduler, TLC

TickSymmetry == Permutations(Ticks)

\* Journals an earlier release left in the current session: a claimed run, and
\* a paused one with recorded quality failures or finished pairs.
MCLegacy ==
  {[NoJournal EXCEPT !.session = [epoch |-> 1, addr |-> a],
                     !.status = st, !.started = TRUE, !.expiresAt = Window,
                     !.attempts[1] = n, !.completed = done] :
     a \in Addrs, st \in {"running", "waiting_budget"},
     n \in {0, 2}, done \in SUBSET (Pairs \ {1})}
=============================================================================
