---------------------------- MODULE MCShortSession ----------------------------
EXTENDS ShortSession, TLC
CONSTANTS r1, r2, x1

\* r1 may fail to decode, r2 never arrives, the extra flip does.
MCOutcomes == (r1 :> {"image", "garbled"}) @@ (r2 :> {"lost"}) @@ (x1 :> {"image"})
=============================================================================
