----------------------------- MODULE MCWatchdog -----------------------------
EXTENDS Watchdog

MCJumps == {-2, 3}
=============================================================================
