---------------------------- MODULE MCFodSigning ----------------------------
EXTENDS FodSigning
CONSTANTS x1, v7, a1

\* A new profile, or one with an attempt of an earlier release.
MCLegacy == {{}, {[action |-> x1, svc |-> v7, addr |-> a1, nonce |-> 1]}}
=============================================================================
