---------------------------- MODULE MCLongSession ----------------------------
EXTENDS LongSession, TLC

FlipSymmetry == Permutations(Flips \ Late) \cup Permutations(Late)
=============================================================================
