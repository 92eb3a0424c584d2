---------------------------- MODULE MCAutoStake ----------------------------
EXTENDS AutoStake

Setup(running, ofSource, ofTarget, transfers, disturbances) ==
  [hosts |-> running, past |-> transfers, faults |-> disturbances,
   funds |-> [h \in Hosts |-> IF h = "source" THEN ofSource ELSE ofTarget]]

\* Each service by itself with two batches, both together with one. The target has two
\* disturbances with funds for one of two transfers and with one transfer and funds to
\* spare, one disturbance with funds for both.
MCSetups == {Setup({"source"}, 2, 0, 0, 2), Setup({"target"}, 0, 1, 2, 2),
             Setup({"target"}, 0, 2, 1, 2), Setup({"target"}, 0, 2, 2, 1),
             Setup(Hosts, 1, 0, 0, 1)}
=============================================================================
