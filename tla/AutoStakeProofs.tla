--------------------------- MODULE AutoStakeProofs ---------------------------
(***************************************************************************)
(* Proofs about AutoStake: its types, that a transfer is staked at most    *)
(* once, and that an archived transfer is never executed.                  *)
(*                                                                         *)
(* A journal alone cannot rule out a second stake, since a run may end     *)
(* between sending and journaling. What does is the chain: whatever was    *)
(* sent is pending, confirmed, forgotten by the node or past its nonce or  *)
(* epoch, and a run looks at the first two, in this order, before it sends *)
(* for a transfer.                                                         *)
(***************************************************************************)
EXTENDS AutoStake, FiniteSetTheorems, TLAPS

-----------------------------------------------------------------------------
(* Types.                                                                   *)

\* A run is about to send, or has sent, what it has planned.
Underway == {"slot", "epoch", "submit", "sent"}

WorldOK ==
  /\ hosts \subseteq Hosts /\ epoch \in 1..MaxEpoch
  /\ nonce \in [Hosts -> 0..MaxNonce]
  /\ pool \in [Hosts -> SUBSET Txs]
  /\ \A h \in Hosts : \A t \in pool[h] : t.by = h
  /\ sent \subseteq Txs /\ mined \subseteq sent
  /\ funds \in [Hosts -> Nat]

JournalOK ==
  /\ active \in Actives \cup {None}
  /\ completed \subseteq Marked /\ abandoned \subseteq Marked
  /\ DOMAIN receipts \subseteq Marked
  /\ \A x \in DOMAIN receipts : receipts[x] \in Receipts

\* What the node of a host says of the account is about this account.
RunOK ==
  /\ pc \in [Hosts -> Waits]
  /\ pending \in [Hosts -> SUBSET Txs] /\ recent \in [Hosts -> SUBSET Txs]
  /\ plan \in [Hosts -> Txs \cup {None}]
  /\ \A h \in Hosts : \A t \in pending[h] \cup recent[h] : t.by = h
  /\ recent["source"] \subseteq Marked

HistoryOK ==
  /\ unrecorded \subseteq Txs /\ dropped \subseteq Txs
  /\ faults \in Nat /\ aborts \in 0..MaxAborts

\* What the script on a host knows at each of its requests.
Planned ==
  /\ pc["source"] \in {"active", "missing"} => active \in Actives
  /\ pc["source"] \in Underway => plan["source"] \in Marked
  /\ pc["target"] \in Underway =>
       plan["target"] \in Stakes /\ plan["target"].for \in DOMAIN receipts

TypeInv == WorldOK /\ JournalOK /\ RunOK /\ HistoryOK /\ Planned

\* Transactions tell their account, epoch and nonce.
LEMMA TxFields ==
  ASSUME NEW t \in Txs
  PROVE  /\ t.by \in Hosts /\ t.epoch \in 1..MaxEpoch /\ t.nonce \in 1..MaxNonce
         /\ t.by = "source" => t \in Sends
         /\ t.by = "target" => t \in Stakes
BY DEF Txs, Sends, Stakes, Hosts

\* A marked transfer is one of the source, and so is a stake one of the target.
LEMMA TxKinds ==
  /\ Marked \subseteq Sends /\ Sends \subseteq Txs /\ Stakes \subseteq Txs
  /\ \A t \in Sends : t.by = "source"
  /\ \A t \in Stakes : t.by = "target"
  /\ \A txs \in SUBSET Txs : Transfers(txs) \subseteq Marked
  /\ NewTransfer \in Marked
<1>1. NewTransfer \in Marked
  BY StakeAssumption DEF NewTransfer, Marked, Sends
<1>2. \A txs \in SUBSET Txs : Transfers(txs) \subseteq Marked
  BY TxFields DEF Transfers, Marked
<1> QED
  BY <1>1, <1>2 DEF Marked, Txs, Sends, Stakes

\* A run that ends forgets what it knew.
LEMMA EndRun ==
  ASSUME TypeInv, NEW h \in Hosts, End(h), DOMAIN receipts \subseteq DOMAIN receipts',
         h = "source" \/ active' = active \/ active' \in Actives
  PROVE  RunOK' /\ Planned'
<1>1. RunOK'
  BY DEF TypeInv, RunOK, End, Hosts, Waits
<1>2. pc' = [pc EXCEPT ![h] = "idle"] /\ plan' = [plan EXCEPT ![h] = None]
  BY DEF End
<1>3. \A k \in Hosts : pc'[k] = (IF k = h THEN "idle" ELSE pc[k])
                      /\ (k # h => plan'[k] = plan[k])
  BY <1>2 DEF TypeInv, RunOK
<1>4. Planned'
  BY <1>3 DEF TypeInv, Planned, Hosts, Underway
<1> QED
  BY <1>1, <1>4

\* A run that goes on at a request without a plan keeps what it knows.
LEMMA GoRun ==
  ASSUME TypeInv, NEW h \in Hosts, NEW wait \in Waits \ Underway, Goto(h, wait),
         DOMAIN receipts \subseteq DOMAIN receipts',
         \/ h = "source" /\ (wait \in {"active", "missing"} => active' \in Actives)
         \/ h = "target" /\ active' = active
  PROVE  RunOK' /\ Planned'
<1>1. pc' = [pc EXCEPT ![h] = wait] /\ UNCHANGED <<pending, recent, plan>>
  BY DEF Goto
<1>2. RunOK'
  BY <1>1 DEF TypeInv, RunOK
<1>3. CASE h = "source"
  BY <1>1, <1>3 DEF TypeInv, RunOK, Planned, Hosts, Underway
<1>4. CASE h = "target"
  BY <1>1, <1>4 DEF TypeInv, RunOK, Planned, Hosts, Underway
<1> QED
  BY <1>2, <1>3, <1>4 DEF Hosts

\* What both scripts share keeps the types.
LEMMA SharedTypes ==
  ASSUME TypeInv, NEW h \in Hosts, Shared(h) \/ Abort(h)
  PROVE  TypeInv'
<1>1. CASE Begin(h)
  <2>1. UNCHANGED <<world, journal, recent, plan, history>>
        /\ pc' = [pc EXCEPT ![h] = "recent"] /\ pending' = [pending EXCEPT ![h] = pool[h]]
    BY <1>1 DEF Begin
  <2>2. WorldOK' /\ JournalOK' /\ HistoryOK'
    BY <2>1 DEF TypeInv, WorldOK, JournalOK, HistoryOK, world, journal, history
  <2>3. RunOK'
    BY <2>1 DEF TypeInv, WorldOK, RunOK, Waits
  <2>4. \A k \in Hosts : pc'[k] = IF k = h THEN "recent" ELSE pc[k]
    BY <2>1 DEF TypeInv, RunOK
  <2>5. Planned'
    BY <2>1, <2>4 DEF TypeInv, Planned, Hosts, Underway, journal
  <2> QED
    BY <2>2, <2>3, <2>5 DEF TypeInv
<1>2. CASE SlotTaken(h) \/ CannotPay(h) \/ Refused(h)
  <2>1. UNCHANGED <<world, journal, history>> /\ End(h)
    BY <1>2 DEF SlotTaken, CannotPay, Refused
  <2>2. WorldOK' /\ JournalOK' /\ HistoryOK'
    BY <2>1 DEF TypeInv, WorldOK, JournalOK, HistoryOK, world, journal, history
  <2>3. RunOK' /\ Planned'
    BY <2>1, EndRun DEF journal
  <2> QED
    BY <2>2, <2>3 DEF TypeInv
<1>3. CASE ReadNonce(h)
  <2>1. /\ UNCHANGED <<world, journal, pending, recent, history>>
        /\ pc[h] = "slot" /\ nonce[h] < MaxNonce
        /\ pc' = [pc EXCEPT ![h] = "epoch"]
        /\ plan' = [plan EXCEPT ![h] = [plan[h] EXCEPT !.nonce = nonce[h] + 1]]
    BY <1>3 DEF ReadNonce
  <2>2. WorldOK' /\ JournalOK' /\ HistoryOK'
    BY <2>1 DEF TypeInv, WorldOK, JournalOK, HistoryOK, world, journal, history
  <2>3. nonce[h] + 1 \in 1..MaxNonce
    BY <2>1, StakeAssumption DEF TypeInv, WorldOK
  <2>4. \A k \in Hosts : pc'[k] = IF k = h THEN "epoch" ELSE pc[k]
    BY <2>1 DEF TypeInv, RunOK
  <2>5. \A k \in Hosts : plan'[k] = IF k = h THEN [plan[h] EXCEPT !.nonce = nonce[h] + 1]
                                   ELSE plan[k]
    BY <2>1 DEF TypeInv, RunOK
  <2>6. (h = "source" => plan'[h] \in Marked)
        /\ (h = "target" => plan'[h] \in Stakes /\ plan'[h].for = plan[h].for)
    BY <2>1, <2>3, <2>5 DEF TypeInv, Planned, Underway, Marked, Sends, Stakes
  <2>7. plan'[h] \in Txs
    BY <2>6, TxKinds DEF Hosts
  <2>8. RunOK'
    BY <2>1, <2>5, <2>7 DEF TypeInv, RunOK, Waits
  <2>9. Planned'
    BY <2>1, <2>4, <2>5, <2>6 DEF TypeInv, Planned, Hosts, Underway, journal
  <2> QED
    BY <2>2, <2>8, <2>9 DEF TypeInv
<1>4. CASE ReadEpoch(h)
  <2>1. /\ UNCHANGED <<world, journal, pending, recent, history>>
        /\ pc[h] = "epoch"
        /\ pc' = [pc EXCEPT ![h] = "submit"]
        /\ plan' = [plan EXCEPT ![h] = [plan[h] EXCEPT !.epoch = epoch]]
    BY <1>4 DEF ReadEpoch
  <2>2. WorldOK' /\ JournalOK' /\ HistoryOK'
    BY <2>1 DEF TypeInv, WorldOK, JournalOK, HistoryOK, world, journal, history
  <2>3. epoch \in 1..MaxEpoch
    BY DEF TypeInv, WorldOK
  <2>4. \A k \in Hosts : pc'[k] = IF k = h THEN "submit" ELSE pc[k]
    BY <2>1 DEF TypeInv, RunOK
  <2>5. \A k \in Hosts : plan'[k] = IF k = h THEN [plan[h] EXCEPT !.epoch = epoch]
                                   ELSE plan[k]
    BY <2>1 DEF TypeInv, RunOK
  <2>6. (h = "source" => plan'[h] \in Marked)
        /\ (h = "target" => plan'[h] \in Stakes /\ plan'[h].for = plan[h].for)
    BY <2>1, <2>3, <2>5 DEF TypeInv, Planned, Underway, Marked, Sends, Stakes
  <2>7. plan'[h] \in Txs
    BY <2>6, TxKinds DEF Hosts
  <2>8. RunOK'
    BY <2>1, <2>5, <2>7 DEF TypeInv, RunOK, Waits
  <2>9. Planned'
    BY <2>1, <2>4, <2>5, <2>6 DEF TypeInv, Planned, Hosts, Underway, journal
  <2> QED
    BY <2>2, <2>8, <2>9 DEF TypeInv
<1>5. CASE Submit(h)
  <2>1. PICK f \in 1..MaxFees :
          /\ pool' = [pool EXCEPT ![h] = @ \cup {[plan[h] EXCEPT !.fee = f]}]
          /\ sent' = sent \cup {[plan[h] EXCEPT !.fee = f]}
          /\ plan' = [plan EXCEPT ![h] = [plan[h] EXCEPT !.fee = f]]
    BY <1>5 DEF Submit, SentAs
  <2>2. /\ UNCHANGED <<hosts, epoch, nonce, mined, funds, journal, pending, recent, history>>
        /\ pc[h] = "submit" /\ pc' = [pc EXCEPT ![h] = "sent"]
    BY <1>5 DEF Submit
  <2>3. \A k \in Hosts : pc'[k] = IF k = h THEN "sent" ELSE pc[k]
    BY <2>2 DEF TypeInv, RunOK
  <2>4. \A k \in Hosts : plan'[k] = IF k = h THEN [plan[h] EXCEPT !.fee = f] ELSE plan[k]
    BY <2>1 DEF TypeInv, RunOK
  <2>5. (h = "source" => plan'[h] \in Marked)
        /\ (h = "target" => plan'[h] \in Stakes /\ plan'[h].for = plan[h].for)
    BY <2>2, <2>4 DEF TypeInv, Planned, Underway, Marked, Sends, Stakes
  <2>6. plan'[h] \in Txs /\ plan'[h].by = h
    BY <2>5, TxKinds DEF Hosts
  <2>7. /\ pool' = [pool EXCEPT ![h] = @ \cup {plan'[h]}]
        /\ sent' = sent \cup {plan'[h]}
    BY <2>1, <2>4
  <2>8. WorldOK'
    BY <2>2, <2>6, <2>7 DEF TypeInv, WorldOK
  <2>9. JournalOK' /\ HistoryOK'
    BY <2>2 DEF TypeInv, JournalOK, HistoryOK, journal, history
  <2>10. RunOK'
    BY <2>2, <2>1, <2>4, <2>6 DEF TypeInv, RunOK, Waits
  <2>11. Planned'
    BY <2>2, <2>3, <2>4, <2>5 DEF TypeInv, Planned, Hosts, Underway, journal
  <2> QED
    BY <2>8, <2>9, <2>10, <2>11 DEF TypeInv
<1>6. CASE Abort(h)
  <2>1. /\ UNCHANGED <<world, journal, dropped, faults>> /\ End(h)
        /\ aborts < MaxAborts /\ aborts' = aborts + 1
        /\ unrecorded' = IF pc[h] = "sent" THEN unrecorded \cup {plan[h]} ELSE unrecorded
    BY <1>6 DEF Abort
  <2>2. WorldOK' /\ JournalOK'
    BY <2>1 DEF TypeInv, WorldOK, JournalOK, world, journal
  <2>3. pc[h] = "sent" => plan[h] \in Txs
    BY TxKinds DEF TypeInv, Planned, Underway, Hosts
  <2>4. HistoryOK'
    BY <2>1, <2>3, StakeAssumption DEF TypeInv, HistoryOK
  <2>5. RunOK' /\ Planned'
    BY <2>1, EndRun DEF journal
  <2> QED
    BY <2>2, <2>4, <2>5 DEF TypeInv
<1> QED
  BY <1>1, <1>2, <1>3, <1>4, <1>5, <1>6 DEF Shared

\* The steps of the transfer service keep the types.
LEMMA SourceTypes ==
  ASSUME TypeInv, Source
  PROVE  TypeInv'
<1>1. CASE Shared("source")
  BY <1>1, SharedTypes DEF Hosts
<1>2. CASE SourceReads
  <2>1. /\ UNCHANGED <<world, completed, abandoned, receipts, pending, plan, history>>
        /\ pc["source"] = "recent"
        /\ recent' = [recent EXCEPT !["source"] = Transfers(mined)]
        /\ pc' = [pc EXCEPT !["source"] = IF active' = None THEN "candidate" ELSE "active"]
    BY <1>2 DEF SourceReads
  <2>2. active' \in Actives \cup {None}
    <3>1. CASE active = None /\ Transfers(pending["source"]) # {}
      <4>1. PICK t \in Transfers(pending["source"]) : active' = Active(t)
        BY <1>2, <3>1 DEF SourceReads
      <4>2. t \in Marked
        BY TxKinds DEF TypeInv, RunOK, Hosts
      <4> QED
        BY <4>1, <4>2 DEF Active, Actives
    <3>2. CASE ~(active = None /\ Transfers(pending["source"]) # {})
      BY <1>2, <3>2 DEF SourceReads, TypeInv, JournalOK
    <3> QED
      BY <3>1, <3>2
  <2>3. WorldOK' /\ JournalOK' /\ HistoryOK'
    BY <2>1, <2>2 DEF TypeInv, WorldOK, JournalOK, HistoryOK, world, history
  <2>4. Transfers(mined) \subseteq Marked /\ \A t \in Transfers(mined) : t.by = "source"
    BY TxKinds DEF TypeInv, WorldOK, Transfers
  <2>5. RunOK'
    BY <2>1, <2>4, TxKinds DEF TypeInv, RunOK, Waits, Hosts
  <2>6. \A k \in Hosts : pc'[k] = IF k = "source"
                                 THEN IF active' = None THEN "candidate" ELSE "active"
                                 ELSE pc[k]
    BY <2>1 DEF TypeInv, RunOK
  <2>7. Planned'
    BY <2>1, <2>2, <2>6 DEF TypeInv, Planned, Hosts, Underway
  <2> QED
    BY <2>3, <2>5, <2>7 DEF TypeInv
<1>3. CASE ActiveConfirmed
  <2>1. /\ UNCHANGED <<world, abandoned, receipts, history>>
        /\ completed' = completed \cup {active.tx} /\ active' = None
        /\ pc["source"] = "active" /\ Goto("source", "candidate")
    BY <1>3 DEF ActiveConfirmed
  <2>2. active.tx \in Marked
    BY <2>1 DEF TypeInv, Planned, Actives
  <2>3. WorldOK' /\ JournalOK' /\ HistoryOK'
    BY <2>1, <2>2 DEF TypeInv, WorldOK, JournalOK, HistoryOK, world, history
  <2>4. RunOK' /\ Planned'
    BY <2>1, GoRun DEF Hosts, Waits, Underway
  <2> QED
    BY <2>3, <2>4 DEF TypeInv
<1>4. CASE ActivePending
  <2>1. UNCHANGED <<world, journal, history>> /\ End("source")
    BY <1>4 DEF ActivePending
  <2>2. WorldOK' /\ JournalOK' /\ HistoryOK'
    BY <2>1 DEF TypeInv, WorldOK, JournalOK, HistoryOK, world, journal, history
  <2>3. RunOK' /\ Planned'
    BY <2>1, EndRun DEF journal, Hosts
  <2> QED
    BY <2>2, <2>3 DEF TypeInv
<1>5. CASE ActiveMissing
  <2>1. UNCHANGED <<world, journal, history>> /\ Goto("source", "missing")
        /\ pc["source"] = "active"
    BY <1>5 DEF ActiveMissing
  <2>2. WorldOK' /\ JournalOK' /\ HistoryOK'
    BY <2>1 DEF TypeInv, WorldOK, JournalOK, HistoryOK, world, journal, history
  <2>3. active' \in Actives
    BY <2>1 DEF TypeInv, Planned, journal
  <2>4. RunOK' /\ Planned'
    BY <2>1, <2>3, GoRun DEF journal, Hosts, Waits, Underway
  <2> QED
    BY <2>2, <2>4 DEF TypeInv
<1>6. CASE Retire \/ Retain
  <2>1. /\ UNCHANGED <<world, completed, receipts, history>> /\ End("source")
        /\ pc["source"] = "missing"
        /\ abandoned' \in {abandoned, abandoned \cup {active.tx}}
        /\ active' \in {None, active, [active EXCEPT !.review = TRUE]}
    BY <1>6 DEF Retire, Retain
  <2>2. active \in Actives
    BY <2>1 DEF TypeInv, Planned
  <2>3. active.tx \in Marked /\ active' \in Actives \cup {None}
    BY <2>1, <2>2 DEF Actives
  <2>4. WorldOK' /\ JournalOK' /\ HistoryOK'
    BY <2>1, <2>3 DEF TypeInv, WorldOK, JournalOK, HistoryOK, world, history
  <2>5. RunOK' /\ Planned'
    BY <2>1, EndRun DEF Hosts
  <2> QED
    BY <2>4, <2>5 DEF TypeInv
<1>7. CASE Reconcile
  <2>1. /\ UNCHANGED <<world, active, abandoned, receipts, pending, history>>
        /\ pc["source"] = "candidate"
        /\ completed' = completed \cup recent["source"]
        /\ plan' = [plan EXCEPT !["source"] = NewTransfer]
        /\ pc' = [pc EXCEPT !["source"] = "slot"]
        /\ recent' = [recent EXCEPT !["source"] = {}]
    BY <1>7 DEF Reconcile
  <2>2. WorldOK' /\ JournalOK' /\ HistoryOK'
    BY <2>1 DEF TypeInv, WorldOK, JournalOK, RunOK, HistoryOK, world, history
  <2>3. NewTransfer \in Marked /\ NewTransfer \in Txs
    BY TxKinds
  <2>4. RunOK'
    BY <2>1, <2>3 DEF TypeInv, RunOK, Waits, Hosts
  <2>5. \A k \in Hosts : /\ pc'[k] = IF k = "source" THEN "slot" ELSE pc[k]
                        /\ plan'[k] = IF k = "source" THEN NewTransfer ELSE plan[k]
    BY <2>1 DEF TypeInv, RunOK
  <2>6. Planned'
    BY <2>1, <2>3, <2>5 DEF TypeInv, Planned, Hosts, Underway
  <2> QED
    BY <2>2, <2>4, <2>6 DEF TypeInv
<1>8. CASE JournalTransfer
  <2>1. /\ UNCHANGED <<world, completed, abandoned, receipts, history>> /\ End("source")
        /\ pc["source"] = "sent" /\ active' = Active(plan["source"])
    BY <1>8 DEF JournalTransfer
  <2>2. active' \in Actives
    BY <2>1 DEF TypeInv, Planned, Underway, Active, Actives
  <2>3. WorldOK' /\ JournalOK' /\ HistoryOK'
    BY <2>1, <2>2 DEF TypeInv, WorldOK, JournalOK, HistoryOK, world, history
  <2>4. RunOK' /\ Planned'
    BY <2>1, EndRun DEF Hosts
  <2> QED
    BY <2>3, <2>4 DEF TypeInv
<1> QED
  BY <1>1, <1>2, <1>3, <1>4, <1>5, <1>6, <1>7, <1>8 DEF Source

\* A decision about a receipt keeps their type.
LEMMA ReceiptSet ==
  ASSUME TypeInv, NEW x \in DOMAIN receipts, NEW status \in Statuses,
         NEW stake \in Stakes \cup {None}, SetReceipt(x, status, stake)
  PROVE  /\ DOMAIN receipts' = DOMAIN receipts
         /\ \A y \in DOMAIN receipts : y # x => receipts'[y] = receipts[y]
         /\ receipts'[x] = [status |-> status, stake |-> stake, aged |-> FALSE]
         /\ \A y \in DOMAIN receipts' : receipts'[y] \in Receipts
BY DEF SetReceipt, TypeInv, JournalOK, Receipts

\* A stake the node names for a transfer is one of the target.
LEMMA StakeNamed ==
  ASSUME TypeInv, NEW t \in pending["target"] \cup recent["target"]
  PROVE  t \in Stakes
BY TxFields DEF TypeInv, RunOK, Hosts

\* A receipt decided in a run that ends, or looked up while it goes on.
LEMMA ReceiptDecided ==
  ASSUME TypeInv, NEW x \in DOMAIN receipts, NEW status \in Statuses,
         NEW stake \in Stakes \cup {None}, SetReceipt(x, status, stake),
         UNCHANGED <<world, active, completed, abandoned, history>>,
         End("target") \/ UNCHANGED run
  PROVE  TypeInv'
<1>1. /\ DOMAIN receipts' = DOMAIN receipts
      /\ \A y \in DOMAIN receipts' : receipts'[y] \in Receipts
  BY ReceiptSet
<1>2. WorldOK' /\ JournalOK' /\ HistoryOK'
  BY <1>1 DEF TypeInv, WorldOK, JournalOK, HistoryOK, world, history
<1>3. CASE End("target")
  <2>1. RunOK' /\ Planned'
    BY <1>1, <1>3, EndRun DEF Hosts
  <2> QED
    BY <1>2, <2>1 DEF TypeInv
<1>4. CASE UNCHANGED run
  <2>1. RunOK' /\ Planned'
    BY <1>1, <1>4 DEF TypeInv, RunOK, Planned, run
  <2> QED
    BY <1>2, <2>1 DEF TypeInv
<1> QED
  BY <1>3, <1>4

\* The steps of the stake service keep the types.
LEMMA TargetTypes ==
  ASSUME TypeInv, Target
  PROVE  TypeInv'
<1>1. CASE Shared("target")
  BY <1>1, SharedTypes DEF Hosts
<1>2. CASE TargetReads
  <2>1. /\ UNCHANGED <<world, active, completed, abandoned, pending, plan, history>>
        /\ pc["target"] = "recent"
        /\ recent' = [recent EXCEPT !["target"] = {t \in mined : t.by = "target"}]
        /\ pc' = [pc EXCEPT !["target"] = "submitted"]
        /\ receipts' = [x \in DOMAIN receipts \cup Transfers(mined) |->
             IF x \in DOMAIN receipts THEN receipts[x]
             ELSE [status |-> "waiting", stake |-> None, aged |-> FALSE]]
    BY <1>2 DEF TargetReads
  <2>2. /\ DOMAIN receipts' \subseteq Marked /\ DOMAIN receipts \subseteq DOMAIN receipts'
        /\ \A x \in DOMAIN receipts' : receipts'[x] \in Receipts
    BY <2>1, TxKinds DEF TypeInv, WorldOK, JournalOK, Receipts, Statuses
  <2>3. WorldOK' /\ JournalOK' /\ HistoryOK'
    BY <2>1, <2>2 DEF TypeInv, WorldOK, JournalOK, HistoryOK, world, history
  <2>4. RunOK'
    BY <2>1 DEF TypeInv, WorldOK, RunOK, Waits, Hosts
  <2>5. \A k \in Hosts : pc'[k] = IF k = "target" THEN "submitted" ELSE pc[k]
    BY <2>1 DEF TypeInv, RunOK
  <2>6. Planned'
    BY <2>1, <2>2, <2>5 DEF TypeInv, Planned, Hosts, Underway
  <2> QED
    BY <2>3, <2>4, <2>6 DEF TypeInv
<1>3. CASE StakeConfirmed \/ StakeMissing
  <2>1. PICK x \in Having("submitted"), status \in {"completed", "needs_review"} :
          SetReceipt(x, status, receipts[x].stake)
    BY <1>3 DEF StakeConfirmed, StakeMissing
  <2>2. x \in DOMAIN receipts /\ receipts[x].stake \in Stakes \cup {None}
    BY <2>1 DEF Having, TypeInv, JournalOK, Receipts
  <2> QED
    BY <1>3, <2>1, <2>2, ReceiptDecided DEF StakeConfirmed, StakeMissing, Statuses
<1>4. CASE StakesLookedUp
  <2>1. UNCHANGED <<world, journal, history>> /\ (Goto("target", "candidate") \/ End("target"))
    BY <1>4 DEF StakesLookedUp
  <2>2. WorldOK' /\ JournalOK' /\ HistoryOK'
    BY <2>1 DEF TypeInv, WorldOK, JournalOK, HistoryOK, world, journal, history
  <2>3. RunOK' /\ Planned'
    BY <2>1, EndRun, GoRun DEF journal, Hosts, Waits, Underway
  <2> QED
    BY <2>2, <2>3 DEF TypeInv
<1>5. CASE NoCandidate
  <2>1. UNCHANGED <<world, journal, history>> /\ End("target")
    BY <1>5 DEF NoCandidate
  <2>2. WorldOK' /\ JournalOK' /\ HistoryOK'
    BY <2>1 DEF TypeInv, WorldOK, JournalOK, HistoryOK, world, journal, history
  <2>3. RunOK' /\ Planned'
    BY <2>1, EndRun DEF journal, Hosts
  <2> QED
    BY <2>2, <2>3 DEF TypeInv
<1>6. CASE AdoptPending \/ AdoptRecent
  <2>1. PICK x \in Candidates, t \in pending["target"] \cup recent["target"],
             status \in {"submitted", "completed"} : SetReceipt(x, status, t)
    BY <1>6 DEF AdoptPending, AdoptRecent
  <2>2. x \in DOMAIN receipts /\ t \in Stakes
    BY StakeNamed DEF Candidates, Having
  <2> QED
    BY <1>6, <2>1, <2>2, ReceiptDecided DEF AdoptPending, AdoptRecent, Statuses
<1>7. CASE NewStake
  <2> DEFINE stake(x) == [by |-> "target", for |-> x, epoch |-> 1, nonce |-> 1, fee |-> 1]
  <2>1. PICK x \in Candidates : plan' = [plan EXCEPT !["target"] = stake(x)]
    BY <1>7 DEF NewStake
  <2>2. /\ UNCHANGED <<world, journal, pending, history>>
        /\ pc' = [pc EXCEPT !["target"] = "slot"]
        /\ recent' = [recent EXCEPT !["target"] = {}]
    BY <1>7 DEF NewStake
  <2>3. x \in DOMAIN receipts /\ stake(x) \in Stakes /\ stake(x).for = x
    BY StakeAssumption DEF Candidates, Having, TypeInv, JournalOK, Marked, Stakes
  <2>4. stake(x) \in Txs
    BY <2>3, TxKinds
  <2> HIDE DEF stake
  <2>5. WorldOK' /\ JournalOK' /\ HistoryOK'
    BY <2>2 DEF TypeInv, WorldOK, JournalOK, HistoryOK, world, journal, history
  <2>6. RunOK'
    BY <2>1, <2>2, <2>4 DEF TypeInv, RunOK, Waits, Hosts
  <2>7. \A k \in Hosts : /\ pc'[k] = IF k = "target" THEN "slot" ELSE pc[k]
                        /\ plan'[k] = IF k = "target" THEN stake(x) ELSE plan[k]
    BY <2>1, <2>2 DEF TypeInv, RunOK
  <2>8. Planned'
    BY <2>2, <2>3, <2>7 DEF TypeInv, Planned, Hosts, Underway, journal
  <2> QED
    BY <2>5, <2>6, <2>8 DEF TypeInv
<1>8. CASE JournalStake
  <2>1. /\ pc["target"] = "sent"
        /\ SetReceipt(plan["target"].for, "submitted", plan["target"]) /\ End("target")
        /\ UNCHANGED <<world, active, completed, abandoned, history>>
    BY <1>8 DEF JournalStake
  <2>2. plan["target"] \in Stakes /\ plan["target"].for \in DOMAIN receipts
    BY <2>1 DEF TypeInv, Planned, Underway
  <2> QED
    BY <2>1, <2>2, ReceiptDecided DEF Statuses
<1> QED
  BY <1>1, <1>2, <1>3, <1>4, <1>5, <1>6, <1>7, <1>8 DEF Target

\* Blocks, faults and the user keep the types.
LEMMA NetworkTypes ==
  ASSUME TypeInv, Network
  PROVE  TypeInv'
<1>1. ASSUME UNCHANGED <<journal, run>>, WorldOK', HistoryOK' PROVE TypeInv'
  BY <1>1 DEF TypeInv, JournalOK, RunOK, Planned, journal, run
<1>2. ASSUME Fault PROVE faults' \in Nat
  BY <1>2 DEF Fault, TypeInv, HistoryOK
<1>3. ASSUME NEW t \in sent, Mine(t) PROVE TypeInv'
  <2>1. t.by \in Hosts /\ t.nonce \in 1..MaxNonce
    BY TxFields DEF TypeInv, WorldOK
  <2>2. nonce[t.by] \in 0..MaxNonce /\ nonce[t.by] + 1 = t.nonce
    BY <1>3, <2>1 DEF Mine, TypeInv, WorldOK
  <2>3. nonce' \in [Hosts -> 0..MaxNonce]
    BY <1>3, <2>1, <2>2, StakeAssumption DEF Mine, TypeInv, WorldOK
  <2>4. funds' \in [Hosts -> Nat]
    <3>1. funds \in [Hosts -> Nat]
      BY DEF TypeInv, WorldOK
    <3>2. PICK cost \in Costs(t) :
            funds' = [h \in Hosts |-> CASE h = t.by -> Less(funds[h], cost)
                                       [] h # t.by /\ Transfers({t}) # {} -> funds[h] + 1
                                       [] OTHER -> funds[h]]
      BY <1>3 DEF Mine
    <3>3. cost \in Nat
      BY <3>1, <2>1 DEF Costs
    <3>4. \A h \in Hosts : Less(funds[h], cost) \in Nat
      BY <3>1, <3>3 DEF Less
    <3> QED
      BY <3>1, <3>2, <3>4
  <2>5. /\ pool' \in [Hosts -> SUBSET Txs]
        /\ \A h \in Hosts : \A u \in pool'[h] : u.by = h
    BY <1>3, <2>1 DEF Mine, TypeInv, WorldOK
  <2>6. WorldOK'
    BY <1>3, <2>3, <2>4, <2>5 DEF Mine, TypeInv, WorldOK
  <2> QED
    BY <1>1, <1>3, <2>6 DEF Mine, TypeInv, HistoryOK, history
<1>4. ASSUME NEW h \in Hosts, Drop(h) PROVE TypeInv'
  <2>1. WorldOK'
    BY <1>4 DEF Drop, TypeInv, WorldOK
  <2>2. HistoryOK'
    BY <1>2, <1>4 DEF Drop, TypeInv, WorldOK, HistoryOK
  <2> QED
    BY <1>1, <1>4, <2>1, <2>2 DEF Drop
<1>5. ASSUME NEW h \in Hosts, ManualTx(h) PROVE TypeInv'
  <2> DEFINE tx(n) == [by |-> h, for |-> None, epoch |-> epoch, nonce |-> n, fee |-> 1]
  <2>1. PICK n \in (nonce[h] + 1..MaxNonce) :
          /\ pool' = [pool EXCEPT ![h] = @ \cup {tx(n)}]
          /\ sent' = sent \cup {tx(n)}
    BY <1>5 DEF ManualTx
  <2>2. n \in 1..MaxNonce /\ epoch \in 1..MaxEpoch
    BY StakeAssumption DEF TypeInv, WorldOK
  <2>3. tx(n) \in Txs /\ tx(n).by = h
    BY <2>2, StakeAssumption DEF Txs, Sends, Stakes, Hosts
  <2> HIDE DEF tx
  <2>4. WorldOK'
    BY <1>5, <2>1, <2>3 DEF ManualTx, TypeInv, WorldOK
  <2>5. HistoryOK'
    BY <1>2, <1>5 DEF ManualTx, TypeInv, HistoryOK
  <2> QED
    BY <1>1, <1>5, <2>4, <2>5 DEF ManualTx
<1>6. CASE NewEpoch
  <2>1. epoch' \in 1..MaxEpoch
    BY <1>6, StakeAssumption DEF NewEpoch, TypeInv, WorldOK
  <2>2. WorldOK'
    BY <1>6, <2>1, StakeAssumption DEF NewEpoch, TypeInv, WorldOK
  <2>3. HistoryOK'
    BY <1>2, <1>6 DEF NewEpoch, TypeInv, HistoryOK
  <2> QED
    BY <1>1, <1>6, <2>2, <2>3 DEF NewEpoch
<1> QED
  BY <1>3, <1>4, <1>5, <1>6 DEF Network

\* Every step keeps the types.
LEMMA TypeStep == TypeInv /\ [Next]_vars => TypeInv'
<1> SUFFICES ASSUME TypeInv, [Next]_vars PROVE TypeInv'
  OBVIOUS
<1>1. CASE AgeActive
  <2>1. UNCHANGED <<world, completed, abandoned, receipts, run, history>>
        /\ pc["source"] = "idle" /\ active # None /\ active' = [active EXCEPT !.aged = TRUE]
    BY <1>1 DEF AgeActive
  <2>2. active' \in Actives
    BY <2>1 DEF TypeInv, JournalOK, Actives
  <2> QED
    BY <2>1, <2>2 DEF TypeInv, WorldOK, JournalOK, RunOK, HistoryOK, Planned, world, run,
       history
<1>2. CASE AgeReceipt
  <2>1. PICK x \in DOMAIN receipts : receipts' = [receipts EXCEPT ![x].aged = TRUE]
    BY <1>2 DEF AgeReceipt, Having
  <2>2. UNCHANGED <<world, active, completed, abandoned, run, history>>
    BY <1>2 DEF AgeReceipt
  <2>3. /\ DOMAIN receipts' = DOMAIN receipts
        /\ \A y \in DOMAIN receipts' : receipts'[y] \in Receipts
    BY <2>1 DEF TypeInv, JournalOK, Receipts
  <2> QED
    BY <2>2, <2>3 DEF TypeInv, WorldOK, JournalOK, RunOK, HistoryOK, Planned, world, run,
       history
<1>3. CASE UNCHANGED vars
  BY <1>3 DEF TypeInv, WorldOK, JournalOK, RunOK, HistoryOK, Planned, vars
<1> QED
  BY <1>1, <1>2, <1>3, SharedTypes, SourceTypes, TargetTypes, NetworkTypes DEF Next

\* The journals and runs start empty, after transfers of the past.
LEMMA TypeInit == Init => TypeInv
<1> SUFFICES ASSUME Init PROVE TypeInv
  OBVIOUS
<1>1. PICK setup \in Setups :
        /\ hosts = setup.hosts /\ faults = setup.faults /\ funds = setup.funds
        /\ nonce = [h \in Hosts |-> IF h = "source" THEN setup.past ELSE 0]
        /\ mined = {[NewTransfer EXCEPT !.nonce = n] : n \in 1..setup.past}
  BY DEF Init
<1>2. /\ setup.hosts \subseteq Hosts /\ setup.faults \in Nat
      /\ setup.funds \in [Hosts -> Nat] /\ setup.past \in 0..MaxNonce
  BY StakeAssumption
<1>3. mined \subseteq Marked
  BY <1>1, <1>2, StakeAssumption DEF NewTransfer, Marked, Sends
<1>4. WorldOK
  BY <1>1, <1>2, <1>3, TxKinds, StakeAssumption DEF Init, WorldOK
<1>5. JournalOK /\ RunOK /\ HistoryOK /\ Planned
  BY <1>1, <1>2, StakeAssumption
  DEF Init, JournalOK, RunOK, HistoryOK, Planned, Waits, Hosts, Underway
<1> QED
  BY <1>4, <1>5 DEF TypeInv

\* The types of the chain, of both journals and of both runs.
THEOREM TypesKept == Spec => []TypeOK
<1>1. TypeInv => TypeOK
  BY DEF TypeInv, WorldOK, JournalOK, RunOK, HistoryOK, TypeOK
<1> QED
  BY <1>1, TypeInit, TypeStep, PTL DEF Spec

-----------------------------------------------------------------------------
(* What a step can do to the chain.                                         *)

\* The scripts do nothing to the chain but send.
Aside == UNCHANGED <<epoch, nonce, pool, sent, mined, dropped>> /\ unrecorded \subseteq unrecorded'

\* The run on the host of the identity and its journal are where they were.
TargetSame ==
  /\ pc'["target"] = pc["target"] /\ pending'["target"] = pending["target"]
  /\ recent'["target"] = recent["target"] /\ plan'["target"] = plan["target"]
  /\ DOMAIN receipts' = DOMAIN receipts
  /\ \A x \in DOMAIN receipts : receipts'[x].status = receipts[x].status

\* A run on the other host that does not send disturbs nothing.
LEMMA SourceAside ==
  ASSUME TypeInv, Source, ~Submit("source")
  PROVE  Aside /\ TargetSame
<1>1. UNCHANGED <<world, history, receipts>>
  BY DEF Source, Shared, Begin, SlotTaken, ReadNonce, ReadEpoch, CannotPay, Refused,
     SourceReads, ActiveConfirmed, ActivePending, ActiveMissing, Retire, Retain, Reconcile,
     JournalTransfer, journal
<1>2. /\ pc'["target"] = pc["target"] /\ pending'["target"] = pending["target"]
      /\ recent'["target"] = recent["target"] /\ plan'["target"] = plan["target"]
  BY DEF Source, Shared, Begin, SlotTaken, ReadNonce, ReadEpoch, CannotPay, Refused,
     SourceReads, ActiveConfirmed, ActivePending, ActiveMissing, Retire, Retain, Reconcile,
     JournalTransfer, End, Goto, TypeInv, RunOK, Hosts
<1> QED
  BY <1>1, <1>2 DEF Aside, TargetSame, world, history

\* The network disturbs no run and no journal.
LEMMA NetworkApart ==
  ASSUME Network
  PROVE  TargetSame /\ UNCHANGED <<abandoned, unrecorded>>
<1>1. UNCHANGED <<journal, run, unrecorded>>
  BY DEF Network, Mine, NewEpoch, Drop, ManualTx, history
<1> QED
  BY <1>1 DEF TargetSame, journal, run

\* Sending leaves the journals and what else the run knows.
LEMMA SubmitKind ==
  ASSUME TypeInv, NEW h \in Hosts, Submit(h)
  PROVE  /\ \E t \in Txs : /\ t.by = h /\ t.for = plan[h].for
                          /\ t.epoch = epoch /\ t.nonce > nonce[h]
                          /\ sent' = sent \cup {t}
                          /\ pool' = [pool EXCEPT ![h] = @ \cup {t}]
                          /\ plan' = [plan EXCEPT ![h] = t]
         /\ pc[h] = "submit" /\ pc' = [pc EXCEPT ![h] = "sent"]
         /\ UNCHANGED <<epoch, nonce, mined, journal, pending, recent, history>>
<1>1. PICK f \in 1..MaxFees :
        /\ pool' = [pool EXCEPT ![h] = @ \cup {[plan[h] EXCEPT !.fee = f]}]
        /\ sent' = sent \cup {[plan[h] EXCEPT !.fee = f]}
        /\ plan' = [plan EXCEPT ![h] = [plan[h] EXCEPT !.fee = f]]
  BY DEF Submit, SentAs
<1>2. /\ pc[h] = "submit" /\ pc' = [pc EXCEPT ![h] = "sent"]
      /\ plan[h].epoch = epoch /\ plan[h].nonce > nonce[h]
      /\ UNCHANGED <<epoch, nonce, mined, journal, pending, recent, history>>
  BY DEF Submit
<1>3. /\ plan[h] \in Txs /\ plan[h].by = h
      /\ h = "source" => plan[h] \in Sends
      /\ h = "target" => plan[h] \in Stakes
  BY <1>2, TxKinds DEF TypeInv, Planned, Underway, Hosts
<1>4. [plan[h] EXCEPT !.fee = f] \in Txs
  BY <1>3 DEF Sends, Stakes, Txs, Hosts
<1>5. LET t == [plan[h] EXCEPT !.fee = f] IN
        t.by = h /\ t.for = plan[h].for /\ t.epoch = epoch /\ t.nonce > nonce[h]
  BY <1>2, <1>3 DEF Sends, Stakes, Hosts
<1> QED
  BY <1>1, <1>2, <1>4, <1>5

\* The stake service does nothing to the chain but send.
LEMMA TargetAside ==
  ASSUME Target \/ \E h \in Hosts : Abort(h), ~Submit("target")
  PROVE  Aside /\ UNCHANGED abandoned
<1>1. CASE Target
  <2>1. UNCHANGED <<world, history, abandoned>>
    BY <1>1 DEF Target, Shared, Begin, SlotTaken, ReadNonce, ReadEpoch, CannotPay, Refused,
       TargetReads, StakeConfirmed, StakeMissing, StakesLookedUp, NoCandidate, AdoptPending,
       AdoptRecent, NewStake, JournalStake, journal
  <2> QED
    BY <2>1 DEF Aside, world, history
<1>2. ASSUME NEW h \in Hosts, Abort(h) PROVE Aside /\ UNCHANGED abandoned
  BY <1>2 DEF Abort, Aside, world, journal
<1> QED
  BY <1>1, <1>2

\* A step of a script, the network or neither.
LEMMA StepKinds ==
  ASSUME TypeInv, [Next]_vars
  PROVE  Aside \/ (\E h \in Hosts : Submit(h)) \/ Network
<1>1. CASE AgeActive \/ AgeReceipt \/ UNCHANGED vars
  BY <1>1 DEF AgeActive, AgeReceipt, Aside, vars, world, history
<1> QED
  BY <1>1, SourceAside, TargetAside DEF Next, Hosts

\* What no block can hold any more, although none has held it.
Spent(t) == Invalidated(t) /\ t \notin mined

\* Nothing a block cannot hold becomes one it can hold, or is held.
LEMMA SpentStays ==
  ASSUME TypeInv, [Next]_vars, NEW t \in Txs, Invalidated(t)
  PROVE  Invalidated(t)' /\ (t \in mined' => t \in mined)
<1>1. t.by \in Hosts /\ t.epoch \in Nat /\ t.nonce \in Nat
  BY TxFields
<1>2. epoch \in Nat /\ nonce[t.by] \in Nat
  BY <1>1, StakeAssumption DEF TypeInv, WorldOK
<1>3. CASE UNCHANGED <<epoch, nonce, mined>>
  BY <1>3 DEF Invalidated
<1>4. ASSUME NEW u \in sent, Mine(u)
      PROVE  Invalidated(t)' /\ (t \in mined' => t \in mined)
  <2>1. u \in Txs /\ u.by \in Hosts /\ nonce[u.by] \in Nat
    BY TxFields, StakeAssumption DEF TypeInv, WorldOK
  <2>2. /\ epoch' = epoch /\ mined' = mined \cup {u}
        /\ u.epoch = epoch /\ u.nonce = nonce[u.by] + 1
        /\ nonce'[t.by] = IF t.by = u.by THEN nonce[t.by] + 1 ELSE nonce[t.by]
    BY <1>1, <1>4, <2>1 DEF Mine, TypeInv, WorldOK
  <2>3. t # u
    BY <1>1, <1>2, <2>2 DEF Invalidated
  <2>4. Invalidated(t)'
    BY <1>1, <1>2, <2>2 DEF Invalidated
  <2> QED
    BY <2>2, <2>3, <2>4
<1>5. CASE NewEpoch
  BY <1>1, <1>2, <1>5 DEF NewEpoch, Invalidated
<1>6. CASE \E h \in Hosts : Drop(h) \/ ManualTx(h)
  BY <1>3, <1>6 DEF Drop, ManualTx
<1>7. CASE Aside \/ \E h \in Hosts : Submit(h)
  BY <1>3, <1>7 DEF Aside, Submit
<1> QED
  BY <1>4, <1>5, <1>6, <1>7, StepKinds DEF Network

-----------------------------------------------------------------------------
(* Archived transfers.                                                      *)

ArchiveInv == TypeInv /\ \A t \in abandoned : Invalidated(t)

\* Only what no block can hold is archived.
LEMMA ArchiveStep == ArchiveInv /\ [Next]_vars => ArchiveInv'
<1> SUFFICES ASSUME ArchiveInv, [Next]_vars,
                    NEW t \in abandoned'
             PROVE  Invalidated(t)'
  BY TypeStep DEF ArchiveInv
<1>1. abandoned' = abandoned \/ (Retire /\ abandoned' = abandoned \cup {active.tx})
  <2>1. CASE Source
    BY <2>1 DEF Source, Shared, Begin, SlotTaken, ReadNonce, ReadEpoch, CannotPay, Submit,
       Refused, SourceReads, ActiveConfirmed, ActivePending, ActiveMissing, Retire, Retain,
       Reconcile, JournalTransfer, journal
  <2>2. CASE Target \/ \E h \in Hosts : Abort(h)
    BY <2>2, TargetAside DEF Submit, journal
  <2>3. CASE Network
    BY <2>3, NetworkApart
  <2>4. CASE AgeActive \/ AgeReceipt \/ UNCHANGED vars
    BY <2>4 DEF AgeActive, AgeReceipt, vars
  <2> QED
    BY <2>1, <2>2, <2>3, <2>4 DEF Next
<1>2. t \in Txs /\ Invalidated(t)
  <2>1. CASE t \in abandoned
    BY <2>1, TxKinds DEF ArchiveInv, TypeInv, JournalOK
  <2>2. CASE t \notin abandoned
    <3>1. Retire /\ t = active.tx
      BY <1>1, <2>2
    <3> QED
      BY <3>1, TxKinds DEF Retire, ArchiveInv, TypeInv, Planned, Actives
  <2> QED
    BY <2>1, <2>2
<1> QED
  BY <1>2, SpentStays DEF ArchiveInv

\* An archived transfer is not executed afterwards.
THEOREM ArchivedNeverExecuted == Spec => ArchivedStaysOut
<1>1. Init => ArchiveInv
  BY TypeInit DEF ArchiveInv, Init
<1>2. ArchiveInv /\ [Next]_vars => [\A t \in abandoned : t \in mined' => t \in mined]_vars
  <2> SUFFICES ASSUME ArchiveInv, [Next]_vars, NEW t \in abandoned, t \in mined'
               PROVE  t \in mined
    OBVIOUS
  <2>1. t \in Txs /\ Invalidated(t)
    BY TxKinds DEF ArchiveInv, TypeInv, JournalOK
  <2> QED
    BY <2>1, SpentStays DEF ArchiveInv
<1> QED
  BY <1>1, <1>2, ArchiveStep, PTL DEF Spec, ArchivedStaysOut

-----------------------------------------------------------------------------
(* Stakes.                                                                  *)

\* The stakes sent for a transfer, and whether one of them is beyond the journal
\* and the node.
Tried(x)   == StakesFor(x, sent)
Covered(x) == Lost(Tried(x))

\* A transfer the journal has not decided may be staked.
Undecided(x) == x \notin DOMAIN receipts \/ receipts[x].status = "waiting"

\* What is sent is pending, confirmed, forgotten or past its nonce or epoch.
Located ==
  \A t \in sent :
    /\ t.epoch <= epoch
    /\ t \in pool[t.by] \/ t \in mined \/ t \in dropped \/ Invalidated(t)

\* Only confirmed transfers are known to the journal and staked.
OnChain == DOMAIN receipts \subseteq mined /\ \A x \in Sends : Tried(x) # {} => x \in mined

\* A stake is journaled, is about to be, or its run was cut off.
Recorded ==
  \A x \in Sends : \A t \in Tried(x) :
    t \in unrecorded \/ (pc["target"] = "sent" /\ plan["target"] = t) \/ ~Undecided(x)

\* What a run knows of the stakes of a transfer it may choose.
Seen(t) ==
  \/ t \in pending["target"]
  \/ IF pc["target"] = "recent" THEN t \in mined ELSE t \in recent["target"]
  \/ Spent(t)

Informed ==
  pc["target"] \in {"recent", "submitted", "candidate"} =>
    \A x \in Sends : Undecided(x) => Covered(x) \/ \A t \in Tried(x) : Seen(t)

\* Once the run has chosen, no earlier stake for the transfer can be executed.
Cleared ==
  pc["target"] \in {"slot", "epoch", "submit"} =>
    LET x == plan["target"].for IN Covered(x) \/ \A t \in Tried(x) : Spent(t)

\* One stake for a transfer can be executed, or has been.
Single ==
  \A x \in Sends :
    Covered(x) \/ \A t, u \in Tried(x) : Spent(t) \/ Spent(u) \/ t = u

StakeInv == TypeInv /\ Located /\ OnChain /\ Recorded /\ Informed /\ Cleared /\ Single

\* The place of what is sent changes with the chain.
LEMMA LocatedStep ==
  ASSUME TypeInv, Located, [Next]_vars
  PROVE  Located'
<1>0. \A t \in sent : t \in Txs /\ t.by \in Hosts /\ t.epoch \in Nat /\ t.nonce \in Nat
  BY TxFields DEF TypeInv, WorldOK
<1>1. epoch \in Nat /\ nonce \in [Hosts -> Nat]
  BY StakeAssumption DEF TypeInv, WorldOK
<1>2. CASE Aside
  BY <1>2 DEF Aside, Located, Invalidated
<1>3. ASSUME NEW h \in Hosts, Submit(h) PROVE Located'
  <2>1. PICK t \in Txs :
          /\ t.by = h /\ t.epoch = epoch /\ sent' = sent \cup {t}
          /\ pool' = [pool EXCEPT ![h] = @ \cup {t}]
          /\ UNCHANGED <<epoch, nonce, mined, history>>
    BY <1>3, SubmitKind
  <2>2. t \in pool'[t.by] /\ \A k \in Hosts : pool[k] \subseteq pool'[k]
    BY <2>1 DEF TypeInv, WorldOK
  <2> QED
    BY <1>0, <1>1, <2>1, <2>2 DEF Located, Invalidated, history
<1>4. ASSUME NEW u \in sent, Mine(u) PROVE Located'
  <2>1. /\ epoch' = epoch /\ mined' = mined \cup {u}
        /\ u.epoch = epoch /\ u.nonce = nonce[u.by] + 1
        /\ nonce' = [nonce EXCEPT ![u.by] = nonce[u.by] + 1]
        /\ pool' = [pool EXCEPT ![u.by] = {t \in pool[u.by] : t.nonce > u.nonce}]
        /\ UNCHANGED <<sent, dropped>>
    BY <1>4 DEF Mine, history
  <2> SUFFICES ASSUME NEW t \in sent
               PROVE  /\ t.epoch <= epoch
                      /\ t \in pool'[t.by] \/ t \in mined' \/ t \in dropped \/ Invalidated(t)'
    BY <2>1 DEF Located
  <2>2. t.epoch <= epoch
    BY DEF Located
  <2>3. Invalidated(t) => Invalidated(t)'
    BY <1>0, SpentStays
  <2>4. ASSUME t \in pool[t.by], t \notin pool'[t.by] PROVE Invalidated(t)'
    <3>1. t.by = u.by /\ ~(t.nonce > u.nonce)
      BY <1>0, <2>1, <2>4 DEF TypeInv, WorldOK
    <3>2. nonce'[t.by] = u.nonce
      BY <1>0, <2>1, <3>1 DEF TypeInv, WorldOK
    <3>3. t.nonce <= u.nonce
      BY <1>0, <3>1
    <3> QED
      BY <1>0, <1>1, <2>1, <2>2, <3>2, <3>3 DEF Invalidated
  <2> QED
    BY <2>1, <2>2, <2>3, <2>4 DEF Located
<1>5. CASE NewEpoch
  BY <1>0, <1>1, <1>5 DEF NewEpoch, Located, Invalidated
<1>6. ASSUME NEW h \in Hosts, Drop(h) PROVE Located'
  BY <1>0, <1>6 DEF Drop, Located, Invalidated, TypeInv, WorldOK
<1>7. ASSUME NEW h \in Hosts, ManualTx(h) PROVE Located'
  <2> DEFINE tx(n) == [by |-> h, for |-> None, epoch |-> epoch, nonce |-> n, fee |-> 1]
  <2>1. PICK n \in (nonce[h] + 1..MaxNonce) :
          /\ pool' = [pool EXCEPT ![h] = @ \cup {tx(n)}]
          /\ sent' = sent \cup {tx(n)}
    BY <1>7 DEF ManualTx
  <2>2. UNCHANGED <<epoch, nonce, mined, dropped>>
    BY <1>7 DEF ManualTx
  <2>3. tx(n).by = h /\ tx(n).epoch = epoch
    OBVIOUS
  <2> HIDE DEF tx
  <2>4. tx(n) \in pool'[h] /\ \A k \in Hosts : pool[k] \subseteq pool'[k]
    BY <2>1 DEF TypeInv, WorldOK
  <2> QED
    BY <1>0, <1>1, <2>1, <2>2, <2>3, <2>4 DEF Located, Invalidated
<1> QED
  BY <1>2, <1>3, <1>4, <1>5, <1>6, <1>7, StepKinds DEF Network

\* What is lost, cut off, forgotten or confirmed stays so, and only the target
\* tries a stake.
LEMMA Growth ==
  ASSUME TypeInv, [Next]_vars
  PROVE  /\ mined \subseteq mined' /\ unrecorded \subseteq unrecorded'
         /\ dropped \subseteq dropped' /\ sent \subseteq sent'
         /\ Submit("target") \/ \A x \in Sends : Tried(x)' = Tried(x)
<1>1. CASE Aside
  BY <1>1 DEF Aside, Tried
<1>2. ASSUME NEW h \in Hosts, Submit(h)
      PROVE  /\ UNCHANGED <<mined, unrecorded, dropped>> /\ sent \subseteq sent'
             /\ h = "source" => \A x \in Sends : Tried(x)' = Tried(x)
  <2>1. PICK t \in Txs : t.by = h /\ sent' = sent \cup {t}
    BY <1>2, SubmitKind
  <2>2. UNCHANGED <<mined, history>>
    BY <1>2, SubmitKind
  <2> QED
    BY <2>1, <2>2 DEF Tried, StakesFor, history
<1>3. CASE Network
  <2>1. /\ mined \subseteq mined' /\ unrecorded' = unrecorded
        /\ dropped \subseteq dropped'
    BY <1>3 DEF Network, Mine, NewEpoch, Drop, ManualTx, history
  <2>2. \/ sent' = sent
        \/ \E t : t.for = None /\ sent' = sent \cup {t}
    BY <1>3 DEF Network, Mine, NewEpoch, Drop, ManualTx
  <2> QED
    BY <2>1, <2>2, NoneAssumption DEF Tried, StakesFor
<1> QED
  BY <1>1, <1>2, <1>3, StepKinds DEF Aside, Hosts

\* Spent stakes and lost ones stay what they are.
LEMMA StaySpent ==
  ASSUME TypeInv, [Next]_vars
  PROVE  /\ \A t \in sent : Spent(t) => Spent(t)'
         /\ \A x \in Sends : Covered(x) => Covered(x)'
<1>1. \A t \in sent : Spent(t) => Spent(t)'
  BY SpentStays DEF Spent, TypeInv, WorldOK
<1>2. \A x \in Sends : Covered(x) => Covered(x)'
  BY Growth DEF Covered, Lost, Tried, StakesFor
<1> QED
  BY <1>1, <1>2

\* Steps that leave the run on the host of the identity and its journal alone.
LEMMA Undisturbed ==
  ASSUME StakeInv, [Next]_vars, TargetSame, \A x \in Sends : Tried(x)' = Tried(x)
  PROVE  OnChain' /\ Recorded' /\ Informed' /\ Cleared' /\ Single'
<1>1. /\ mined \subseteq mined' /\ unrecorded \subseteq unrecorded'
      /\ \A t \in sent : Spent(t) => Spent(t)'
      /\ \A x \in Sends : Covered(x) => Covered(x)'
  BY Growth, StaySpent DEF StakeInv
<1>2. \A x \in Sends : Tried(x) \subseteq sent
  BY DEF Tried, StakesFor
<1>3. \A x \in Sends : Undecided(x)' = Undecided(x)
  BY DEF TargetSame, Undecided
<1>4. OnChain'
  BY <1>1 DEF StakeInv, OnChain, TargetSame
<1>5. Recorded'
  BY <1>1, <1>3 DEF StakeInv, Recorded, TargetSame
<1>6. Informed'
  <2> SUFFICES ASSUME pc["target"] \in {"recent", "submitted", "candidate"},
                      NEW x \in Sends, Undecided(x), ~Covered(x)', NEW t \in Tried(x)
               PROVE  Seen(t)'
    BY <1>3 DEF Informed, TargetSame
  <2>1. Seen(t)
    BY <1>1 DEF StakeInv, Informed
  <2> QED
    BY <1>1, <1>2, <2>1 DEF Seen, TargetSame
<1>7. Cleared'
  <2> SUFFICES ASSUME pc["target"] \in {"slot", "epoch", "submit"},
                      ~Covered(plan["target"].for)', NEW t \in Tried(plan["target"].for)'
               PROVE  Spent(t)'
    BY DEF Cleared, TargetSame
  <2>1. plan["target"].for \in Sends
    BY TxKinds DEF StakeInv, TypeInv, JournalOK, Planned, Underway
  <2>2. plan'["target"] = plan["target"]
    BY DEF TargetSame
  <2>3. ~Covered(plan["target"].for) /\ t \in Tried(plan["target"].for)
    BY <1>1, <2>1, <2>2
  <2> QED
    BY <1>1, <1>2, <2>1, <2>3 DEF StakeInv, Cleared
<1>8. Single'
  BY <1>1, <1>2 DEF StakeInv, Single
<1> QED
  BY <1>4, <1>5, <1>6, <1>7, <1>8

\* A stake is sent when no other for its transfer can be executed.
LEMMA StakeSent ==
  ASSUME StakeInv, [Next]_vars, Submit("target")
  PROVE  OnChain' /\ Recorded' /\ Informed' /\ Cleared' /\ Single'
<1> DEFINE x0 == plan["target"].for
<1>1. PICK t0 \in Txs :
        /\ t0.by = "target" /\ t0.for = x0 /\ sent' = sent \cup {t0}
        /\ plan' = [plan EXCEPT !["target"] = t0]
  BY SubmitKind DEF Hosts, StakeInv
<1>2. /\ pc["target"] = "submit" /\ pc' = [pc EXCEPT !["target"] = "sent"]
      /\ UNCHANGED <<epoch, nonce, mined, journal, pending, recent, history>>
  BY SubmitKind DEF Hosts, StakeInv
<1>3. x0 \in DOMAIN receipts /\ x0 \in Sends
  BY <1>2, TxKinds DEF StakeInv, TypeInv, JournalOK, Planned, Underway
<1>4. pc'["target"] = "sent" /\ plan'["target"] = t0
  BY <1>1, <1>2 DEF StakeInv, TypeInv, RunOK, Hosts
<1>5. \A x \in Sends : Tried(x)' = IF x = x0 THEN Tried(x) \cup {t0} ELSE Tried(x)
  BY <1>1 DEF Tried, StakesFor
<1>6. /\ \A t \in sent : Spent(t) => Spent(t)'
      /\ \A x \in Sends : Covered(x) => Covered(x)'
  BY StaySpent DEF StakeInv
<1>7. UNCHANGED <<receipts, unrecorded, mined>>
  BY <1>2 DEF journal, history
<1>8. \A x \in Sends : Tried(x) \subseteq sent
  BY DEF Tried, StakesFor
<1> HIDE DEF x0
<1>9. OnChain'
  BY <1>3, <1>5, <1>7 DEF StakeInv, OnChain
<1>10. Recorded'
  BY <1>2, <1>4, <1>5, <1>7 DEF StakeInv, Recorded, Undecided
<1>11. Informed' /\ Cleared'
  BY <1>4 DEF Informed, Cleared
<1>12. Single'
  <2> SUFFICES ASSUME NEW x \in Sends, ~Covered(x)', NEW t \in Tried(x)', NEW u \in Tried(x)'
               PROVE  Spent(t)' \/ Spent(u)' \/ t = u
    BY DEF Single
  <2>1. ~Covered(x)
    BY <1>6
  <2>2. CASE x # x0
    BY <1>5, <1>6, <1>8, <2>1, <2>2 DEF StakeInv, Single
  <2>3. CASE x = x0
    <3>1. \A v \in Tried(x) : Spent(v)
      BY <1>2, <2>1, <2>3 DEF StakeInv, Cleared, x0
    <3> QED
      BY <1>5, <1>6, <1>8, <2>3, <3>1
  <2> QED
    BY <2>2, <2>3
<1> QED
  BY <1>9, <1>10, <1>11, <1>12

\* A step of the stake service that does not send: it decides receipts, and what
\* was journaled stays journaled.
LEMMA Decides ==
  ASSUME StakeInv, [Next]_vars, Aside,
         DOMAIN receipts' \subseteq mined,
         \A x \in Sends : Undecided(x)' => Undecided(x),
         \A x \in Sends : pc["target"] = "sent" /\ plan["target"].for = x =>
           plan["target"] \in unrecorded' \/ ~Undecided(x)'
  PROVE  /\ OnChain' /\ Recorded' /\ Single'
         /\ \A x \in Sends : Tried(x)' = Tried(x) /\ (Covered(x) => Covered(x)')
         /\ \A t \in sent : Spent(t)' = Spent(t)
<1>1. \A x \in Sends : Tried(x)' = Tried(x) /\ (Covered(x) => Covered(x)')
  BY StaySpent DEF Aside, Tried, StakeInv
<1>2. \A t \in sent : Spent(t)' = Spent(t)
  BY DEF Aside, Spent, Invalidated
<1>3. \A x \in Sends : \A t \in Tried(x) : t \in sent /\ t.for = x
  BY DEF Tried, StakesFor
<1>4. OnChain'
  BY <1>1 DEF Aside, StakeInv, OnChain
<1>5. Recorded'
  <2> SUFFICES ASSUME NEW x \in Sends, NEW t \in Tried(x), Undecided(x)'
               PROVE  t \in unrecorded'
    BY <1>1 DEF Recorded
  <2>1. t \in unrecorded \/ (pc["target"] = "sent" /\ plan["target"] = t)
    BY DEF StakeInv, Recorded
  <2> QED
    BY <1>3, <2>1 DEF Aside
<1>6. Single'
  BY <1>1, <1>2, <1>3 DEF StakeInv, Single
<1> QED
  BY <1>1, <1>2, <1>4, <1>5, <1>6

\* Nothing is promised of a run that has ended.
LEMMA Ended ==
  ASSUME TypeInv, End("target")
  PROVE  Informed' /\ Cleared'
<1>1. pc'["target"] = "idle"
  BY DEF End, TypeInv, RunOK, Hosts
<1> QED
  BY <1>1 DEF Informed, Cleared

\* A decided receipt is decided for good.
LEMMA ReceiptsStay ==
  ASSUME TypeInv, NEW x \in DOMAIN receipts, NEW status \in Statuses \ {"waiting"},
         NEW stake \in Stakes \cup {None}, SetReceipt(x, status, stake)
  PROVE  /\ DOMAIN receipts' = DOMAIN receipts /\ ~Undecided(x)'
         /\ \A y \in Sends : Undecided(y)' => Undecided(y)
<1>1. /\ DOMAIN receipts' = DOMAIN receipts
      /\ \A y \in DOMAIN receipts : y # x => receipts'[y] = receipts[y]
      /\ receipts'[x] = [status |-> status, stake |-> stake, aged |-> FALSE]
  <2>1. status \in Statuses
    OBVIOUS
  <2> QED
    BY <2>1, ReceiptSet
<1> QED
  BY <1>1 DEF Undecided

\* The mempool and then the blocks show what may still be executed.
LEMMA RunReads ==
  ASSUME StakeInv, [Next]_vars, Begin("target") \/ TargetReads, Aside
  PROVE  OnChain' /\ Recorded' /\ Informed' /\ Cleared' /\ Single'
<1>0. \A x \in Sends : \A t \in Tried(x) : t \in sent /\ t.for = x /\ t.by = "target"
  BY DEF Tried, StakesFor
<1>1. CASE Begin("target")
  <2>1. /\ pc["target"] = "idle" /\ pc'["target"] = "recent"
        /\ pending'["target"] = pool["target"] /\ UNCHANGED receipts
    BY <1>1 DEF Begin, StakeInv, TypeInv, RunOK, Hosts, journal
  <2>2. /\ OnChain' /\ Recorded' /\ Single'
        /\ \A x \in Sends : Tried(x)' = Tried(x) /\ (Covered(x) => Covered(x)')
        /\ \A t \in sent : Spent(t)' = Spent(t)
    BY <2>1, Decides DEF StakeInv, OnChain, Undecided
  <2>3. Informed'
    <3> SUFFICES ASSUME NEW x \in Sends, Undecided(x), ~Covered(x), NEW t \in Tried(x)
                 PROVE  Seen(t)'
      BY <2>1, <2>2 DEF Informed, Undecided
    <3>1. t \in unrecorded
      BY <2>1 DEF StakeInv, Recorded
    <3>2. t \notin dropped
      BY <3>1 DEF Covered, Lost
    <3>3. t \in pool["target"] \/ t \in mined \/ Invalidated(t)
      BY <1>0, <3>2 DEF StakeInv, Located
    <3> QED
      BY <1>0, <2>1, <2>2, <3>3 DEF Seen, Spent, Aside
  <2> QED
    BY <2>1, <2>2, <2>3 DEF Cleared
<1>2. CASE TargetReads
  <2>1. /\ pc["target"] = "recent" /\ pc'["target"] = "submitted"
        /\ pending' = pending
        /\ recent'["target"] = {t \in mined : t.by = "target"}
    BY <1>2 DEF TargetReads, StakeInv, TypeInv, RunOK, Hosts
  <2>2. /\ DOMAIN receipts' = DOMAIN receipts \cup Transfers(mined)
        /\ \A x \in DOMAIN receipts : receipts'[x] = receipts[x]
    BY <1>2 DEF TargetReads
  <2>3. DOMAIN receipts' \subseteq mined /\ \A x \in Sends : Undecided(x)' => Undecided(x)
    BY <2>2 DEF StakeInv, OnChain, Transfers, Undecided
  <2>4. /\ OnChain' /\ Recorded' /\ Single'
        /\ \A x \in Sends : Tried(x)' = Tried(x) /\ (Covered(x) => Covered(x)')
        /\ \A t \in sent : Spent(t)' = Spent(t)
    BY <2>1, <2>3, Decides
  <2>5. Informed'
    <3> SUFFICES ASSUME NEW x \in Sends, Undecided(x), ~Covered(x), NEW t \in Tried(x)
                 PROVE  Seen(t)'
      BY <2>3, <2>4 DEF Informed
    <3>1. Seen(t)
      BY <2>1 DEF StakeInv, Informed
    <3> QED
      BY <1>0, <2>1, <2>4, <3>1 DEF Seen
  <2> QED
    BY <2>1, <2>4, <2>5 DEF Cleared
<1> QED
  BY <1>1, <1>2

\* The other steps of the run on the host of the identity.
LEMMA RunGoes ==
  ASSUME StakeInv, [Next]_vars, Target \/ Abort("target"),
         ~Begin("target"), ~TargetReads, ~Submit("target")
  PROVE  OnChain' /\ Recorded' /\ Informed' /\ Cleared' /\ Single'
<1>1. Aside
  BY TargetAside DEF Hosts
<1>2. TypeInv /\ DOMAIN receipts \subseteq mined
  BY DEF StakeInv, OnChain
<1>3. \A x \in Sends : \A t \in Tried(x) : t \in sent /\ t.for = x /\ t.by = "target"
  BY DEF Tried, StakesFor
<1>4. CASE SlotTaken("target") \/ CannotPay("target") \/ Refused("target") \/ NoCandidate
             \/ Abort("target")
  <2>1. /\ UNCHANGED receipts /\ End("target")
        /\ pc["target"] = "sent" => plan["target"] \in unrecorded'
    BY <1>4 DEF SlotTaken, CannotPay, Refused, NoCandidate, Abort, journal
  <2> QED
    BY <1>1, <1>2, <2>1, Decides, Ended DEF Undecided
<1>5. CASE ReadNonce("target") \/ ReadEpoch("target")
  <2>1. /\ UNCHANGED receipts /\ pc["target"] \in {"slot", "epoch"}
        /\ pc'["target"] \in {"epoch", "submit"}
    BY <1>2, <1>5 DEF ReadNonce, ReadEpoch, TypeInv, RunOK, Hosts, journal
  <2>2. plan["target"] \in Stakes
    BY <1>2, <2>1 DEF TypeInv, Planned, Underway
  <2>3. plan'["target"].for = plan["target"].for
    BY <1>2, <1>5, <2>2 DEF ReadNonce, ReadEpoch, TypeInv, RunOK, Hosts, Stakes
  <2>4. /\ OnChain' /\ Recorded' /\ Single'
        /\ \A x \in Sends : Tried(x)' = Tried(x) /\ (Covered(x) => Covered(x)')
        /\ \A t \in sent : Spent(t)' = Spent(t)
    BY <1>1, <1>2, <2>1, Decides DEF Undecided
  <2>5. plan["target"].for \in Sends
    BY <1>2, <2>1, TxKinds DEF TypeInv, JournalOK, Planned, Underway
  <2>6. Cleared'
    <3>1. PICK x \in Sends : x = plan["target"].for
      BY <2>5
    <3>2. Covered(x) \/ \A t \in Tried(x) : Spent(t)
      BY <2>1, <3>1 DEF StakeInv, Cleared
    <3>3. Covered(x)' \/ \A t \in Tried(x)' : Spent(t)'
      BY <1>3, <2>4, <3>2
    <3>4. x = plan'["target"].for
      BY <2>3, <3>1
    <3> QED
      BY <3>3, <3>4 DEF Cleared
  <2> QED
    BY <2>1, <2>4, <2>6 DEF Informed
<1>6. CASE StakeConfirmed \/ StakesLookedUp
  <2>1. /\ pc["target"] = "submitted" /\ pc'["target"] \in {"idle", "submitted", "candidate"}
        /\ DOMAIN receipts' = DOMAIN receipts
        /\ \A x \in Sends : Undecided(x)' => Undecided(x)
    <3>1. CASE StakeConfirmed
      <4>1. PICK x \in Having("submitted") : SetReceipt(x, "completed", receipts[x].stake)
        BY <3>1 DEF StakeConfirmed
      <4>2. x \in DOMAIN receipts /\ receipts[x].stake \in Stakes \cup {None}
        BY <1>2 DEF Having, TypeInv, JournalOK, Receipts
      <4>3. /\ DOMAIN receipts' = DOMAIN receipts
            /\ \A y \in Sends : Undecided(y)' => Undecided(y)
        BY <1>2, <4>1, <4>2, ReceiptsStay DEF Statuses
      <4> QED
        BY <3>1, <4>3 DEF StakeConfirmed, run
    <3>2. CASE StakesLookedUp
      BY <1>2, <3>2
      DEF StakesLookedUp, Goto, End, TypeInv, RunOK, Hosts, journal, Undecided
    <3> QED
      BY <1>6, <3>1, <3>2
  <2>2. /\ OnChain' /\ Recorded' /\ Single'
        /\ \A x \in Sends : Tried(x)' = Tried(x) /\ (Covered(x) => Covered(x)')
        /\ \A t \in sent : Spent(t)' = Spent(t)
    BY <1>1, <1>2, <2>1, Decides
  <2>3. Informed'
    <3> SUFFICES ASSUME pc'["target"] # "idle", NEW x \in Sends, Undecided(x), ~Covered(x),
                        NEW t \in Tried(x)
                 PROVE  Seen(t)'
      BY <2>1, <2>2 DEF Informed
    <3>1. pc'["target"] \in {"submitted", "candidate"}
      BY <2>1
    <3>2. UNCHANGED <<pending, recent>>
      BY <1>2, <1>6, <3>1
      DEF StakeConfirmed, StakesLookedUp, Goto, End, TypeInv, RunOK, Hosts, run
    <3>3. Seen(t)
      BY <2>1 DEF StakeInv, Informed
    <3> QED
      BY <1>3, <2>1, <2>2, <3>1, <3>2, <3>3 DEF Seen
  <2> QED
    BY <2>1, <2>2, <2>3 DEF Cleared
<1>7. CASE StakeMissing \/ AdoptPending \/ AdoptRecent \/ JournalStake
  <2>1. PICK x \in DOMAIN receipts, status \in Statuses \ {"waiting"},
             stake \in Stakes \cup {None} :
          SetReceipt(x, status, stake) /\ (pc["target"] = "sent" => plan["target"].for = x)
    <3>1. CASE StakeMissing
      <4>1. PICK x \in Having("submitted") : SetReceipt(x, "needs_review", receipts[x].stake)
        BY <3>1 DEF StakeMissing
      <4>2. x \in DOMAIN receipts /\ receipts[x].stake \in Stakes \cup {None}
        BY <1>2 DEF Having, TypeInv, JournalOK, Receipts
      <4> QED
        BY <3>1, <4>1, <4>2 DEF StakeMissing, Statuses
    <3>2. CASE AdoptPending \/ AdoptRecent
      <4>1. PICK x \in Candidates, t \in pending["target"] \cup recent["target"],
                 status \in {"submitted", "completed"} : SetReceipt(x, status, t)
        BY <3>2 DEF AdoptPending, AdoptRecent
      <4>2. x \in DOMAIN receipts /\ t \in Stakes
        BY <1>2, StakeNamed DEF Candidates, Having
      <4> QED
        BY <3>2, <4>1, <4>2 DEF AdoptPending, AdoptRecent, Statuses
    <3>3. CASE JournalStake
      BY <1>2, <3>3 DEF JournalStake, TypeInv, Planned, Underway, Statuses
    <3> QED
      BY <1>7, <3>1, <3>2, <3>3
  <2>2. End("target")
    BY <1>7 DEF StakeMissing, AdoptPending, AdoptRecent, JournalStake
  <2>3. /\ DOMAIN receipts' = DOMAIN receipts /\ ~Undecided(x)'
        /\ \A y \in Sends : Undecided(y)' => Undecided(y)
    BY <1>2, <2>1, ReceiptsStay
  <2> QED
    BY <1>1, <1>2, <2>1, <2>2, <2>3, Decides, Ended
<1>8. CASE NewStake
  <2>1. PICK x \in Candidates :
          /\ StakesFor(x, pending["target"] \cup recent["target"]) = {}
          /\ plan' = [plan EXCEPT !["target"] =
               [by |-> "target", for |-> x, epoch |-> 1, nonce |-> 1, fee |-> 1]]
    BY <1>8 DEF NewStake
  <2>2. /\ pc["target"] = "candidate" /\ pc'["target"] = "slot" /\ UNCHANGED receipts
        /\ plan'["target"].for = x
    BY <1>2, <1>8, <2>1 DEF NewStake, TypeInv, RunOK, Hosts, journal
  <2>3. x \in Sends /\ Undecided(x)
    BY <1>2, TxKinds DEF Candidates, Having, Undecided, TypeInv, JournalOK
  <2>4. Covered(x) \/ \A t \in Tried(x) : Spent(t)
    <3> SUFFICES ASSUME ~Covered(x), NEW t \in Tried(x) PROVE Spent(t)
      OBVIOUS
    <3>1. Seen(t)
      BY <2>2, <2>3 DEF StakeInv, Informed
    <3>2. t \notin pending["target"] \cup recent["target"]
      BY <1>3, <2>1, <2>3 DEF StakesFor
    <3> QED
      BY <2>2, <3>1, <3>2 DEF Seen
  <2>5. /\ OnChain' /\ Recorded' /\ Single'
        /\ \A y \in Sends : Tried(y)' = Tried(y) /\ (Covered(y) => Covered(y)')
        /\ \A t \in sent : Spent(t)' = Spent(t)
    BY <1>1, <1>2, <2>2, Decides DEF Undecided
  <2>6. Covered(x)' \/ \A t \in Tried(x)' : Spent(t)'
    BY <1>3, <2>3, <2>4, <2>5
  <2> QED
    BY <2>2, <2>5, <2>6 DEF Informed, Cleared
<1> QED
  BY <1>4, <1>5, <1>6, <1>7, <1>8 DEF Target, Shared

\* Every step keeps one stake for a transfer, and what the next run needs to see it.
LEMMA StakeStep == StakeInv /\ [Next]_vars => StakeInv'
<1> SUFFICES ASSUME StakeInv, [Next]_vars
             PROVE  OnChain' /\ Recorded' /\ Informed' /\ Cleared' /\ Single'
  BY TypeStep, LocatedStep DEF StakeInv
<1>1. TypeInv
  BY DEF StakeInv
<1>2. CASE Submit("target")
  BY <1>2, StakeSent
<1>3. CASE Target \/ Abort("target")
  BY <1>2, <1>3, RunReads, RunGoes, TargetAside DEF Hosts
<1>4. ASSUME TargetSame, ~Submit("target")
      PROVE  OnChain' /\ Recorded' /\ Informed' /\ Cleared' /\ Single'
  BY <1>1, <1>4, Growth, Undisturbed
<1>5. CASE Source
  <2>1. TargetSame
    <3>1. CASE Submit("source")
      BY <1>1, <3>1, SubmitKind DEF TargetSame, TypeInv, RunOK, Hosts, journal
    <3> QED
      BY <1>1, <1>5, <3>1, SourceAside
  <2> QED
    BY <1>2, <1>4, <2>1
<1>6. CASE Abort("source")
  <2>1. TargetSame
    BY <1>1, <1>6 DEF Abort, End, TargetSame, TypeInv, RunOK, Hosts, journal
  <2> QED
    BY <1>2, <1>4, <2>1
<1>7. CASE Network
  BY <1>2, <1>4, <1>7, NetworkApart
<1>8. CASE AgeActive \/ AgeReceipt \/ UNCHANGED vars
  <2>1. TargetSame
    BY <1>1, <1>8 DEF AgeActive, AgeReceipt, Having, TargetSame, TypeInv, JournalOK, Receipts,
       run, vars
  <2> QED
    BY <1>2, <1>4, <2>1
<1> QED
  BY <1>3, <1>5, <1>6, <1>7, <1>8 DEF Next, Hosts

\* No two executed stakes make at most one.
LEMMA AtMostOne ==
  ASSUME NEW S, \A t, u \in S : t = u
  PROVE  Cardinality(S) <= 1
<1>1. CASE S = {}
  BY <1>1, FS_EmptySet
<1>2. ASSUME NEW t \in S PROVE Cardinality(S) <= 1
  <2>1. S = {t}
    OBVIOUS
  <2>2. Cardinality({t}) = 1
    BY FS_Singleton
  <2> QED
    BY <2>1, <2>2
<1> QED
  BY <1>1, <1>2

\* A transfer is staked at most once, and only when it is confirmed.
THEOREM NoSecondStake == Spec => []StakedOnce
<1>1. Init => StakeInv
  <2> SUFFICES ASSUME Init PROVE StakeInv
    OBVIOUS
  <2>1. TypeInv
    BY TypeInit
  <2>2. sent = mined /\ \A t \in sent : t.by = "source" /\ t.epoch = 1
    BY DEF Init, NewTransfer
  <2>3. \A x \in Sends : Tried(x) = {}
    BY <2>2 DEF Tried, StakesFor
  <2> QED
    BY <2>1, <2>2, <2>3
    DEF Init, StakeInv, Located, OnChain, Recorded, Informed, Cleared, Single, Hosts
<1>2. StakeInv => StakedOnce
  <2> SUFFICES ASSUME StakeInv, NEW x \in Sends
               PROVE  /\ StakesFor(x, mined) # {} => x \in mined
                      /\ Cardinality(StakesFor(x, mined)) <= 1 \/ Lost(StakesFor(x, sent))
    BY DEF StakedOnce
  <2>1. StakesFor(x, mined) \subseteq Tried(x)
    BY DEF StakeInv, TypeInv, WorldOK, StakesFor, Tried
  <2>2. StakesFor(x, mined) # {} => x \in mined
    BY <2>1 DEF StakeInv, OnChain
  <2>3. ASSUME ~Covered(x) PROVE Cardinality(StakesFor(x, mined)) <= 1
    <3>1. \A t, u \in StakesFor(x, mined) : t = u
      BY <2>1, <2>3 DEF StakeInv, Single, Spent, StakesFor
    <3> QED
      BY <3>1, AtMostOne
  <2> QED
    BY <2>2, <2>3 DEF Covered, Tried
<1> QED
  BY <1>1, <1>2, StakeStep, PTL DEF Spec
=============================================================================
