------------------------------ MODULE AutoStake ------------------------------
(***************************************************************************)
(* The two services of src/deploy/auto-stake. idena-auto-transfer-source   *)
(* sends batches of funds to another identity; idena-auto-stake-target, on *)
(* the host of that identity, adds each confirmed batch to its stake.      *)
(*                                                                         *)
(* Each is a script a timer starts over and over. flock allows one run per *)
(* host, a journal file outlives the runs, and what a run knows of the     *)
(* network are the answers of the node of its host, read one after the     *)
(* other. The services share nothing but the chain.                        *)
(*                                                                         *)
(* pc[h] is the request the run on host h makes next.                      *)
(***************************************************************************)
EXTENDS Integers, FiniteSets

CONSTANTS
  Setups,    \* hosts whose timer runs, batches of funds, transfers of the past,
             \* and bound: forgotten and manual transactions and epochs to come
  MaxNonce,  \* bound: nonces of an account in an epoch
  MaxEpoch,  \* bound: epochs explored
  MaxFees,   \* bound: different transactions sent for one nonce
  MaxAborts, \* bound: runs that are cut off
  Batch, None

Hosts == {"source", "target"}

ASSUME StakeAssumption ==
  /\ MaxNonce \in Nat \ {0} /\ MaxEpoch \in Nat \ {0}
  /\ MaxFees \in Nat \ {0} /\ MaxAborts \in Nat
  /\ Batch # None
  /\ \A setup \in Setups :
       setup \in [hosts: SUBSET Hosts, funds: [Hosts -> Nat], past: 0..MaxNonce,
                  faults: Nat]

VARIABLES
  hosts,      \* hosts whose timer runs
  epoch,      \* dna_epoch
  nonce,      \* nonce[h]: confirmed nonce of the account of host h
  pool,       \* pool[h]: its transactions in the mempool of its node
  sent,       \* transactions the network knows and may mine
  mined,      \* confirmed transactions
  funds,      \* funds[h]: batches its confirmed balance covers with fee and reserve
  active,     \* source journal: the transfer under way
  completed, abandoned, \* source journal: transfers that are decided
  receipts,   \* target journal: what became of each observed transfer
  pc,
  pending,    \* pending[h]: bcn_pendingTransactions of this run
  recent,     \* recent[h]: bcn_transactions of this run, while it may be looked at
  plan,       \* plan[h]: what this run is about to send, or has sent
  unrecorded, \* history: transactions whose run ended before it could journal them
  dropped,    \* history: transactions a mempool has forgotten
  faults,     \* faults still to come
  aborts

world   == <<hosts, epoch, nonce, pool, sent, mined, funds>>
journal == <<active, completed, abandoned, receipts>>
run     == <<pc, pending, recent, plan>>
history == <<unrecorded, dropped, faults, aborts>>
vars == <<hosts, epoch, nonce, pool, sent, mined, funds, active, completed, abandoned,
          receipts, pc, pending, recent, plan, unrecorded, dropped, faults, aborts>>

\* A marked transfer, or a transaction the user makes, of the source.
Sends == [by: {"source"}, for: {Batch, None}, epoch: 1..MaxEpoch,
          nonce: 1..MaxNonce, fee: 1..MaxFees]
\* A stake replenishment names the transfer it is for in its payload.
Stakes == [by: {"target"}, for: Sends \cup {None}, epoch: 1..MaxEpoch,
           nonce: 1..MaxNonce, fee: 1..MaxFees]
Txs == Sends \cup Stakes

\* A transaction without a transfer is told from a stake for one.
ASSUME NoneAssumption == None \notin Sends

Statuses == {"waiting", "submitted", "completed", "needs_review"}
Marked   == {t \in Sends : t.for = Batch}
Receipts == [status: Statuses, stake: Stakes \cup {None}, aged: BOOLEAN]
Actives  == [tx: Marked, review: BOOLEAN, aged: BOOLEAN]
Waits    == {"idle", "recent", "active", "missing", "submitted", "candidate",
             "slot", "epoch", "submit", "sent"}

\* Mutant: the marker is not looked at.
UnmarkedTransfers(txs) == {t \in txs : t.by = "source"}

\* Sender, receiver, amount and payload are those of an automated transfer.
Transfers(txs) == {t \in txs : t.by = "source" /\ t.for = Batch}

StakesFor(x, txs) == {t \in txs : t.by = "target" /\ t.for = x}

-----------------------------------------------------------------------------
(* What both scripts share.                                                 *)

\* Every run begins with nothing but its journal.
End(h) ==
  /\ pc' = [pc EXCEPT ![h] = "idle"]
  /\ pending' = [pending EXCEPT ![h] = {}]
  /\ recent' = [recent EXCEPT ![h] = {}]
  /\ plan' = [plan EXCEPT ![h] = None]

Goto(h, wait) ==
  /\ pc' = [pc EXCEPT ![h] = wait]
  /\ UNCHANGED <<pending, recent, plan>>

\* Synchronised, the identity is the configured one, the lock is free.
Begin(h) ==
  /\ h \in hosts /\ pc[h] = "idle"
  /\ pc' = [pc EXCEPT ![h] = "recent"]
  /\ pending' = [pending EXCEPT ![h] = pool[h]]
  /\ UNCHANGED <<world, journal, recent, plan, history>>

\* A request fails, or the run is killed, at any point of it.
Abort(h) ==
  /\ aborts < MaxAborts /\ aborts' = aborts + 1
  /\ pc[h] # "idle"
  /\ End(h)
  /\ unrecorded' = IF pc[h] = "sent" THEN unrecorded \cup {plan[h]} ELSE unrecorded
  /\ UNCHANGED <<world, journal, dropped, faults>>

\* transaction_slot: nothing pending then, nothing pending now ...
SlotTaken(h) ==
  /\ pc[h] = "slot"
  /\ pending[h] # {} \/ pool[h] # {}
  /\ End(h)
  /\ UNCHANGED <<world, journal, history>>

ReadNonce(h) ==
  /\ pc[h] = "slot"
  /\ pending[h] = {} /\ pool[h] = {} /\ nonce[h] < MaxNonce
  /\ pc' = [pc EXCEPT ![h] = "epoch"]
  /\ plan' = [plan EXCEPT ![h].nonce = nonce[h] + 1]
  /\ UNCHANGED <<world, journal, pending, recent, history>>

\* ... and the epoch, read after the nonce.
ReadEpoch(h) ==
  /\ pc[h] = "epoch"
  /\ pc' = [pc EXCEPT ![h] = "submit"]
  /\ plan' = [plan EXCEPT ![h].epoch = epoch]
  /\ UNCHANGED <<world, journal, pending, recent, history>>

\* The balance does not cover a batch, a reserve and the estimated fee. It is
\* looked at in the step that sends: a block in between can only make the node
\* refuse or keep what is sent.
CannotPay(h) ==
  /\ pc[h] = "submit" /\ funds[h] = 0
  /\ End(h)
  /\ UNCHANGED <<world, journal, history>>

\* A transaction sent again for one nonce may be another one: its fee moves.
SentAs(t) ==
  LET tries == {u \in sent : [u EXCEPT !.fee = t.fee] = t}
  IN {f \in 1..MaxFees : \A g \in 1..(f - 1) : \E u \in tries : u.fee = g}

\* The node takes a transaction of its epoch with an unused nonce.
Submit(h) ==
  /\ pc[h] = "submit" /\ funds[h] > 0
  /\ plan[h].epoch = epoch /\ plan[h].nonce > nonce[h]
  /\ \E f \in SentAs(plan[h]) :
       LET t == [plan[h] EXCEPT !.fee = f] IN
       /\ pool' = [pool EXCEPT ![h] = @ \cup {t}]
       /\ sent' = sent \cup {t}
       /\ plan' = [plan EXCEPT ![h] = t]
  /\ pc' = [pc EXCEPT ![h] = "sent"]
  /\ UNCHANGED <<hosts, epoch, nonce, mined, funds, journal, pending, recent, history>>

\* The epoch is over or the nonce used: it refuses, and the run fails.
Refused(h) ==
  /\ pc[h] = "submit"
  /\ plan[h].epoch # epoch \/ plan[h].nonce <= nonce[h]
  /\ End(h)
  /\ UNCHANGED <<world, journal, history>>

-----------------------------------------------------------------------------
(* idena-auto-transfer-source                                               *)

Active(t) == [tx |-> t, review |-> FALSE, aged |-> FALSE]

NewTransfer == [by |-> "source", for |-> Batch, epoch |-> 1, nonce |-> 1, fee |-> 1]

\* A transfer the journal does not know is adopted from the mempool.
SourceReads ==
  /\ pc["source"] = "recent"
  /\ recent' = [recent EXCEPT !["source"] = Transfers(mined)]
  /\ IF active = None /\ Transfers(pending["source"]) # {}
       THEN \E t \in Transfers(pending["source"]) : active' = Active(t)
       ELSE UNCHANGED active
  /\ pc' = [pc EXCEPT !["source"] = IF active' = None THEN "candidate" ELSE "active"]
  /\ UNCHANGED <<world, completed, abandoned, receipts, pending, plan, history>>

ActiveConfirmed ==
  /\ pc["source"] = "active" /\ active.tx \in mined
  /\ completed' = completed \cup {active.tx}
  /\ active' = None
  /\ Goto("source", "candidate")
  /\ UNCHANGED <<world, abandoned, receipts, history>>

ActivePending ==
  /\ pc["source"] = "active" /\ active.tx \notin mined
  /\ active.tx \in pending["source"] \cup pool["source"]
  /\ End("source")
  /\ UNCHANGED <<world, journal, history>>

ActiveMissing ==
  /\ pc["source"] = "active" /\ active.tx \notin mined
  /\ active.tx \notin pending["source"] \cup pool["source"]
  /\ Goto("source", "missing")
  /\ UNCHANGED <<world, journal, history>>

\* Mutant: the nonce that comes next counts as used.
InvalidatedEarly(t) == t.epoch < epoch \/ (t.epoch = epoch /\ t.nonce <= nonce[t.by] + 1)

\* transaction_is_invalidated. Epoch and balance are two reads; when an epoch
\* begins in between, the answer differs at most by waiting for the next run.
Invalidated(t) == t.epoch < epoch \/ (t.epoch = epoch /\ t.nonce <= nonce[t.by])

Retire ==
  /\ pc["source"] = "missing" /\ Invalidated(active.tx)
  /\ abandoned' = abandoned \cup {active.tx}
  /\ active' = None
  /\ End("source")
  /\ UNCHANGED <<world, completed, receipts, history>>

\* It waits, for review after half an hour.
Retain ==
  /\ pc["source"] = "missing" /\ ~Invalidated(active.tx)
  /\ active' = IF active.aged THEN [active EXCEPT !.review = TRUE] ELSE active
  /\ End("source")
  /\ UNCHANGED <<world, completed, abandoned, receipts, history>>

\* Confirmed transfers the journal missed are entered. The half hour they may
\* be old is left out: nothing else reads them.
Reconcile ==
  /\ pc["source"] = "candidate"
  /\ completed' = completed \cup recent["source"]
  /\ plan' = [plan EXCEPT !["source"] = NewTransfer]
  /\ pc' = [pc EXCEPT !["source"] = "slot"]
  /\ recent' = [recent EXCEPT !["source"] = {}]
  /\ UNCHANGED <<world, active, abandoned, receipts, pending, history>>

JournalTransfer ==
  /\ pc["source"] = "sent"
  /\ active' = Active(plan["source"])
  /\ End("source")
  /\ UNCHANGED <<world, completed, abandoned, receipts, history>>

-----------------------------------------------------------------------------
(* idena-auto-stake-target                                                  *)

Having(status) == {x \in DOMAIN receipts : receipts[x].status = status}

SetReceipt(x, status, stake) ==
  receipts' = [receipts EXCEPT ![x] =
                 [status |-> status, stake |-> stake, aged |-> FALSE]]

\* Confirmed marked transfers get a receipt.
TargetReads ==
  /\ pc["target"] = "recent"
  /\ recent' = [recent EXCEPT !["target"] = {t \in mined : t.by = "target"}]
  /\ receipts' = [x \in DOMAIN receipts \cup Transfers(mined) |->
       IF x \in DOMAIN receipts THEN receipts[x]
       ELSE [status |-> "waiting", stake |-> None, aged |-> FALSE]]
  /\ pc' = [pc EXCEPT !["target"] = "submitted"]
  /\ UNCHANGED <<world, active, completed, abandoned, pending, plan, history>>

StakeConfirmed ==
  /\ pc["target"] = "submitted"
  /\ \E x \in Having("submitted") :
       /\ receipts[x].stake \in mined
       /\ SetReceipt(x, "completed", receipts[x].stake)
  /\ UNCHANGED <<world, active, completed, abandoned, run, history>>

\* Mutant: a stake that is missing may still appear.
StakeAwaited ==
  /\ pc["target"] = "submitted"
  /\ \E x \in Having("submitted") :
       /\ receipts[x].stake \notin mined \cup pending["target"] \cup pool["target"]
       /\ receipts[x].aged
  /\ End("target")
  /\ UNCHANGED <<world, journal, history>>

\* A stake missing for half an hour is left to a person; the run fails.
StakeMissing ==
  /\ pc["target"] = "submitted"
  /\ \E x \in Having("submitted") :
       /\ receipts[x].stake \notin mined \cup pending["target"] \cup pool["target"]
       /\ receipts[x].aged
       /\ SetReceipt(x, "needs_review", receipts[x].stake)
  /\ End("target")
  /\ UNCHANGED <<world, active, completed, abandoned, history>>

\* No stake of a receipt can be decided now.
StakesLookedUp ==
  /\ pc["target"] = "submitted"
  /\ \A x \in Having("submitted") :
       /\ receipts[x].stake \notin mined
       /\ receipts[x].aged => receipts[x].stake \in pending["target"] \cup pool["target"]
  /\ IF Having("submitted") = {} THEN Goto("target", "candidate") ELSE End("target")
  /\ UNCHANGED <<world, journal, history>>

\* Waiting for at least a minute. Which comes first is left open.
Candidates == {x \in Having("waiting") : receipts[x].aged}

NoCandidate ==
  /\ pc["target"] = "candidate" /\ Candidates = {}
  /\ End("target")
  /\ UNCHANGED <<world, journal, history>>

AdoptPending ==
  /\ pc["target"] = "candidate"
  /\ \E x \in Candidates, t \in pending["target"] :
       t.for = x /\ SetReceipt(x, "submitted", t)
  /\ End("target")
  /\ UNCHANGED <<world, active, completed, abandoned, history>>

AdoptRecent ==
  /\ pc["target"] = "candidate"
  /\ \E x \in Candidates :
       /\ StakesFor(x, pending["target"]) = {}
       /\ \E t \in recent["target"] : t.for = x /\ SetReceipt(x, "completed", t)
  /\ End("target")
  /\ UNCHANGED <<world, active, completed, abandoned, history>>

\* Mutant: a transfer is staked whether or not it has been.
NewStakeAnyway ==
  /\ pc["target"] = "candidate"
  /\ \E x \in Candidates :
       /\ StakesFor(x, pending["target"]) = {}
       /\ plan' = [plan EXCEPT !["target"] =
            [by |-> "target", for |-> x, epoch |-> 1, nonce |-> 1, fee |-> 1]]
  /\ pc' = [pc EXCEPT !["target"] = "slot"]
  /\ recent' = [recent EXCEPT !["target"] = {}]
  /\ UNCHANGED <<world, journal, pending, history>>

NewStake ==
  /\ pc["target"] = "candidate"
  /\ \E x \in Candidates :
       /\ StakesFor(x, pending["target"] \cup recent["target"]) = {}
       /\ plan' = [plan EXCEPT !["target"] =
            [by |-> "target", for |-> x, epoch |-> 1, nonce |-> 1, fee |-> 1]]
  /\ pc' = [pc EXCEPT !["target"] = "slot"]
  /\ recent' = [recent EXCEPT !["target"] = {}]
  /\ UNCHANGED <<world, journal, pending, history>>

JournalStake ==
  /\ pc["target"] = "sent"
  /\ SetReceipt(plan["target"].for, "submitted", plan["target"])
  /\ End("target")
  /\ UNCHANGED <<world, active, completed, abandoned, history>>

-----------------------------------------------------------------------------
(* Time, the nodes and the user.                                            *)

\* A run reads the clock once, when it begins.
AgeActive ==
  /\ pc["source"] = "idle" /\ active # None /\ ~active.aged
  /\ active' = [active EXCEPT !.aged = TRUE]
  /\ UNCHANGED <<world, completed, abandoned, receipts, run, history>>

AgeReceipt ==
  /\ pc["target"] = "idle"
  /\ \E x \in Having("waiting") \cup Having("submitted") :
       ~receipts[x].aged /\ receipts' = [receipts EXCEPT ![x].aged = TRUE]
  /\ UNCHANGED <<world, active, completed, abandoned, run, history>>

\* What t takes off the funds of its account: a batch and perhaps, its fee having
\* used up what was left over, another one. The user spends what there is.
Costs(t) == IF t.for = None THEN 0..funds[t.by] ELSE {1, 2}

Less(n, cost) == IF n > cost THEN n - cost ELSE 0

\* A block holds the next transaction of an account, whoever still keeps it. When
\* the funds are short of a batch, the reserve may still pay for one.
Mine(t) ==
  /\ t.epoch = epoch /\ t.nonce = nonce[t.by] + 1
  /\ mined' = mined \cup {t}
  /\ nonce' = [nonce EXCEPT ![t.by] = @ + 1]
  /\ pool' = [pool EXCEPT ![t.by] = {u \in @ : u.nonce > t.nonce}]
  /\ \E cost \in Costs(t) :
       funds' = [h \in Hosts |-> CASE h = t.by -> Less(funds[h], cost)
                                  [] h # t.by /\ Transfers({t}) # {} -> funds[h] + 1
                                  [] OTHER -> funds[h]]
  /\ UNCHANGED <<hosts, epoch, sent, journal, run, history>>

Fault == faults > 0 /\ faults' = faults - 1

\* A node restarts or clears its mempool; others may still hold the transaction.
Drop(h) ==
  /\ Fault
  /\ pool[h] # {}
  /\ dropped' = dropped \cup pool[h]
  /\ pool' = [pool EXCEPT ![h] = {}]
  /\ UNCHANGED <<hosts, epoch, nonce, sent, mined, funds, journal, run, unrecorded, aborts>>

\* The node gives it the first nonce that is free.
ManualTx(h) ==
  /\ Fault
  /\ LET free == (nonce[h] + 1..MaxNonce) \ {t.nonce : t \in pool[h]} IN
       \E n \in free :
         LET t == [by |-> h, for |-> None, epoch |-> epoch, nonce |-> n, fee |-> 1] IN
         /\ \A k \in free : n <= k
         /\ pool' = [pool EXCEPT ![h] = @ \cup {t}]
         /\ sent' = sent \cup {t}
  /\ UNCHANGED <<hosts, epoch, nonce, mined, funds, journal, run, unrecorded, dropped, aborts>>

NewEpoch ==
  /\ Fault
  /\ epoch < MaxEpoch /\ epoch' = epoch + 1
  /\ nonce' = [h \in Hosts |-> 0]
  /\ pool' = [h \in Hosts |-> {}]
  /\ UNCHANGED <<hosts, sent, mined, funds, journal, run, unrecorded, dropped, aborts>>

-----------------------------------------------------------------------------
Init ==
  /\ epoch = 1
  /\ pool = [h \in Hosts |-> {}]
  /\ \E setup \in Setups :
       /\ hosts = setup.hosts /\ faults = setup.faults
       /\ funds = setup.funds
       /\ nonce = [h \in Hosts |-> IF h = "source" THEN setup.past ELSE 0]
       /\ mined = {[NewTransfer EXCEPT !.nonce = n] : n \in 1..setup.past}
  /\ sent = mined
  /\ active = None /\ completed = {} /\ abandoned = {}
  /\ receipts = [x \in {} |-> None]
  /\ pc = [h \in Hosts |-> "idle"]
  /\ pending = [h \in Hosts |-> {}]
  /\ recent = [h \in Hosts |-> {}]
  /\ plan = [h \in Hosts |-> None]
  /\ unrecorded = {} /\ dropped = {} /\ aborts = 0

Shared(h) ==
  \/ Begin(h) \/ SlotTaken(h) \/ ReadNonce(h) \/ ReadEpoch(h)
  \/ CannotPay(h) \/ Submit(h) \/ Refused(h)

Source ==
  \/ Shared("source") \/ SourceReads
  \/ ActiveConfirmed \/ ActivePending \/ ActiveMissing
  \/ Retire \/ Retain \/ Reconcile \/ JournalTransfer

Target ==
  \/ Shared("target") \/ TargetReads
  \/ StakeConfirmed \/ StakeMissing \/ StakesLookedUp
  \/ NoCandidate \/ AdoptPending \/ AdoptRecent \/ NewStake \/ JournalStake

Network ==
  \/ \E t \in sent : Mine(t)
  \/ NewEpoch
  \/ \E h \in Hosts : Drop(h) \/ ManualTx(h)

Next ==
  \/ Source \/ Target
  \/ \E h \in Hosts : Abort(h)
  \/ AgeActive \/ AgeReceipt
  \/ Network

Spec == Init /\ [][Next]_vars
-----------------------------------------------------------------------------
TypeOK ==
  /\ hosts \subseteq Hosts /\ epoch \in 1..MaxEpoch
  /\ nonce \in [Hosts -> 0..MaxNonce]
  /\ pool \in [Hosts -> SUBSET Txs]
  /\ sent \subseteq Txs /\ mined \subseteq sent
  /\ funds \in [Hosts -> Nat]
  /\ active \in Actives \cup {None}
  /\ completed \subseteq Marked /\ abandoned \subseteq Marked
  /\ DOMAIN receipts \subseteq Marked
  /\ \A x \in DOMAIN receipts : receipts[x] \in Receipts
  /\ pc \in [Hosts -> Waits]
  /\ pending \in [Hosts -> SUBSET Txs] /\ recent \in [Hosts -> SUBSET Txs]
  /\ plan \in [Hosts -> Txs \cup {None}]
  /\ unrecorded \subseteq Txs /\ dropped \subseteq Txs
  /\ faults \in Nat /\ aborts \in 0..MaxAborts

\* The one case the journals do not cover: the run ended before it could journal
\* what it sent, and the node of the host has forgotten it, too.
Lost(txs) == txs \cap unrecorded \cap dropped # {}

\* A transfer is staked at most once and only when it is confirmed, although a
\* stake may be sent without being journaled, missing, sent again for the same
\* nonce and left to an epoch that ends ("blocked to prevent duplicate spending").
StakedOnce ==
  \A x \in Sends :
    /\ StakesFor(x, mined) # {} => x \in mined
    /\ Cardinality(StakesFor(x, mined)) <= 1 \/ Lost(StakesFor(x, sent))

\* An archived transfer is not executed afterwards ("unless their recorded nonce
\* or epoch proves they can no longer execute").
ArchivedStaysOut ==
  [][\A t \in abandoned : t \in mined' => t \in mined]_vars

Affordable(t) == t.for = None \/ funds[t.by] > 0

\* The timer of the target goes on and its requests are answered, time passes
\* between its runs, and blocks hold what is pending and covered.
Fairness ==
  /\ WF_vars(Target)
  /\ SF_vars(AgeReceipt)
  /\ WF_vars(\E t \in pool["target"] : Affordable(t) /\ Mine(t))

FairSpec == Spec /\ Fairness

Decided == {x \in DOMAIN receipts : receipts[x].status \in {"completed", "needs_review"}}

\* A transaction of the target that no block can hold: the epoch changed between
\* the reads of its nonce and of its epoch.
Gap == pool["target"] # {} /\ \A t \in pool["target"] : t.nonce > nonce["target"] + 1

\* The balance of the target is short while a transfer has no stake on the chain:
\* fees or the user have spent what came in. The target defers it and the others.
Short ==
  /\ funds["target"] = 0
  /\ \E x \in Transfers(mined) \ Decided : StakesFor(x, mined) = {}

\* A run could not journal a transaction that a mempool then forgot.
SomeLost == unrecorded \cap dropped # {}

\* As long as the balance covers a batch, no confirmed transfer waits for ever:
\* each is staked or left to a person in the end, through runs that are cut off,
\* transactions of the user, forgotten stakes and new epochs. Not promised, because
\* the scripts do not: while the balance stays short, once an unjournaled stake is
\* forgotten, and behind a transaction no block can hold.
EveryTransferDecided ==
  "target" \in hosts =>
    []<>(Transfers(mined) \subseteq Decided \/ Short \/ SomeLost \/ Gap)
=============================================================================
