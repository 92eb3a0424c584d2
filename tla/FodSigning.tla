----------------------------- MODULE FodSigning -----------------------------
(***************************************************************************)
(* Signing of Flips-on-Demand market actions: submit, withCLI and the nonce*)
(* journal of src/main/fod-v7.js, with the automatic trade handling of     *)
(* src/main/fod-v8.js.                                                     *)
(*                                                                         *)
(* index.js creates one service per market version. Each has its own latch *)
(* (busy) and its own deployment pin, so each submits its own actions, but *)
(* all share one directory: nonce.lock, nonce-journal.jsonl and actions/.  *)
(* The signature is made by a child process.                               *)
(*                                                                         *)
(* pc[s] is the await at which service s waits.                            *)
(***************************************************************************)
EXTENDS Integers, FiniteSets

CONSTANTS
  Services,   \* one per market version
  Bonded,     \* those with automatic trade handling
  Actions,    \* prepared actions, one directory each
  Addrs,      \* identities of the user
  Legacy,     \* attempts an earlier release left: sets of [action, svc, addr, nonce]
  FeeCeiling, \* automatic signatures a grant pays for
  MaxNonce,   \* bound: account nonces explored in an epoch
  MaxEpoch,   \* bound: epochs explored
  MaxFaults,  \* bound: crashes, forgotten transactions, foreign transactions,
              \* epochs and identity changes together
  None

ASSUME SigningAssumption ==
  /\ Bonded \subseteq Services
  /\ FeeCeiling \in Nat /\ MaxNonce \in Nat /\ MaxEpoch \in Nat \ {0}
  /\ MaxFaults \in Nat
  /\ None \notin [svc: Services, addr: Addrs]

\* Attempts of earlier releases that an import accepts: one per action, and no
\* nonce of an identity twice.
ASSUME LegacyAssumption ==
  \A old \in Legacy :
    /\ old \subseteq [action: Actions, svc: Services, addr: Addrs, nonce: 1..MaxNonce]
    /\ \A p, q \in old :
         p.action = q.action \/ (p.addr = q.addr /\ p.nonce = q.nonce) => p = q

VARIABLES
  coinbase,   \* the identity the node runs
  epoch,      \* dna_epoch
  confirmed,  \* confirmed[a]: dna_getBalance nonce, which restarts with an epoch
  mempool,    \* transactions of the market the node has pending
  sent,       \* those that reached the network and may be mined
  included,   \* actions with a receipt
  lock,       \* nonce.lock exists
  imported,   \* nonce-journal.jsonl exists
  journal,    \* its records
  torn,       \* it ends in the middle of a record
  saved,      \* saved[x]: meta.json of action x
  attempt,    \* attempt[x]: nonce in its attempt.json, 0 without one
  pc, job,    \* where a service waits, and with what
  found,      \* found[s]: attempts its import has read
  grant,      \* grant[s]: permission for automatic trade handling
  cli,        \* signing processes that run
  sigs,       \* signatures that exist
  signings,   \* signings[x]: how often action x was signed
  autos,      \* actions whose attempt was automatic
  faults

node    == <<coinbase, epoch, confirmed, mempool, sent, included>>
disk    == <<lock, imported, journal, torn, saved, attempt>>
memory  == <<pc, job, found, grant>>
history == <<sigs, signings, autos>>
vars == <<coinbase, epoch, confirmed, mempool, sent, included,
          lock, imported, journal, torn, saved, attempt,
          pc, job, found, grant, cli, sigs, signings, autos, faults>>

Unreadable == -1  \* a damaged attempt.json

Locked == {"locked", "account", "fresh", "checked", "journaled", "marked"}
Waits  == {"idle", "importing", "review", "signing", "launched"} \cup Locked

Nonces  == 1..MaxNonce
Records == [addr: Addrs, nonce: Nonces, action: Actions]
Metas   == [svc: Services, addr: Addrs]
Jobs    == [action: Actions, addr: Addrs, auto: BOOLEAN,
            nonce: 0..MaxNonce, epoch: 0..MaxEpoch]
Sigs    == [action: Actions, addr: Addrs, nonce: Nonces, epoch: 1..MaxEpoch]
Grants  == [addr: Addrs, fees: 0..FeeCeiling]

\* readNonceJournal
Readable == imported /\ ~torn

\* account.nonce = account.mempoolNonce
FreeNonce(a) == \A t \in mempool : t.addr # a

Leave(s) ==
  /\ pc' = [pc EXCEPT ![s] = "idle"]
  /\ job' = [job EXCEPT ![s] = None]

-----------------------------------------------------------------------------
(* The nonce journal is made from saved attempts when there is none yet.    *)

Attempted(a) == {x \in Actions : saved[x] # None /\ saved[x].addr = a /\ attempt[x] # 0}

\* ensureNonceJournal: attemptedActions of every identity.
ImportReads(s) ==
  /\ pc[s] = "idle" /\ ~imported
  /\ \A x \in Actions : attempt[x] # Unreadable
  /\ found' = [found EXCEPT ![s] =
       {[addr |-> saved[x].addr, nonce |-> attempt[x], action |-> x] :
          x \in UNION {Attempted(a) : a \in Addrs}}]
  /\ pc' = [pc EXCEPT ![s] = "importing"]
  /\ UNCHANGED <<node, disk, job, grant, cli, history, faults>>

\* The file is created exclusively: the second of two imports fails.
ImportWrites(s) ==
  /\ pc[s] = "importing"
  /\ imported' = TRUE
  /\ journal' = IF imported THEN journal ELSE found[s]
  /\ pc' = [pc EXCEPT ![s] = "idle"]
  /\ found' = [found EXCEPT ![s] = {}]
  /\ UNCHANGED <<node, lock, torn, saved, attempt, job, grant, cli, history, faults>>

-----------------------------------------------------------------------------
(* Preparing and submitting.                                                *)

Meta(s, a) == [svc |-> s, addr |-> a]

Job(x, auto) ==
  [action |-> x, addr |-> coinbase, auto |-> auto, nonce |-> 0, epoch |-> 0]

Prepare(s, x) ==
  /\ pc[s] = "idle" /\ Readable
  /\ saved[x] = None
  /\ saved' = [saved EXCEPT ![x] = Meta(s, coinbase)]
  /\ UNCHANGED <<node, lock, imported, journal, torn, attempt, memory, cli,
                 history, faults>>

\* The user submits a saved action of this pin and identity that had no attempt.
Submit(s, x) ==
  /\ pc[s] = "idle" /\ Readable /\ FreeNonce(coinbase)
  /\ saved[x] = Meta(s, coinbase) /\ attempt[x] = 0
  /\ pc' = [pc EXCEPT ![s] = "review"]
  /\ job' = [job EXCEPT ![s] = Job(x, FALSE)]
  /\ UNCHANGED <<node, disk, found, grant, cli, history, faults>>

\* Mutant: an attempt without a saved transaction counts as resolved.
UnresolvedSigned(s) ==
  {x \in Attempted(coinbase) : saved[x].svc = s /\ x \notin included
                                /\ \E t \in sent : t.action = x}

\* listActions: attempts of this pin and identity whose outcome is not known.
Unresolved(s) ==
  {x \in Attempted(coinbase) : saved[x].svc = s /\ x \notin included}

\* tick and placeTrade: prepare one step and submit it under the grant, once
\* every earlier attempt is resolved.
Automatic(s, x) ==
  /\ pc[s] = "idle" /\ Readable /\ FreeNonce(coinbase)
  /\ grant[s] # None /\ grant[s].addr = coinbase /\ grant[s].fees > 0
  /\ Unresolved(s) = {}
  /\ saved[x] = None
  /\ saved' = [saved EXCEPT ![x] = Meta(s, coinbase)]
  /\ pc' = [pc EXCEPT ![s] = "review"]
  /\ job' = [job EXCEPT ![s] = Job(x, TRUE)]
  /\ UNCHANGED <<node, lock, imported, journal, torn, attempt, found, grant, cli,
                 history, faults>>

\* The user cancels, the key does not fit, the lock exists or a read fails.
GiveUp(s) ==
  /\ pc[s] \in {"review", "signing"}
  /\ Leave(s)
  /\ UNCHANGED <<node, disk, found, grant, cli, history, faults>>

\* Mutant: an existing lock is ignored.
TakeLockAnyway(s) ==
  /\ pc[s] = "review"
  /\ lock' = TRUE
  /\ pc' = [pc EXCEPT ![s] = "locked"]
  /\ UNCHANGED <<node, imported, journal, torn, saved, attempt, job, found, grant,
                 cli, history, faults>>

\* withNonceLock creates nonce.lock exclusively.
TakeLock(s) ==
  /\ pc[s] = "review" /\ ~lock
  /\ lock' = TRUE
  /\ pc' = [pc EXCEPT ![s] = "locked"]
  /\ UNCHANGED <<node, imported, journal, torn, saved, attempt, job, found, grant,
                 cli, history, faults>>

\* Its finally block, after a failure anywhere under the lock.
FailLocked(s) ==
  /\ pc[s] \in Locked
  /\ lock' = FALSE
  /\ Leave(s)
  /\ UNCHANGED <<node, imported, journal, torn, saved, attempt, found, grant, cli,
                 history, faults>>

\* The fresh context: identity and dna_getBalance ...
ReadAccount(s) ==
  /\ pc[s] = "locked"
  /\ coinbase = job[s].addr /\ FreeNonce(coinbase) /\ confirmed[coinbase] < MaxNonce
  /\ job' = [job EXCEPT ![s].nonce = confirmed[coinbase] + 1]
  /\ pc' = [pc EXCEPT ![s] = "account"]
  /\ UNCHANGED <<node, disk, found, grant, cli, history, faults>>

\* ... then dna_epoch. The grant is charged before the reservation.
ReadEpoch(s) ==
  /\ pc[s] = "account"
  /\ job[s].auto => grant[s] # None /\ grant[s].fees > 0
  /\ job' = [job EXCEPT ![s].epoch = epoch]
  /\ grant' = IF job[s].auto THEN [grant EXCEPT ![s].fees = @ - 1] ELSE grant
  /\ pc' = [pc EXCEPT ![s] = "fresh"]
  /\ UNCHANGED <<node, disk, found, cli, history, faults>>

\* checkNonceReservations: every attempt of the identity is in the journal, and
\* no record of the journal has this nonce.
Unreserved(a, n) ==
  /\ \A x \in Attempted(a) : \E r \in journal :
       r.addr = a /\ r.action = x /\ r.nonce = attempt[x]
  /\ \A r \in journal : ~(r.addr = a /\ r.nonce = n)

Check(s) ==
  /\ pc[s] = "fresh"
  /\ Readable /\ Unreserved(job[s].addr, job[s].nonce)
  /\ pc' = [pc EXCEPT ![s] = "checked"]
  /\ UNCHANGED <<node, disk, job, found, grant, cli, history, faults>>

\* appendNonceJournal
Append(s) ==
  /\ pc[s] = "checked"
  /\ journal' = journal \cup
       {[addr |-> job[s].addr, nonce |-> job[s].nonce, action |-> job[s].action]}
  /\ pc' = [pc EXCEPT ![s] = "journaled"]
  /\ UNCHANGED <<node, lock, imported, torn, saved, attempt, job, found, grant, cli,
                 history, faults>>

\* attempt.json is created exclusively.
MarkAttempt(s) ==
  /\ pc[s] = "journaled" /\ attempt[job[s].action] = 0
  /\ attempt' = [attempt EXCEPT ![job[s].action] = job[s].nonce]
  /\ autos' = IF job[s].auto THEN autos \cup {job[s].action} ELSE autos
  /\ pc' = [pc EXCEPT ![s] = "marked"]
  /\ UNCHANGED <<node, lock, imported, journal, torn, saved, job, found, grant, cli,
                 sigs, signings, faults>>

Unlock(s) ==
  /\ pc[s] = "marked"
  /\ lock' = FALSE
  /\ pc' = [pc EXCEPT ![s] = "signing"]
  /\ UNCHANGED <<node, imported, journal, torn, saved, attempt, job, found, grant, cli,
                 history, faults>>

\* withCLI checks the identity again and starts the signing process.
Launch(s) ==
  /\ pc[s] = "signing"
  /\ coinbase = job[s].addr
  /\ cli' = cli \cup {job[s]}
  /\ pc' = [pc EXCEPT ![s] = "launched"]
  /\ UNCHANGED <<node, disk, job, found, grant, history, faults>>

\* Mutant: a process that gave no answer is started again.
FinishRetries(s) ==
  /\ pc[s] = "launched" /\ job[s] \notin cli
  /\ pc' = [pc EXCEPT ![s] = "signing"]
  /\ UNCHANGED <<node, disk, job, found, grant, cli, history, faults>>

\* The process has ended; signed.json tells with what. Nothing is retried.
Finish(s) ==
  /\ pc[s] = "launched" /\ job[s] \notin cli
  /\ Leave(s)
  /\ UNCHANGED <<node, disk, found, grant, cli, history, faults>>

-----------------------------------------------------------------------------
(* The grant: a password unlocks the key for a number of automatic steps.  *)

\* Mutant: a new grant adds to what is left of the old one.
UnlockAdds(s) ==
  /\ s \in Bonded /\ pc[s] = "idle" /\ Readable /\ FreeNonce(coinbase)
  /\ grant' = [grant EXCEPT ![s] =
       [addr |-> coinbase,
        fees |-> FeeCeiling + (IF grant[s] = None THEN 0 ELSE grant[s].fees)]]
  /\ UNCHANGED <<node, disk, pc, job, found, cli, history, faults>>

\* A grant is given anew; nothing is left of an old one.
UnlockGrant(s) ==
  /\ s \in Bonded /\ pc[s] = "idle" /\ Readable /\ FreeNonce(coinbase)
  /\ grant' = [grant EXCEPT ![s] = [addr |-> coinbase, fees |-> FeeCeiling]]
  /\ UNCHANGED <<node, disk, pc, job, found, cli, history, faults>>

\* It expires at any time; it is stopped by the user, by tick for another
\* identity or after a withdrawal, while the service is idle.
GrantEnds(s) ==
  /\ grant[s] # None
  /\ grant' = [grant EXCEPT ![s] = None]
  /\ UNCHANGED <<node, disk, pc, job, found, cli, history, faults>>

-----------------------------------------------------------------------------
(* The signing process, the node and the user.                              *)

Fault == faults < MaxFaults /\ faults' = faults + 1

Signature(c) == [action |-> c.action, addr |-> c.addr, nonce |-> c.nonce, epoch |-> c.epoch]

\* It outlives a crash of the application.
CliFails(c) ==
  /\ cli' = cli \ {c}
  /\ UNCHANGED <<node, disk, memory, history, faults>>

CliSigns(c) ==
  /\ cli' = cli \ {c}
  /\ sigs' = sigs \cup {Signature(c)}
  /\ signings' = [signings EXCEPT ![c.action] = @ + 1]
  /\ \/ UNCHANGED <<mempool, sent>>
     \/ /\ c.epoch = epoch /\ c.nonce > confirmed[c.addr]
        /\ mempool' = mempool \cup {Signature(c)}
        /\ sent' = sent \cup {Signature(c)}
  /\ UNCHANGED <<coinbase, epoch, confirmed, included, disk, memory, autos, faults>>

\* A transaction of this slot is mined, wherever it was kept.
Mine(t) ==
  /\ t.epoch = epoch /\ t.nonce = confirmed[t.addr] + 1
  /\ confirmed' = [confirmed EXCEPT ![t.addr] = @ + 1]
  /\ mempool' = mempool \ {t}
  /\ included' = included \cup {t.action}
  /\ UNCHANGED <<coinbase, epoch, sent, disk, memory, cli, history, faults>>

\* The node forgets its mempool entry, and the nonce looks free again.
Drop(t) ==
  /\ Fault
  /\ mempool' = mempool \ {t}
  /\ UNCHANGED <<coinbase, epoch, confirmed, sent, included, disk, memory, cli,
                 history>>

\* Another client of the same identity uses a nonce.
OtherTx(a) ==
  /\ confirmed[a] < MaxNonce
  /\ Fault
  /\ confirmed' = [confirmed EXCEPT ![a] = @ + 1]
  /\ mempool' = {t \in mempool : ~(t.addr = a /\ t.nonce = confirmed[a] + 1)}
  /\ UNCHANGED <<coinbase, epoch, sent, included, disk, memory, cli, history>>

NewEpoch ==
  /\ epoch < MaxEpoch /\ epoch' = epoch + 1
  /\ Fault
  /\ confirmed' = [a \in Addrs |-> 0]
  /\ mempool' = {}
  /\ UNCHANGED <<coinbase, sent, included, disk, memory, cli, history>>

SwitchIdentity ==
  /\ coinbase' \in Addrs \ {coinbase}
  /\ Fault
  /\ UNCHANGED <<epoch, confirmed, mempool, sent, included, disk, memory, cli,
                 history>>

\* Memory is lost; a write under way may be left incomplete.
Crash ==
  /\ Fault
  /\ pc' = [s \in Services |-> "idle"]
  /\ job' = [s \in Services |-> None]
  /\ found' = [s \in Services |-> {}]
  /\ grant' = [s \in Services |-> None]
  /\ \/ UNCHANGED <<torn, attempt>>
     \/ (\E s \in Services : pc[s] = "checked") /\ torn' = TRUE /\ UNCHANGED attempt
     \/ \E s \in Services :
          /\ pc[s] = "journaled" /\ attempt[job[s].action] = 0
          /\ attempt' = [attempt EXCEPT ![job[s].action] = Unreadable]
          /\ UNCHANGED torn
  /\ UNCHANGED <<node, lock, imported, journal, saved, cli, history>>

\* "Reconcile it before signing": the user removes a lock nobody holds.
Reconcile ==
  /\ lock /\ \A s \in Services : pc[s] \notin Locked
  /\ lock' = FALSE
  /\ UNCHANGED <<node, imported, journal, torn, saved, attempt, memory, cli, history, faults>>

-----------------------------------------------------------------------------
\* Attempts of an earlier release were signed, or may have been.
Init ==
  /\ coinbase \in Addrs /\ epoch = 1
  /\ confirmed = [a \in Addrs |-> 0]
  /\ mempool = {} /\ sent = {} /\ included = {}
  /\ lock = FALSE /\ torn = FALSE
  /\ imported = FALSE /\ journal = {}
  /\ \E old \in Legacy :
       /\ saved = [x \in Actions |->
            IF \E p \in old : p.action = x
              THEN LET p == CHOOSE p \in old : p.action = x IN Meta(p.svc, p.addr)
              ELSE None]
       /\ attempt = [x \in Actions |->
            IF \E p \in old : p.action = x
              THEN (CHOOSE p \in old : p.action = x).nonce ELSE 0]
       /\ sigs = {[action |-> p.action, addr |-> p.addr, nonce |-> p.nonce,
                   epoch |-> 1] : p \in old}
       /\ signings = [x \in Actions |-> IF \E p \in old : p.action = x THEN 1 ELSE 0]
  /\ pc = [s \in Services |-> "idle"]
  /\ job = [s \in Services |-> None]
  /\ found = [s \in Services |-> {}]
  /\ grant = [s \in Services |-> None]
  /\ cli = {} /\ autos = {}
  /\ faults = 0

UnderLock(s) ==
  \/ TakeLock(s) \/ ReadAccount(s) \/ ReadEpoch(s) \/ Check(s) \/ Append(s)
  \/ MarkAttempt(s) \/ Unlock(s) \/ FailLocked(s)

Service(s) ==
  \/ ImportReads(s) \/ ImportWrites(s)
  \/ \E x \in Actions : Prepare(s, x) \/ Submit(s, x) \/ Automatic(s, x)
  \/ GiveUp(s) \/ UnderLock(s) \/ Launch(s) \/ Finish(s)
  \/ UnlockGrant(s) \/ GrantEnds(s)

World ==
  \/ \E c \in cli : CliFails(c) \/ CliSigns(c)
  \/ \E t \in sent : Mine(t)
  \/ \E t \in mempool : Drop(t)
  \/ \E a \in Addrs : OtherTx(a)
  \/ NewEpoch \/ SwitchIdentity \/ Crash \/ Reconcile

Next == World \/ \E s \in Services : Service(s)

Spec == Init /\ [][Next]_vars

-----------------------------------------------------------------------------
TypeOK ==
  /\ coinbase \in Addrs /\ epoch \in 1..MaxEpoch
  /\ confirmed \in [Addrs -> 0..MaxNonce]
  /\ mempool \subseteq Sigs /\ sent \subseteq Sigs /\ included \subseteq Actions
  /\ lock \in BOOLEAN /\ imported \in BOOLEAN /\ torn \in BOOLEAN
  /\ journal \subseteq Records
  /\ saved \in [Actions -> Metas \cup {None}]
  /\ attempt \in [Actions -> Nonces \cup {0, Unreadable}]
  /\ pc \in [Services -> Waits]
  /\ job \in [Services -> Jobs \cup {None}]
  /\ found \in [Services -> SUBSET Records]
  /\ grant \in [Services -> Grants \cup {None}]
  /\ cli \subseteq Jobs /\ sigs \subseteq Sigs
  /\ signings \in [Actions -> Nat] /\ autos \subseteq Actions
  /\ faults \in 0..MaxFaults

\* Two different actions are never signed with one nonce of an identity, whichever
\* services submit them, in whatever order they reach the lock, after crashes,
\* forgotten mempools and imports of earlier attempts ("This identity and nonce
\* already have a v7 signing attempt").
OneSignaturePerNonce ==
  \A p, q \in sigs : p.addr = q.addr /\ p.nonce = q.nonce => p.action = q.action

\* An automatic step is signed only when what the grant of this service signed
\* before for the identity is on the chain, also across a crash and a new grant.
AutomaticWaits ==
  \A x, y \in autos :
    saved[x] = saved[y] /\ x # y => x \in included \/ y \in included

\* A signature stands for one recorded attempt: signing an action implements
\* PaidOnce, where attempt.json is the claim and the signature the effect.
Once == INSTANCE PaidOnce WITH
  Items  <- Actions,
  claim  <- [x \in Actions |-> IF attempt[x] = 0 THEN "free" ELSE "claimed"],
  effect <- signings

SignsOnce == Once!Spec
=============================================================================
