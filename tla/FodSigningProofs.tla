-------------------------- MODULE FodSigningProofs --------------------------
(***************************************************************************)
(* Proofs about FodSigning, for every number of services, actions,         *)
(* identities, nonces and faults: its type invariant, that no nonce is     *)
(* signed twice, that automatic steps wait, and that signing implements    *)
(* PaidOnce.                                                               *)
(***************************************************************************)
EXTENDS FodSigning, TLAPS

-----------------------------------------------------------------------------
(* The inductive invariant.                                                 *)

Submitting == {"review", "signing", "launched"} \cup Locked
Numbered   == Submitting \ {"review", "locked"}
Dated      == Numbered \ {"account"}
Reserved   == {"journaled", "marked", "signing", "launched"}
Unsigned   == {"marked", "signing"}
Unmarked   == {"review"} \cup (Locked \ {"marked"})

\* nonce.lock admits one service.
LockInv ==
  /\ \A s \in Services : pc[s] \in Locked => lock
  /\ \A s, t \in Services : pc[s] \in Locked /\ pc[t] \in Locked => s = t

\* A submission holds an action of its own service, with the slot it has read.
JobInv ==
  \A s \in Services :
    /\ pc[s] \in Submitting =>
         job[s] \in Jobs /\ saved[job[s].action] = Meta(s, job[s].addr)
    /\ pc[s] \in Numbered => job[s].nonce \in Nonces
    /\ pc[s] \in Dated => job[s].epoch \in 1..MaxEpoch

\* The journal has a record for action, identity and nonce of j.
InJournal(j) == [addr |-> j.addr, nonce |-> j.nonce, action |-> j.action] \in journal

\* The journal gives a nonce to one action, before anything signs it.
JournalInv ==
  /\ \A p, q \in journal : p.addr = q.addr /\ p.nonce = q.nonce => p = q
  /\ \A s \in Services : pc[s] = "checked" =>
       \A r \in journal : ~(r.addr = job[s].addr /\ r.nonce = job[s].nonce)
  /\ \A s \in Services : pc[s] \in Reserved => InJournal(job[s])
  /\ \A c \in cli : InJournal(c) /\ c.nonce \in Nonces /\ c.epoch \in 1..MaxEpoch
  /\ imported => \A p \in sigs : InJournal(p)

AttemptRecords ==
  {[addr |-> saved[x].addr, nonce |-> attempt[x], action |-> x] :
     x \in UNION {Attempted(a) : a \in Addrs}}

\* Until the journal exists nothing is submitted, and the attempts of earlier
\* releases stand for all signatures.
ImportInv ==
  ~imported =>
    /\ journal = {} /\ cli = {}
    /\ \A s \in Services : pc[s] \in {"idle", "importing"}
    /\ \A s \in Services : pc[s] = "importing" => found[s] = AttemptRecords
    /\ \A x \in Actions : attempt[x] # 0 => attempt[x] \in Nonces /\ saved[x] \in Metas
    /\ \A x, y \in Actions :
         attempt[x] # 0 /\ attempt[x] = attempt[y] /\ saved[x].addr = saved[y].addr
           => x = y
    /\ \A p \in sigs : attempt[p.action] = p.nonce /\ saved[p.action].addr = p.addr

\* An attempt is recorded before its only signing process runs.
ClaimInv ==
  /\ \A x \in Actions : signings[x] # 0 => attempt[x] # 0
  /\ \A x \in autos : attempt[x] # 0 /\ saved[x] \in Metas
  /\ \A s \in Services : pc[s] \in Unsigned =>
       /\ attempt[job[s].action] # 0 /\ signings[job[s].action] = 0
       /\ \A c \in cli : c.action # job[s].action
  /\ \A c \in cli : attempt[c.action] # 0 /\ signings[c.action] = 0
  /\ \A c, d \in cli : c.action = d.action => c = d

\* A service with an automatic step has seen its earlier ones on the chain.
AutoInv ==
  \A s \in Services :
    pc[s] \in Unmarked /\ job[s].auto =>
      \A x \in autos : saved[x] = Meta(s, job[s].addr) => x \in included

Inv == /\ TypeOK /\ LockInv /\ JobInv /\ JournalInv /\ ImportInv
       /\ ClaimInv /\ AutoInv /\ AutomaticWaits

\* Every step keeps the types: a submission that signs has read a nonce and an epoch
\* within their bounds.
LEMMA TypeOKKept ==
  ASSUME Inv, Next
  PROVE  TypeOK'
<1> USE SigningAssumption DEF Inv, TypeOK, Jobs, Metas, Grants, Records, Sigs,
      Nonces, Waits, Locked, JobInv, Submitting, Numbered, Dated, JournalInv
<1>1. ASSUME NEW s \in Services, ImportReads(s)
     PROVE  TypeOK'
  BY <1>1 DEF ImportReads, Attempted, node, disk, memory, history
<1>2. ASSUME NEW s \in Services, ImportWrites(s)
     PROVE  TypeOK'
  BY <1>2 DEF ImportWrites, node, disk, memory, history
<1>3. ASSUME NEW s \in Services, NEW x \in Actions, Prepare(s, x)
     PROVE  TypeOK'
  BY <1>3 DEF Prepare, Readable, Meta, node, disk, memory, history
<1>4. ASSUME NEW s \in Services, NEW x \in Actions, Submit(s, x)
     PROVE  TypeOK'
  BY <1>4 DEF Submit, Readable, Meta, Job, node, disk, memory, history
<1>5. ASSUME NEW s \in Services, NEW x \in Actions, Automatic(s, x)
     PROVE  TypeOK'
  BY <1>5 DEF Automatic, Readable, Meta, Job, node, disk, memory, history
<1>6. ASSUME NEW s \in Services, TakeLock(s)
     PROVE  TypeOK'
  BY <1>6 DEF TakeLock, node, disk, memory, history
<1>7. ASSUME NEW s \in Services, ReadAccount(s)
     PROVE  TypeOK'
  BY <1>7 DEF ReadAccount, node, disk, memory, history
<1>8. ASSUME NEW s \in Services, ReadEpoch(s)
     PROVE  TypeOK'
  BY <1>8 DEF ReadEpoch, node, disk, memory, history
<1>9. ASSUME NEW s \in Services, Check(s)
     PROVE  TypeOK'
  BY <1>9 DEF Check, Readable, Unreserved, node, disk, memory, history
<1>10. ASSUME NEW s \in Services, Append(s)
     PROVE  TypeOK'
  BY <1>10 DEF Append, node, disk, memory, history
<1>11. ASSUME NEW s \in Services, MarkAttempt(s)
     PROVE  TypeOK'
  BY <1>11 DEF MarkAttempt, node, disk, memory, history
<1>12. ASSUME NEW s \in Services, Unlock(s)
     PROVE  TypeOK'
  BY <1>12 DEF Unlock, node, disk, memory, history
<1>13. ASSUME NEW s \in Services,
              GiveUp(s) \/ FailLocked(s) \/ Launch(s) \/ Finish(s)
     PROVE  TypeOK'
  BY <1>13 DEF GiveUp, Leave, FailLocked, Launch, Finish, node, disk, memory, history
<1>14. ASSUME NEW s \in Services, UnlockGrant(s) \/ GrantEnds(s)
     PROVE  TypeOK'
  BY <1>14 DEF UnlockGrant, Readable, GrantEnds, node, disk, memory, history
<1>15. ASSUME NEW c \in cli, CliFails(c) \/ CliSigns(c)
     PROVE  TypeOK'
  BY <1>15 DEF CliFails, CliSigns, Signature, node, disk, memory, history
<1>16. ASSUME (\E t \in sent : Mine(t)) \/
              (\E t \in mempool : Drop(t)) \/
              (\E a \in Addrs : OtherTx(a))
     PROVE  TypeOK'
  BY <1>16 DEF Mine, Drop, Fault, OtherTx, node, disk, memory, history
<1>17. ASSUME NewEpoch
     PROVE  TypeOK'
  BY <1>17 DEF NewEpoch, Fault, node, disk, memory, history
<1>18. ASSUME SwitchIdentity
     PROVE  TypeOK'
  BY <1>18 DEF SwitchIdentity, Fault, node, disk, memory, history
<1>19. ASSUME Reconcile
     PROVE  TypeOK'
  BY <1>19 DEF Reconcile, node, disk, memory, history
<1>20. ASSUME Crash
     PROVE  TypeOK'
  <2>1. attempt' \in [Actions -> Nonces \cup {0, Unreadable}]
    <3>1. CASE \E s \in Services :
                 /\ pc[s] = "journaled"
                 /\ attempt' = [attempt EXCEPT ![job[s].action] = Unreadable]
      BY <3>1
    <3> QED
      BY <1>20, <3>1 DEF Crash
  <2>2. torn' \in BOOLEAN
    BY <1>20, Zenon DEF Crash
  <2>4. faults' \in 0..MaxFaults
    BY <1>20 DEF Crash, Fault
  <2>3. /\ pc' \in [Services -> Waits] /\ job' \in [Services -> Jobs \cup {None}]
        /\ found' \in [Services -> SUBSET Records]
        /\ grant' \in [Services -> Grants \cup {None}]
    BY <1>20 DEF Crash
  <2> QED
    BY <1>20, <2>1, <2>2, <2>3, <2>4 DEF Crash, node, history
<1> QED
  BY <1>1, <1>2, <1>3, <1>4, <1>5, <1>6, <1>7, <1>8, <1>9, <1>10, <1>11, <1>12,
      <1>13, <1>14, <1>15, <1>16, <1>17, <1>18, <1>19, <1>20
  DEF Next, World, Service, UnderLock

\* Every step keeps the lock exclusive: it is only removed by its holder, or when
\* nobody holds it.
LEMMA LockInvKept ==
  ASSUME Inv, Next
  PROVE  LockInv'
<1> USE DEF Inv, TypeOK, LockInv, Waits, Locked
<1>1. ASSUME NEW s \in Services, ImportReads(s) \/ ImportWrites(s)
     PROVE  LockInv'
  BY <1>1 DEF ImportReads, ImportWrites, node, disk, memory, history
<1>2. ASSUME NEW s \in Services, NEW x \in Actions,
              Prepare(s, x) \/ Submit(s, x) \/ Automatic(s, x)
     PROVE  LockInv'
  BY <1>2
  DEF Prepare, Readable, Meta, Submit, Job, Automatic, node, disk, memory, history
<1>3. ASSUME NEW s \in Services,
              TakeLock(s) \/ ReadAccount(s) \/ ReadEpoch(s) \/ Check(s)
     PROVE  LockInv'
  BY <1>3
  DEF TakeLock, ReadAccount, ReadEpoch, Check, Readable, Unreserved, node, disk,
      memory, history
<1>4. ASSUME NEW s \in Services, Append(s) \/ MarkAttempt(s) \/ Unlock(s)
     PROVE  LockInv'
  BY <1>4 DEF Append, MarkAttempt, Unlock, node, disk, memory, history
<1>5. ASSUME NEW s \in Services,
              GiveUp(s) \/ FailLocked(s) \/ Launch(s) \/ Finish(s)
     PROVE  LockInv'
  BY <1>5 DEF GiveUp, Leave, FailLocked, Launch, Finish, node, disk, memory, history
<1>6. ASSUME NEW s \in Services, UnlockGrant(s) \/ GrantEnds(s)
     PROVE  LockInv'
  BY <1>6 DEF UnlockGrant, Readable, GrantEnds, node, disk, memory, history
<1>7. ASSUME NEW c \in cli, CliFails(c) \/ CliSigns(c)
     PROVE  LockInv'
  BY <1>7 DEF CliFails, CliSigns, Signature, node, disk, memory, history
<1>8. ASSUME (\E t \in sent : Mine(t)) \/
              (\E t \in mempool : Drop(t)) \/
              (\E a \in Addrs : OtherTx(a))
     PROVE  LockInv'
  BY <1>8 DEF Mine, Drop, Fault, OtherTx, node, disk, memory, history
<1>9. ASSUME NewEpoch \/ SwitchIdentity \/ Reconcile
     PROVE  LockInv'
  BY <1>9 DEF NewEpoch, Fault, SwitchIdentity, Reconcile, node, disk, memory, history
<1>10. ASSUME Crash
     PROVE  LockInv'
  BY <1>10 DEF Crash, Fault, Unreadable, node, disk, memory, history
<1> QED
  BY <1>1, <1>2, <1>3, <1>4, <1>5, <1>6, <1>7, <1>8, <1>9, <1>10
  DEF Next, World, Service, UnderLock

\* Every step keeps what a submission holds: metadata of a saved action is final.
LEMMA JobInvKept ==
  ASSUME Inv, Next
  PROVE  JobInv'
<1> USE SigningAssumption DEF Inv, TypeOK, Nonces, Waits, Locked, Submitting,
      Numbered, Dated, JobInv, Jobs, Metas, Meta
<1>1. ASSUME NEW s \in Services, ImportReads(s) \/ ImportWrites(s)
     PROVE  JobInv'
  BY <1>1 DEF ImportReads, ImportWrites, node, disk, memory, history
<1>2. ASSUME NEW s \in Services, NEW x \in Actions, Prepare(s, x)
     PROVE  JobInv'
  BY <1>2 DEF Prepare, Readable, node, disk, memory, history
<1>3. ASSUME NEW s \in Services, NEW x \in Actions, Submit(s, x)
     PROVE  JobInv'
  BY <1>3 DEF Submit, Readable, Job, node, disk, memory, history
<1>4. ASSUME NEW s \in Services, NEW x \in Actions, Automatic(s, x)
     PROVE  JobInv'
  BY <1>4 DEF Automatic, Readable, Job, node, disk, memory, history
<1>5. ASSUME NEW s \in Services, TakeLock(s)
     PROVE  JobInv'
  BY <1>5 DEF TakeLock, node, disk, memory, history
<1>6. ASSUME NEW s \in Services, ReadAccount(s)
     PROVE  JobInv'
  BY <1>6 DEF ReadAccount, node, disk, memory, history
<1>7. ASSUME NEW s \in Services, ReadEpoch(s)
     PROVE  JobInv'
  BY <1>7 DEF ReadEpoch, node, disk, memory, history
<1>8. ASSUME NEW s \in Services, Check(s)
     PROVE  JobInv'
  BY <1>8 DEF Check, Readable, Unreserved, node, disk, memory, history
<1>9. ASSUME NEW s \in Services, Append(s) \/ MarkAttempt(s) \/ Unlock(s)
     PROVE  JobInv'
  BY <1>9 DEF Append, MarkAttempt, Unlock, node, disk, memory, history
<1>10. ASSUME NEW s \in Services,
              GiveUp(s) \/ FailLocked(s) \/ Launch(s) \/ Finish(s)
     PROVE  JobInv'
  BY <1>10 DEF GiveUp, Leave, FailLocked, Launch, Finish, node, disk, memory, history
<1>11. ASSUME NEW s \in Services, UnlockGrant(s) \/ GrantEnds(s)
     PROVE  JobInv'
  BY <1>11 DEF UnlockGrant, Readable, GrantEnds, node, disk, memory, history
<1>12. ASSUME NEW c \in cli, CliFails(c) \/ CliSigns(c)
     PROVE  JobInv'
  BY <1>12 DEF CliFails, CliSigns, Signature, node, disk, memory, history
<1>13. ASSUME (\E t \in sent : Mine(t)) \/
              (\E t \in mempool : Drop(t)) \/
              (\E a \in Addrs : OtherTx(a))
     PROVE  JobInv'
  BY <1>13 DEF Mine, Drop, Fault, OtherTx, node, disk, memory, history
<1>14. ASSUME NewEpoch \/ SwitchIdentity \/ Reconcile
     PROVE  JobInv'
  BY <1>14
  DEF NewEpoch, Fault, SwitchIdentity, Reconcile, node, disk, memory, history
<1>15. ASSUME Crash
     PROVE  JobInv'
  BY <1>15 DEF Crash, Fault, Unreadable, node, disk, memory, history
<1> QED
  BY <1>1, <1>2, <1>3, <1>4, <1>5, <1>6, <1>7, <1>8, <1>9, <1>10, <1>11, <1>12,
      <1>13, <1>14, <1>15
  DEF Next, World, Service, UnderLock

\* Every step keeps the journal: between the check of a nonce and its record no other
\* service writes one, and a signature finds its record.
LEMMA JournalInvKept ==
  ASSUME Inv, Next
  PROVE  JournalInv'
<1> USE SigningAssumption DEF Inv, TypeOK, Nonces, Waits, Locked, Submitting,
      Numbered, Dated, LockInv, JobInv, Jobs, JournalInv, Reserved, ImportInv,
      InJournal
<1>1. ASSUME NEW s \in Services, ImportReads(s)
     PROVE  JournalInv'
  BY <1>1 DEF ImportReads, node, disk, memory, history
<1>2. ASSUME NEW s \in Services, ImportWrites(s)
     PROVE  JournalInv'
  <2>1. CASE imported
    BY <1>2, <2>1 DEF ImportWrites, node, history
  <2>2. CASE ~imported
    <3>1. /\ journal' = AttemptRecords /\ cli' = {}
          /\ \A t \in Services : pc'[t] \in {"idle", "importing"}
      BY <1>2, <2>2 DEF ImportWrites
    <3>2. \A p, q \in journal' : p.addr = q.addr /\ p.nonce = q.nonce => p = q
      <4> SUFFICES ASSUME NEW p \in journal', NEW q \in journal',
                          p.addr = q.addr, p.nonce = q.nonce
                   PROVE  p = q
        OBVIOUS
      <4>1. PICK x \in Actions :
              /\ attempt[x] # 0
              /\ p = [addr |-> saved[x].addr, nonce |-> attempt[x], action |-> x]
        BY <3>1 DEF AttemptRecords, Attempted
      <4>2. PICK y \in Actions :
              /\ attempt[y] # 0
              /\ q = [addr |-> saved[y].addr, nonce |-> attempt[y], action |-> y]
        BY <3>1 DEF AttemptRecords, Attempted
      <4> QED
        BY <4>1, <4>2, <2>2
    <3>3. \A p \in sigs : InJournal(p)'
      <4> SUFFICES ASSUME NEW p \in sigs PROVE InJournal(p)'
        OBVIOUS
      <4> DEFINE x == p.action
      <4>1. /\ x \in Actions /\ p.addr \in Addrs /\ p.nonce \in Nonces
            /\ attempt[x] = p.nonce /\ saved[x].addr = p.addr
        BY <2>2 DEF Sigs
      <4>2. saved[x] \in Metas /\ saved[x] # None /\ attempt[x] # 0
        BY <4>1, <2>2 DEF Metas
      <4>3. x \in Attempted(p.addr)
        BY <4>1, <4>2 DEF Attempted
      <4> QED
        BY <4>1, <4>3, <3>1 DEF AttemptRecords
    <3>4. sigs' = sigs
      BY <1>2 DEF ImportWrites, history
    <3> QED
      BY <3>1, <3>2, <3>3, <3>4
  <2> QED
    BY <2>1, <2>2
<1>3. ASSUME NEW s \in Services, NEW x \in Actions,
              Prepare(s, x) \/ Submit(s, x) \/ Automatic(s, x)
     PROVE  JournalInv'
  BY <1>3
  DEF Prepare, Readable, Meta, Submit, Job, Automatic, node, disk, memory, history
<1>4. ASSUME NEW s \in Services,
              TakeLock(s) \/ ReadAccount(s) \/ ReadEpoch(s) \/ Check(s)
     PROVE  JournalInv'
  BY <1>4
  DEF TakeLock, ReadAccount, ReadEpoch, Check, Readable, Unreserved, node, disk,
      memory, history
<1>5. ASSUME NEW s \in Services, Append(s) \/ MarkAttempt(s) \/ Unlock(s)
     PROVE  JournalInv'
  BY <1>5 DEF Append, MarkAttempt, Unlock, node, disk, memory, history
<1>6. ASSUME NEW s \in Services, GiveUp(s)
     PROVE  JournalInv'
  BY <1>6 DEF GiveUp, Leave, node, disk, memory, history
<1>7. ASSUME NEW s \in Services, FailLocked(s)
     PROVE  JournalInv'
  BY <1>7 DEF FailLocked, Leave, node, disk, memory, history
<1>8. ASSUME NEW s \in Services, Launch(s)
     PROVE  JournalInv'
  BY <1>8 DEF Launch, node, disk, memory, history
<1>9. ASSUME NEW s \in Services, Finish(s)
     PROVE  JournalInv'
  BY <1>9 DEF Finish, Leave, node, disk, memory, history
<1>10. ASSUME NEW s \in Services, UnlockGrant(s)
     PROVE  JournalInv'
  BY <1>10 DEF UnlockGrant, Readable, node, disk, memory, history
<1>11. ASSUME NEW s \in Services, GrantEnds(s)
     PROVE  JournalInv'
  BY <1>11 DEF GrantEnds, node, disk, memory, history
<1>12. ASSUME NEW c \in cli, CliFails(c) \/ CliSigns(c)
     PROVE  JournalInv'
  BY <1>12 DEF CliFails, CliSigns, Signature, Sigs, node, disk, memory, history
<1>13. ASSUME (\E t \in sent : Mine(t)) \/
              (\E t \in mempool : Drop(t)) \/
              (\E a \in Addrs : OtherTx(a))
     PROVE  JournalInv'
  BY <1>13 DEF Mine, Drop, Fault, OtherTx, node, disk, memory, history
<1>14. ASSUME NewEpoch \/ SwitchIdentity \/ Reconcile
     PROVE  JournalInv'
  BY <1>14
  DEF NewEpoch, Fault, SwitchIdentity, Reconcile, node, disk, memory, history
<1>15. ASSUME Crash
     PROVE  JournalInv'
  BY <1>15 DEF Crash, Fault, Unreadable, node, disk, memory, history
<1> QED
  BY <1>1, <1>2, <1>3, <1>4, <1>5, <1>6, <1>7, <1>8, <1>9, <1>10, <1>11, <1>12,
      <1>13, <1>14, <1>15
  DEF Next, World, Service, UnderLock

\* Every step keeps the state before the import.
LEMMA ImportInvKept ==
  ASSUME Inv, Next
  PROVE  ImportInv'
<1> USE SigningAssumption DEF Inv, TypeOK, Nonces, Waits, Locked, Submitting,
      Numbered, Dated, ImportInv, AttemptRecords, Attempted, Readable
<1>1. ASSUME NEW s \in Services, ImportReads(s) \/ ImportWrites(s)
     PROVE  ImportInv'
  BY <1>1 DEF ImportReads, ImportWrites, node, disk, memory, history
<1>2. ASSUME NEW s \in Services, NEW x \in Actions,
              Prepare(s, x) \/ Submit(s, x) \/ Automatic(s, x)
     PROVE  ImportInv'
  BY <1>2 DEF Prepare, Meta, Submit, Job, Automatic, node, disk, memory, history
<1>3. ASSUME NEW s \in Services,
              TakeLock(s) \/ ReadAccount(s) \/ ReadEpoch(s) \/ Check(s)
     PROVE  ImportInv'
  BY <1>3
  DEF TakeLock, ReadAccount, ReadEpoch, Check, Unreserved, node, disk, memory,
      history
<1>4. ASSUME NEW s \in Services, Append(s) \/ MarkAttempt(s) \/ Unlock(s)
     PROVE  ImportInv'
  BY <1>4 DEF Append, MarkAttempt, Unlock, node, disk, memory, history
<1>5. ASSUME NEW s \in Services,
              GiveUp(s) \/ FailLocked(s) \/ Launch(s) \/ Finish(s)
     PROVE  ImportInv'
  BY <1>5 DEF GiveUp, Leave, FailLocked, Launch, Finish, node, disk, memory, history
<1>6. ASSUME NEW s \in Services, UnlockGrant(s) \/ GrantEnds(s)
     PROVE  ImportInv'
  BY <1>6 DEF UnlockGrant, GrantEnds, node, disk, memory, history
<1>7. ASSUME NEW c \in cli, CliFails(c) \/ CliSigns(c)
     PROVE  ImportInv'
  BY <1>7 DEF CliFails, CliSigns, Signature, node, disk, memory, history
<1>8. ASSUME (\E t \in sent : Mine(t)) \/
              (\E t \in mempool : Drop(t)) \/
              (\E a \in Addrs : OtherTx(a))
     PROVE  ImportInv'
  BY <1>8 DEF Mine, Drop, Fault, OtherTx, node, disk, memory, history
<1>9. ASSUME NewEpoch \/ SwitchIdentity \/ Reconcile
     PROVE  ImportInv'
  BY <1>9 DEF NewEpoch, Fault, SwitchIdentity, Reconcile, node, disk, memory, history
<1>10. ASSUME Crash
     PROVE  ImportInv'
  BY <1>10 DEF Crash, Fault, Unreadable, node, disk, memory, history
<1> QED
  BY <1>1, <1>2, <1>3, <1>4, <1>5, <1>6, <1>7, <1>8, <1>9, <1>10
  DEF Next, World, Service, UnderLock

\* Every step keeps the claims: an action is started once, since attempt.json is
\* created exclusively and belongs to one service.
LEMMA ClaimInvKept ==
  ASSUME Inv, Next
  PROVE  ClaimInv'
<1> USE SigningAssumption DEF Inv, TypeOK, Nonces, Waits, Locked, Submitting,
      Numbered, Dated, JobInv, Jobs, Metas, Meta, ClaimInv, Unsigned, Unreadable
<1>1. ASSUME NEW s \in Services, ImportReads(s) \/ ImportWrites(s)
     PROVE  ClaimInv'
  BY <1>1 DEF ImportReads, ImportWrites, node, disk, memory, history
<1>2. ASSUME NEW s \in Services, NEW x \in Actions,
              Prepare(s, x) \/ Submit(s, x) \/ Automatic(s, x)
     PROVE  ClaimInv'
  BY <1>2 DEF Prepare, Readable, Submit, Job, Automatic, node, disk, memory, history
<1>3. ASSUME NEW s \in Services, TakeLock(s)
     PROVE  ClaimInv'
  BY <1>3 DEF TakeLock, node, disk, memory, history
<1>4. ASSUME NEW s \in Services, ReadAccount(s)
     PROVE  ClaimInv'
  BY <1>4 DEF ReadAccount, node, disk, memory, history
<1>5. ASSUME NEW s \in Services, ReadEpoch(s)
     PROVE  ClaimInv'
  BY <1>5 DEF ReadEpoch, node, disk, memory, history
<1>6. ASSUME NEW s \in Services, Check(s)
     PROVE  ClaimInv'
  BY <1>6 DEF Check, Readable, Unreserved, node, disk, memory, history
<1>7. ASSUME NEW s \in Services, Append(s) \/ Unlock(s)
     PROVE  ClaimInv'
  BY <1>7 DEF Append, Unlock, node, disk, memory, history
<1>8. ASSUME NEW s \in Services, MarkAttempt(s)
     PROVE  ClaimInv'
  <2> DEFINE x == job[s].action
  <2>1. /\ x \in Actions /\ attempt[x] = 0 /\ attempt' = [attempt EXCEPT ![x] = job[s].nonce]
        /\ job[s].nonce # 0 /\ saved[x] = Meta(s, job[s].addr) /\ saved[x] \in Metas
    BY <1>8 DEF MarkAttempt
  <2>2. signings[x] = 0 /\ \A c \in cli : c.action # x
    BY <2>1
  <2>3. \A t \in Services : pc'[t] \in Unsigned =>
          /\ attempt'[job[t].action] # 0 /\ signings[job[t].action] = 0
          /\ \A c \in cli : c.action # job[t].action
    BY <1>8, <2>1, <2>2 DEF MarkAttempt
  <2>4. \A y \in autos' : attempt'[y] # 0 /\ saved[y] \in Metas
    BY <1>8, <2>1 DEF MarkAttempt
  <2>5. \A c \in cli : attempt'[c.action] # 0
    BY <2>1, <2>2
  <2>6. \A y \in Actions : signings[y] # 0 => attempt'[y] # 0
    BY <2>1, <2>2
  <2> QED
    BY <1>8, <2>3, <2>4, <2>5, <2>6 DEF MarkAttempt
<1>9. ASSUME NEW s \in Services, GiveUp(s) \/ FailLocked(s) \/ Finish(s)
     PROVE  ClaimInv'
  BY <1>9 DEF GiveUp, Leave, FailLocked, Finish, node, disk, memory, history
<1>10. ASSUME NEW s \in Services, Launch(s)
     PROVE  ClaimInv'
  <2> DEFINE x == job[s].action
  <2>1. attempt[x] # 0 /\ signings[x] = 0 /\ \A c \in cli : c.action # x
    BY <1>10 DEF Launch
  <2>2. \A t \in Services : t # s /\ pc[t] \in Unsigned => job[t].action # x
    <3> SUFFICES ASSUME NEW t \in Services, t # s, pc[t] \in Unsigned, job[t].action = x
                 PROVE  FALSE
      OBVIOUS
    <3>1. saved[x] = Meta(s, job[s].addr) /\ saved[x] = Meta(t, job[t].addr)
      BY <1>10 DEF Launch
    <3> QED
      BY <3>1 DEF Meta
  <2>3. cli' = cli \cup {job[s]} /\ \A c, d \in cli' : c.action = d.action => c = d
    BY <1>10, <2>1 DEF Launch
  <2>4. \A c \in cli' : attempt[c.action] # 0 /\ signings[c.action] = 0
    BY <2>1, <2>3
  <2>5. \A t \in Services : pc'[t] \in Unsigned =>
          /\ pc[t] \in Unsigned /\ t # s
          /\ \A c \in cli' : c.action # job[t].action
    BY <1>10, <2>2, <2>3 DEF Launch
  <2> QED
    BY <1>10, <2>3, <2>4, <2>5 DEF Launch, disk, history
<1>11. ASSUME NEW s \in Services, UnlockGrant(s) \/ GrantEnds(s)
     PROVE  ClaimInv'
  BY <1>11 DEF UnlockGrant, Readable, GrantEnds, node, disk, memory, history
<1>12. ASSUME NEW c \in cli, CliFails(c)
     PROVE  ClaimInv'
  BY <1>12 DEF CliFails, node, disk, memory, history
<1>13. ASSUME NEW c \in cli, CliSigns(c)
     PROVE  ClaimInv'
  BY <1>13 DEF CliSigns, Signature, node, disk, memory, history
<1>14. ASSUME (\E t \in sent : Mine(t)) \/
              (\E t \in mempool : Drop(t)) \/
              (\E a \in Addrs : OtherTx(a))
     PROVE  ClaimInv'
  BY <1>14 DEF Mine, Drop, Fault, OtherTx, node, disk, memory, history
<1>15. ASSUME NewEpoch \/ SwitchIdentity \/ Reconcile
     PROVE  ClaimInv'
  BY <1>15
  DEF NewEpoch, Fault, SwitchIdentity, Reconcile, node, disk, memory, history
<1>16. ASSUME Crash
     PROVE  ClaimInv'
  BY <1>16 DEF Crash, Fault, node, disk, memory, history
<1> QED
  BY <1>1, <1>2, <1>3, <1>4, <1>5, <1>6, <1>7, <1>8, <1>9, <1>10, <1>11, <1>12,
      <1>13, <1>14, <1>15, <1>16
  DEF Next, World, Service, UnderLock

\* Every step keeps what an automatic step waited for: a mined action stays mined.
LEMMA AutoInvKept ==
  ASSUME Inv, Next
  PROVE  AutoInv'
<1> USE SigningAssumption DEF Inv, TypeOK, Nonces, Waits, Locked, Submitting,
      Numbered, Dated, JobInv, Jobs, Metas, Meta, ClaimInv, AutoInv, Unmarked
<1>1. ASSUME NEW s \in Services, ImportReads(s) \/ ImportWrites(s)
     PROVE  AutoInv'
  BY <1>1 DEF ImportReads, ImportWrites, node, disk, memory, history
<1>2. ASSUME NEW s \in Services, NEW x \in Actions,
              Prepare(s, x) \/ Submit(s, x) \/ Automatic(s, x)
     PROVE  AutoInv'
  BY <1>2
  DEF Prepare, Readable, Submit, Job, Automatic, Unresolved, Attempted, node, disk,
      memory, history
<1>3. ASSUME NEW s \in Services, TakeLock(s)
     PROVE  AutoInv'
  BY <1>3 DEF TakeLock, node, disk, memory, history
<1>4. ASSUME NEW s \in Services, ReadAccount(s)
     PROVE  AutoInv'
  BY <1>4 DEF ReadAccount, node, disk, memory, history
<1>5. ASSUME NEW s \in Services, ReadEpoch(s)
     PROVE  AutoInv'
  BY <1>5 DEF ReadEpoch, node, disk, memory, history
<1>6. ASSUME NEW s \in Services, Check(s)
     PROVE  AutoInv'
  BY <1>6 DEF Check, Readable, Unreserved, node, disk, memory, history
<1>7. ASSUME NEW s \in Services, Append(s) \/ Unlock(s)
     PROVE  AutoInv'
  BY <1>7 DEF Append, Unlock, node, disk, memory, history
<1>8. ASSUME NEW s \in Services, MarkAttempt(s)
     PROVE  AutoInv'
  <2> SUFFICES ASSUME NEW t \in Services, pc'[t] \in Unmarked, job'[t].auto,
                      NEW x \in autos', saved'[x] = Meta(t, job'[t].addr)
               PROVE  x \in included'
    OBVIOUS
  <2>1. t # s /\ pc[t] \in Unmarked /\ job'[t] = job[t]
    BY <1>8 DEF MarkAttempt
  <2>2. saved[job[s].action] = Meta(s, job[s].addr)
    BY <1>8 DEF MarkAttempt
  <2>3. x # job[s].action
    BY <1>8, <2>1, <2>2 DEF MarkAttempt
  <2> QED
    BY <1>8, <2>1, <2>3 DEF MarkAttempt, node
<1>9. ASSUME NEW s \in Services,
              GiveUp(s) \/ FailLocked(s) \/ Launch(s) \/ Finish(s)
     PROVE  AutoInv'
  BY <1>9 DEF GiveUp, Leave, FailLocked, Launch, Finish, node, disk, memory, history
<1>10. ASSUME NEW s \in Services, UnlockGrant(s) \/ GrantEnds(s)
     PROVE  AutoInv'
  BY <1>10 DEF UnlockGrant, Readable, GrantEnds, node, disk, memory, history
<1>11. ASSUME NEW c \in cli, CliFails(c) \/ CliSigns(c)
     PROVE  AutoInv'
  BY <1>11 DEF CliFails, CliSigns, Signature, node, disk, memory, history
<1>12. ASSUME (\E t \in sent : Mine(t)) \/
              (\E t \in mempool : Drop(t)) \/
              (\E a \in Addrs : OtherTx(a))
     PROVE  AutoInv'
  BY <1>12 DEF Mine, Drop, Fault, OtherTx, node, disk, memory, history
<1>13. ASSUME NewEpoch \/ SwitchIdentity \/ Reconcile
     PROVE  AutoInv'
  BY <1>13
  DEF NewEpoch, Fault, SwitchIdentity, Reconcile, node, disk, memory, history
<1>14. ASSUME Crash
     PROVE  AutoInv'
  BY <1>14 DEF Crash, Fault, node, disk, memory, history
<1> QED
  BY <1>1, <1>2, <1>3, <1>4, <1>5, <1>6, <1>7, <1>8, <1>9, <1>10, <1>11, <1>12,
      <1>13, <1>14
  DEF Next, World, Service, UnderLock

\* Every step keeps the automatic attempts waiting.
LEMMA AutomaticWaitsKept ==
  ASSUME Inv, Next
  PROVE  AutomaticWaits'
<1> USE SigningAssumption DEF Inv, TypeOK, Nonces, Waits, Locked, Submitting,
      Numbered, Dated, JobInv, Jobs, Metas, Meta, ClaimInv, AutoInv, Unmarked,
      AutomaticWaits
<1>1. ASSUME NEW s \in Services, ImportReads(s) \/ ImportWrites(s)
     PROVE  AutomaticWaits'
  BY <1>1 DEF ImportReads, ImportWrites, node, disk, memory, history
<1>2. ASSUME NEW s \in Services, NEW x \in Actions,
              Prepare(s, x) \/ Submit(s, x) \/ Automatic(s, x)
     PROVE  AutomaticWaits'
  BY <1>2 DEF Prepare, Readable, Submit, Job, Automatic, node, disk, memory, history
<1>3. ASSUME NEW s \in Services,
              TakeLock(s) \/ ReadAccount(s) \/ ReadEpoch(s) \/ Check(s)
     PROVE  AutomaticWaits'
  BY <1>3
  DEF TakeLock, ReadAccount, ReadEpoch, Check, Readable, Unreserved, node, disk,
      memory, history
<1>4. ASSUME NEW s \in Services, Append(s) \/ Unlock(s)
     PROVE  AutomaticWaits'
  BY <1>4 DEF Append, Unlock, node, disk, memory, history
<1>5. ASSUME NEW s \in Services, MarkAttempt(s)
     PROVE  AutomaticWaits'
  <2> DEFINE x == job[s].action
  <2>1. \A y \in autos : job[s].auto /\ saved[y] = saved[x] => y \in included
    BY <1>5 DEF MarkAttempt
  <2>2. autos' \subseteq autos \cup {x} /\ (x \in autos' => x \in autos \/ job[s].auto)
    BY <1>5 DEF MarkAttempt
  <2>3. UNCHANGED <<saved, included>>
    BY <1>5 DEF MarkAttempt, node
  <2> QED
    BY <2>1, <2>2, <2>3
<1>6. ASSUME NEW s \in Services,
              GiveUp(s) \/ FailLocked(s) \/ Launch(s) \/ Finish(s)
     PROVE  AutomaticWaits'
  BY <1>6 DEF GiveUp, Leave, FailLocked, Launch, Finish, node, disk, memory, history
<1>7. ASSUME NEW s \in Services, UnlockGrant(s) \/ GrantEnds(s)
     PROVE  AutomaticWaits'
  BY <1>7 DEF UnlockGrant, Readable, GrantEnds, node, disk, memory, history
<1>8. ASSUME NEW c \in cli, CliFails(c) \/ CliSigns(c)
     PROVE  AutomaticWaits'
  BY <1>8 DEF CliFails, CliSigns, Signature, node, disk, memory, history
<1>9. ASSUME (\E t \in sent : Mine(t)) \/
              (\E t \in mempool : Drop(t)) \/
              (\E a \in Addrs : OtherTx(a))
     PROVE  AutomaticWaits'
  BY <1>9 DEF Mine, Drop, Fault, OtherTx, node, disk, memory, history
<1>10. ASSUME NewEpoch \/ SwitchIdentity \/ Reconcile
     PROVE  AutomaticWaits'
  BY <1>10
  DEF NewEpoch, Fault, SwitchIdentity, Reconcile, node, disk, memory, history
<1>11. ASSUME Crash
     PROVE  AutomaticWaits'
  BY <1>11 DEF Crash, Fault, node, disk, memory, history
<1> QED
  BY <1>1, <1>2, <1>3, <1>4, <1>5, <1>6, <1>7, <1>8, <1>9, <1>10, <1>11
  DEF Next, World, Service, UnderLock

\* Every step records an attempt that is not there, makes the one signature of a
\* recorded attempt, or does nothing PaidOnce can see.
LEMMA StepImplements ==
  ASSUME Inv, Next
  PROVE  [Once!Next]_(Once!once)
<1> USE SigningAssumption DEF Inv, TypeOK, Nonces, Waits, Locked, Submitting,
      Numbered, Dated, JobInv, Jobs, ClaimInv, Once!once
<1>1. ASSUME NEW s \in Services, ImportReads(s) \/ ImportWrites(s)
     PROVE  [Once!Next]_(Once!once)
  BY <1>1 DEF ImportReads, ImportWrites, node, disk, memory, history
<1>2. ASSUME NEW s \in Services, NEW x \in Actions,
              Prepare(s, x) \/ Submit(s, x) \/ Automatic(s, x)
     PROVE  [Once!Next]_(Once!once)
  BY <1>2
  DEF Prepare, Readable, Meta, Submit, Job, Automatic, node, disk, memory, history
<1>3. ASSUME NEW s \in Services,
              TakeLock(s) \/ ReadAccount(s) \/ ReadEpoch(s) \/ Check(s)
     PROVE  [Once!Next]_(Once!once)
  BY <1>3
  DEF TakeLock, ReadAccount, ReadEpoch, Check, Readable, Unreserved, node, disk,
      memory, history
<1>4. ASSUME NEW s \in Services, Append(s) \/ Unlock(s)
     PROVE  [Once!Next]_(Once!once)
  BY <1>4 DEF Append, Unlock, node, disk, memory, history
<1>5. ASSUME NEW s \in Services, MarkAttempt(s)
     PROVE  [Once!Next]_(Once!once)
  <2> DEFINE x == job[s].action
  <2>1. x \in Actions /\ attempt[x] = 0
        /\ attempt' = [attempt EXCEPT ![x] = job[s].nonce] /\ job[s].nonce # 0
        /\ UNCHANGED signings
    BY <1>5 DEF MarkAttempt
  <2> HIDE DEF x
  <2> QED
    BY <2>1 DEF Once!Next, Once!Claim, Once!Record
<1>6. ASSUME NEW s \in Services,
              GiveUp(s) \/ FailLocked(s) \/ Launch(s) \/ Finish(s)
     PROVE  [Once!Next]_(Once!once)
  BY <1>6 DEF GiveUp, Leave, FailLocked, Launch, Finish, node, disk, memory, history
<1>7. ASSUME NEW s \in Services, UnlockGrant(s) \/ GrantEnds(s)
     PROVE  [Once!Next]_(Once!once)
  BY <1>7 DEF UnlockGrant, Readable, GrantEnds, node, disk, memory, history
<1>8. ASSUME NEW c \in cli, CliFails(c)
     PROVE  [Once!Next]_(Once!once)
  BY <1>8 DEF CliFails, node, disk, memory, history
<1>9. ASSUME NEW c \in cli, CliSigns(c)
     PROVE  [Once!Next]_(Once!once)
  <2> DEFINE x == c.action
  <2>1. x \in Actions /\ attempt[x] # 0 /\ signings[x] = 0
    BY <1>9
  <2>2. signings' = [signings EXCEPT ![x] = 1] /\ UNCHANGED attempt
    BY <1>9, <2>1 DEF CliSigns, disk
  <2> HIDE DEF x
  <2> QED
    BY <2>1, <2>2 DEF Once!Next, Once!Act
<1>10. ASSUME (\E t \in sent : Mine(t)) \/
              (\E t \in mempool : Drop(t)) \/
              (\E a \in Addrs : OtherTx(a))
     PROVE  [Once!Next]_(Once!once)
  BY <1>10 DEF Mine, Drop, Fault, OtherTx, node, disk, memory, history
<1>11. ASSUME NewEpoch \/ SwitchIdentity \/ Reconcile
     PROVE  [Once!Next]_(Once!once)
  BY <1>11
  DEF NewEpoch, Fault, SwitchIdentity, Reconcile, node, disk, memory, history
<1>12. ASSUME Crash
     PROVE  [Once!Next]_(Once!once)
  <2>1. CASE \E s \in Services :
               /\ pc[s] = "journaled" /\ attempt[job[s].action] = 0
               /\ attempt' = [attempt EXCEPT ![job[s].action] = Unreadable]
    <3>1. PICK s \in Services :
            /\ pc[s] = "journaled" /\ attempt[job[s].action] = 0
            /\ attempt' = [attempt EXCEPT ![job[s].action] = Unreadable]
      BY <2>1
    <3> DEFINE x == job[s].action
    <3>2. x \in Actions /\ UNCHANGED signings
      BY <1>12, <3>1 DEF Crash, history
    <3>3. attempt[x] = 0 /\ attempt' = [attempt EXCEPT ![x] = Unreadable]
      BY <3>1
    <3> HIDE DEF x
    <3> QED
      BY <3>2, <3>3 DEF Once!Next, Once!Claim, Once!Record, Unreadable
  <2>2. CASE UNCHANGED attempt
    BY <1>12, <2>2 DEF Crash, history, Once!once
  <2> QED
    BY <1>12, <2>1, <2>2 DEF Crash
<1> QED
  BY <1>1, <1>2, <1>3, <1>4, <1>5, <1>6, <1>7, <1>8, <1>9, <1>10, <1>11, <1>12
  DEF Next, World, Service, UnderLock

\* Nothing changes.
LEMMA StutterKept ==
  ASSUME Inv, UNCHANGED vars
  PROVE  Inv'
<1>1. TypeOK'
  BY DEF Inv, TypeOK, vars
<1>2. LockInv' /\ JobInv' /\ JournalInv' /\ ImportInv'
  BY DEF Inv, LockInv, JobInv, JournalInv, ImportInv, InJournal, AttemptRecords,
         Attempted, Meta, vars
<1>3. ClaimInv' /\ AutoInv' /\ AutomaticWaits'
  BY DEF Inv, ClaimInv, AutoInv, AutomaticWaits, Meta, vars
<1> QED
  BY <1>1, <1>2, <1>3 DEF Inv

\* Attempts of an earlier release satisfy the invariant before their import.
LEMMA InitInv ==
  ASSUME Init
  PROVE  Inv /\ Once!Init
<1>1. PICK old \in Legacy :
        /\ saved = [x \in Actions |->
             IF \E p \in old : p.action = x
               THEN LET p == CHOOSE p \in old : p.action = x IN Meta(p.svc, p.addr)
               ELSE None]
        /\ attempt = [x \in Actions |->
             IF \E p \in old : p.action = x
               THEN (CHOOSE p \in old : p.action = x).nonce ELSE 0]
        /\ sigs = {[action |-> p.action, addr |-> p.addr, nonce |-> p.nonce,
                    epoch |-> 1] : p \in old}
        /\ signings = [x \in Actions |-> IF \E p \in old : p.action = x THEN 1 ELSE 0]
  BY DEF Init
<1>2. /\ old \subseteq [action: Actions, svc: Services, addr: Addrs, nonce: Nonces]
      /\ \A p, q \in old :
           p.action = q.action \/ (p.addr = q.addr /\ p.nonce = q.nonce) => p = q
  BY LegacyAssumption DEF Nonces
<1>3. \A p \in old : /\ saved[p.action] = Meta(p.svc, p.addr)
                     /\ attempt[p.action] = p.nonce
                     /\ signings[p.action] = 1
  <2> SUFFICES ASSUME NEW p \in old
               PROVE  /\ saved[p.action] = Meta(p.svc, p.addr)
                      /\ attempt[p.action] = p.nonce
                      /\ signings[p.action] = 1
    OBVIOUS
  <2> DEFINE q == CHOOSE q \in old : q.action = p.action
  <2>1. q \in old /\ q.action = p.action
    OBVIOUS
  <2>2. q = p
    BY <2>1, <1>2
  <2>3. p.action \in Actions
    BY <1>2
  <2> QED
    BY <1>1, <2>2, <2>3
<1>4. \A x \in Actions : (\A p \in old : p.action # x) =>
        saved[x] = None /\ attempt[x] = 0 /\ signings[x] = 0
  BY <1>1
<1>5. \A p \in old : saved[p.action] \in Metas /\ saved[p.action].addr = p.addr
  <2> SUFFICES ASSUME NEW p \in old
               PROVE  saved[p.action] \in Metas /\ saved[p.action].addr = p.addr
    OBVIOUS
  <2>1. p.svc \in Services /\ p.addr \in Addrs
    BY <1>2
  <2>2. saved[p.action] = [svc |-> p.svc, addr |-> p.addr]
    BY <1>3 DEF Meta
  <2> QED
    BY <2>1, <2>2 DEF Metas
<1>6. TypeOK
  <2>1. saved \in [Actions -> Metas \cup {None}]
    <3>1. \A x \in Actions : saved[x] \in Metas \cup {None}
      BY <1>4, <1>5
    <3> QED
      BY <1>1, <3>1
  <2>2. /\ attempt \in [Actions -> Nonces \cup {0, Unreadable}]
        /\ signings \in [Actions -> Nat]
    <3>1. \A x \in Actions : attempt[x] \in Nonces \cup {0, Unreadable} /\ signings[x] \in Nat
      BY <1>2, <1>3, <1>4
    <3> QED
      BY <1>1, <3>1
  <2>3. sigs \subseteq Sigs
    BY <1>1, <1>2, SigningAssumption DEF Sigs
  <2>4. /\ coinbase \in Addrs /\ epoch \in 1..MaxEpoch /\ confirmed \in [Addrs -> 0..MaxNonce]
        /\ faults \in 0..MaxFaults /\ cli \subseteq Jobs /\ autos \subseteq Actions
    BY SigningAssumption DEF Init
  <2>5. /\ mempool \subseteq Sigs /\ sent \subseteq Sigs /\ included \subseteq Actions
        /\ lock \in BOOLEAN /\ imported \in BOOLEAN /\ torn \in BOOLEAN
        /\ journal \subseteq Records
    BY DEF Init
  <2>6. /\ pc \in [Services -> Waits] /\ job \in [Services -> Jobs \cup {None}]
        /\ found \in [Services -> SUBSET Records]
        /\ grant \in [Services -> Grants \cup {None}]
    BY DEF Init, Waits
  <2> QED
    BY <2>1, <2>2, <2>3, <2>4, <2>5, <2>6 DEF TypeOK
<1>7. LockInv /\ JobInv /\ JournalInv /\ AutoInv /\ AutomaticWaits
  BY DEF Init, LockInv, JobInv, JournalInv, AutoInv, AutomaticWaits, Submitting,
         Numbered, Dated, Reserved, Unmarked, Locked
<1>8. ImportInv
  <2>1. \A x \in Actions : attempt[x] # 0 => \E p \in old : p.action = x
    BY <1>4
  <2>2. \A x \in Actions : attempt[x] # 0 => attempt[x] \in Nonces /\ saved[x] \in Metas
    BY <2>1, <1>2, <1>3, <1>5
  <2>3. \A x, y \in Actions :
          attempt[x] # 0 /\ attempt[x] = attempt[y] /\ saved[x].addr = saved[y].addr
            => x = y
    <3> SUFFICES ASSUME NEW x \in Actions, NEW y \in Actions, attempt[x] # 0,
                        attempt[x] = attempt[y], saved[x].addr = saved[y].addr
                 PROVE  x = y
      OBVIOUS
    <3>1. PICK p \in old : p.action = x
      BY <2>1
    <3>2. PICK q \in old : q.action = y
      BY <2>1
    <3>3. p.nonce = q.nonce /\ p.addr = q.addr
      BY <1>3, <1>5, <3>1, <3>2
    <3> QED
      BY <1>2, <3>1, <3>2, <3>3
  <2>4. \A p \in sigs : attempt[p.action] = p.nonce /\ saved[p.action].addr = p.addr
    <3> SUFFICES ASSUME NEW g \in sigs
                 PROVE  attempt[g.action] = g.nonce /\ saved[g.action].addr = g.addr
      OBVIOUS
    <3>1. PICK p \in old : g = [action |-> p.action, addr |-> p.addr,
                                nonce |-> p.nonce, epoch |-> 1]
      BY <1>1
    <3>2. g.action = p.action /\ g.addr = p.addr /\ g.nonce = p.nonce
      BY <3>1
    <3> QED
      BY <1>3, <1>5, <3>2
  <2> QED
    BY <2>2, <2>3, <2>4 DEF Init, ImportInv
<1>9. ClaimInv
  <2>1. \A x \in Actions : signings[x] # 0 => attempt[x] # 0
    BY <1>2, <1>3, <1>4 DEF Nonces
  <2> QED
    BY <2>1 DEF Init, ClaimInv, Unsigned
<1>10. Once!Init
  <2>1. signings \in [Actions -> {0, 1}]
    BY <1>1
  <2>2. \A x \in Actions : attempt[x] = 0 => signings[x] = 0
    BY <1>2, <1>3, <1>4 DEF Nonces
  <2> QED
    BY <2>1, <2>2 DEF Once!Init
<1> QED
  BY <1>6, <1>7, <1>8, <1>9, <1>10 DEF Inv

-----------------------------------------------------------------------------
(* The theorems.                                                            *)

\* The invariant holds in every reachable state.
LEMMA Invariance == Spec => []Inv
<1>1. Init => Inv
  BY InitInv
<1>2. Inv /\ [Next]_vars => Inv'
  BY TypeOKKept, LockInvKept, JobInvKept, JournalInvKept, ImportInvKept, ClaimInvKept,
     AutoInvKept, AutomaticWaitsKept, StutterKept DEF Inv
<1> QED
  BY <1>1, <1>2, PTL DEF Spec

\* Every variable of the signing services keeps its type: the nonce of a job stays
\* within the account's nonces and a grant within its fee ceiling.
THEOREM TypesKept == Spec => []TypeOK
<1>1. Inv => TypeOK
  BY DEF Inv
<1> QED
  BY <1>1, Invariance, PTL

\* No two actions are ever signed with one nonce of an identity: withNonceLock,
\* checkNonceReservations and the journal hold whatever crashes, however many
\* services share the directory and whatever an earlier release left.
THEOREM NonceSignedOnce == Spec => []OneSignaturePerNonce
<1>1. Inv => OneSignaturePerNonce
  <2> SUFFICES ASSUME Inv, NEW p \in sigs, NEW q \in sigs,
                      p.addr = q.addr, p.nonce = q.nonce
               PROVE  p.action = q.action
    BY DEF OneSignaturePerNonce
  <2>1. CASE imported
    <3>1. InJournal(p) /\ InJournal(q)
      BY <2>1 DEF Inv, JournalInv
    <3> QED
      BY <3>1 DEF Inv, JournalInv, InJournal
  <2>2. CASE ~imported
    <3>1. p.action \in Actions /\ q.action \in Actions /\ p.nonce # 0
      BY DEF Inv, TypeOK, Sigs, Nonces
    <3> QED
      BY <2>2, <3>1 DEF Inv, ImportInv
  <2> QED
    BY <2>1, <2>2
<1> QED
  BY <1>1, Invariance, PTL

\* The automatic trade handling of a service never has two unmined steps of one
\* identity, across restarts and renewed grants (tick, resolvedActions).
THEOREM AutomaticStepsWait == Spec => []AutomaticWaits
<1>1. Inv => AutomaticWaits
  BY DEF Inv
<1> QED
  BY <1>1, Invariance, PTL

\* Signing implements PaidOnce: attempt.json is written before the only signature
\* of its action, and neither a crash nor a retry makes a second one (submit).
THEOREM SigningImplementsPaidOnce == Spec => SignsOnce
<1>1. Init => Once!Init
  BY InitInv
<1>2. Inv /\ [Next]_vars => [Once!Next]_(Once!once)
  <2>1. ASSUME Inv, UNCHANGED vars PROVE [Once!Next]_(Once!once)
    BY <2>1 DEF vars, Once!once
  <2> QED
    BY <2>1, StepImplements
<1> QED
  BY <1>1, <1>2, Invariance, PTL DEF Spec, SignsOnce, Once!Spec
=============================================================================
