---------------------------- MODULE WatchdogProofs ----------------------------
(***************************************************************************)
(* Proofs about Watchdog: its types, that restarts keep their distance,    *)
(* that an outage is restarted for once, and that it is proven.            *)
(*                                                                         *)
(* What the watchdog may do depends on one file alone, and on the time     *)
(* between two looks at the node. So each proof says what the saved state, *)
(* and the state a running watchdog holds, still witness of the past.      *)
(***************************************************************************)
EXTENDS Watchdog, FiniteSetTheorems, TLAPS

-----------------------------------------------------------------------------
(* One evaluation.                                                          *)

\* A state the watchdog can save or hold: what it counts has begun and is armed, and
\* an identity is not offline while peers are missing.
Sound(s) ==
  /\ s \in States
  /\ IsFiniteSet(s.restarts) /\ Cardinality(s.restarts) <= Budget
  /\ s.zeroSince = None <=> s.samples = 0
  /\ s.zeroSince # None => s.armed /\ s.zeroSince <= now
  /\ s.armed => s.ever
  /\ s.zeroSince = None \/ s.falseSince = None
  /\ s.boot <= boot /\ s.invocation <= invocation

HostOK ==
  /\ now \in Times /\ offset \in Int /\ boot \in 0..MaxFaults
  /\ active \in BOOLEAN /\ invocation \in 1..MaxStarts /\ startedAt \in Times
  /\ faults \in 0..MaxFaults /\ boot <= faults

\* The moment of a look is a time, and not none.
LEMMA Moments == None \notin Times /\ \A t \in Latest : t # None => t \in Nat
BY WatchdogAssumption DEF Times, Latest

\* Only restarts of the state are left in it.
LEMMA PrunedFinite ==
  ASSUME NEW s, IsFiniteSet(s)
  PROVE  Pruned(s) \subseteq s /\ IsFiniteSet(Pruned(s)) /\ Cardinality(Pruned(s)) <= Cardinality(s)
BY FS_Subset DEF Pruned

\* A new boot or main process leaves what is known for good.
LEMMA RenewedFields ==
  ASSUME HostOK, NEW s \in States
  PROVE  LET r == Renewed(s) IN
         /\ r \in States /\ r.boot = boot /\ r.invocation = invocation
         /\ r.ever = s.ever /\ r.last = s.last /\ r.restarts = s.restarts
         /\ r.restarted["online"] = s.restarted["online"]
         /\ r.restarted["peer"] <=> s.restarted["peer"] /\ s.boot = boot
         /\ \/ /\ r = s
            \/ /\ ~(s.boot = boot /\ s.invocation = invocation)
               /\ ~r.armed /\ r.zeroSince = None /\ r.samples = 0 /\ r.falseSince = None
<1> DEFINE r == Renewed(s)
           latches == [s.restarted EXCEPT !["peer"] = @ /\ s.boot = boot]
<1>1. CASE s.boot = boot /\ s.invocation = invocation
  BY <1>1 DEF Renewed, States, Faults
<1>2. CASE ~(s.boot = boot /\ s.invocation = invocation)
  <2>1. r = [s EXCEPT !.boot = boot, !.invocation = invocation, !.armed = FALSE,
                      !.zeroSince = None, !.samples = 0, !.falseSince = None,
                      !.restarted = latches]
    BY <1>2 DEF Renewed
  <2>2. /\ latches \in [Faults -> BOOLEAN]
        /\ latches["online"] = s.restarted["online"]
        /\ latches["peer"] <=> s.restarted["peer"] /\ s.boot = boot
    BY DEF States, Faults
  <2> HIDE DEF latches, r
  <2>3. boot \in 0..MaxFaults /\ invocation \in 0..MaxStarts /\ 0 \in 0..Samples
    BY WatchdogAssumption DEF HostOK
  <2>4. /\ r \in States /\ r.boot = boot /\ r.invocation = invocation
        /\ r.ever = s.ever /\ r.last = s.last /\ r.restarts = s.restarts
        /\ ~r.armed /\ r.zeroSince = None /\ r.samples = 0 /\ r.falseSince = None
        /\ r.restarted = latches
    BY <2>1, <2>2, <2>3 DEF States, Latest
  <2> QED
    BY <1>2, <2>2, <2>4 DEF r
<1> QED
  BY <1>1, <1>2

\* What is counted has begun, and is counted by an armed monitor.
Counted(s) ==
  /\ s.zeroSince = None <=> s.samples = 0
  /\ s.zeroSince # None => s.armed /\ s.zeroSince <= now
  /\ s.armed => s.ever

\* One more sample without peers continues what is counted, or begins it.
Continues(s, r) ==
  \/ s.zeroSince = now /\ s.samples = 1
  \/ /\ r.zeroSince # None /\ s.zeroSince = r.zeroSince
     /\ s.samples <= r.samples + 1

\* Of the peers only the evidence of an outage and its latch depend.
LEMMA PeersFields ==
  ASSUME HostOK, NEW r \in States, Counted(r), NEW snapshot \in Snapshots
  PROVE  LET p == PeersSeen(r, snapshot) IN
         /\ p \in States /\ Counted(p)
         /\ p.boot = r.boot /\ p.invocation = r.invocation
         /\ p.last = r.last /\ p.restarts = r.restarts /\ p.falseSince = r.falseSince
         /\ p.restarted["online"] = r.restarted["online"]
         /\ p.restarted["peer"] <=> r.restarted["peer"] /\ snapshot.peers # "some"
         /\ p.zeroSince # None => snapshot.peers = "zero" /\ Continues(p, r)
<1> DEFINE p == PeersSeen(r, snapshot)
<1>0. /\ now \in Times /\ now \in Latest /\ now # None /\ None \in Latest
      /\ 0 \in 0..Samples /\ 1 \in 0..Samples
  BY WatchdogAssumption, Moments DEF HostOK, Latest
<1>1. CASE snapshot.peers = "some"
  <2> DEFINE latches == [r.restarted EXCEPT !["peer"] = FALSE]
  <2>1. p = [r EXCEPT !.ever = TRUE, !.armed = TRUE, !.zeroSince = None, !.samples = 0,
                      !.restarted = latches]
    BY <1>1 DEF PeersSeen, SomeSeen
  <2>2. /\ latches \in [Faults -> BOOLEAN] /\ latches["online"] = r.restarted["online"]
        /\ ~latches["peer"]
    BY DEF States, Faults
  <2> HIDE DEF latches, p
  <2>3. /\ p \in States /\ p.boot = r.boot /\ p.invocation = r.invocation
        /\ p.last = r.last /\ p.restarts = r.restarts /\ p.falseSince = r.falseSince
        /\ p.zeroSince = None /\ p.samples = 0 /\ p.armed /\ p.ever
        /\ p.restarted = latches
    BY <1>0, <2>1, <2>2 DEF States
  <2> QED
    BY <1>1, <2>2, <2>3 DEF Counted, p
<1>2. CASE snapshot.peers = "unknown"
  <2>1. p = [r EXCEPT !.zeroSince = None, !.samples = 0]
    BY <1>2 DEF PeersSeen
  <2> HIDE DEF p
  <2>2. /\ p \in States /\ p.boot = r.boot /\ p.invocation = r.invocation
        /\ p.last = r.last /\ p.restarts = r.restarts /\ p.falseSince = r.falseSince
        /\ p.zeroSince = None /\ p.samples = 0 /\ p.armed = r.armed /\ p.ever = r.ever
        /\ p.restarted = r.restarted
    BY <1>0, <2>1 DEF States
  <2> QED
    BY <1>2, <2>2 DEF Counted, p
<1>3. CASE snapshot.peers = "zero"
  <2>1. CASE r.armed \/ (r.ever /\ active /\ Uptime >= Grace)
    <3> DEFINE since == IF r.zeroSince = None THEN now ELSE r.zeroSince
               number == IF r.zeroSince = None THEN 1
                         ELSE IF r.samples < Samples THEN r.samples + 1 ELSE r.samples
    <3>1. p = [r EXCEPT !.armed = TRUE, !.zeroSince = since, !.samples = number]
      BY <1>3, <2>1 DEF PeersSeen, ZeroSeen
    <3>2. since \in Latest /\ since # None /\ since <= now
      BY <1>0, Moments DEF States, Counted, Times
    <3>3. number \in 1..Samples
      BY <1>0, WatchdogAssumption DEF States, Counted
    <3>7. number \in 0..Samples
      BY <3>3, WatchdogAssumption
    <3>4. /\ r.zeroSince = None => since = now /\ number = 1
          /\ r.zeroSince # None => since = r.zeroSince /\ number <= r.samples + 1
      BY DEF States
    <3> HIDE DEF since, number, p
    <3>5. /\ p \in States /\ p.boot = r.boot /\ p.invocation = r.invocation
          /\ p.last = r.last /\ p.restarts = r.restarts /\ p.falseSince = r.falseSince
          /\ p.zeroSince = since /\ p.samples = number /\ p.armed /\ p.ever = r.ever
          /\ p.restarted = r.restarted
      BY <3>1, <3>2, <3>7 DEF States
    <3>6. r.ever
      BY <2>1 DEF Counted
    <3> QED
      BY <1>3, <3>2, <3>3, <3>4, <3>5, <3>6 DEF Counted, Continues, p
  <2>2. CASE ~(r.armed \/ (r.ever /\ active /\ Uptime >= Grace))
    <3>1. p = r
      BY <1>3, <2>2 DEF PeersSeen, ZeroSeen
    <3> QED
      BY <1>3, <2>2, <3>1 DEF Counted
  <2> QED
    BY <2>1, <2>2
<1> QED
  BY <1>1, <1>2, <1>3 DEF Snapshots

\* Of the identity only the evidence of its episode and its latch depend.
LEMMA IdentityFields ==
  ASSUME HostOK, NEW p \in States, NEW snapshot \in Snapshots
  PROVE  LET e == IdentitySeen(p, snapshot) IN
         /\ e \in States
         /\ e.boot = p.boot /\ e.invocation = p.invocation
         /\ e.last = p.last /\ e.restarts = p.restarts
         /\ e.zeroSince = p.zeroSince /\ e.samples = p.samples
         /\ e.armed = p.armed /\ e.ever = p.ever
         /\ e.restarted["peer"] = p.restarted["peer"]
         /\ e.restarted["online"] <=> p.restarted["online"] /\ snapshot.health # "online"
         /\ e.falseSince # None <=> snapshot.health = "offline"
         /\ e.falseSince # None => e.falseSince \in {now, p.falseSince}
<1> DEFINE e == IdentitySeen(p, snapshot)
<1>0. now \in Latest /\ now # None /\ None \in Latest
  BY Moments DEF HostOK, Latest
<1>1. CASE snapshot.health = "online"
  <2> DEFINE latches == [p.restarted EXCEPT !["online"] = FALSE]
  <2>1. e = [p EXCEPT !.falseSince = None, !.restarted = latches]
    BY <1>1 DEF IdentitySeen
  <2>2. /\ latches \in [Faults -> BOOLEAN] /\ latches["peer"] = p.restarted["peer"]
        /\ ~latches["online"]
    BY DEF States, Faults
  <2> HIDE DEF latches, e
  <2>3. /\ e \in States /\ e.boot = p.boot /\ e.invocation = p.invocation
        /\ e.last = p.last /\ e.restarts = p.restarts
        /\ e.zeroSince = p.zeroSince /\ e.samples = p.samples
        /\ e.armed = p.armed /\ e.ever = p.ever
        /\ e.falseSince = None /\ e.restarted = latches
    BY <1>0, <2>1, <2>2 DEF States
  <2> QED
    BY <1>1, <2>2, <2>3 DEF e
<1>2. CASE snapshot.health # "online"
  <2>1. PICK since \in {None, now, p.falseSince} :
          /\ e = [p EXCEPT !.falseSince = since]
          /\ since # None <=> snapshot.health = "offline"
    BY <1>0, <1>2 DEF IdentitySeen, Snapshots
  <2> HIDE DEF e
  <2>2. /\ e \in States /\ e.boot = p.boot /\ e.invocation = p.invocation
        /\ e.last = p.last /\ e.restarts = p.restarts
        /\ e.zeroSince = p.zeroSince /\ e.samples = p.samples
        /\ e.armed = p.armed /\ e.ever = p.ever
        /\ e.falseSince = since /\ e.restarted = p.restarted
    BY <1>0, <2>1 DEF States
  <2> QED
    BY <1>2, <2>1, <2>2 DEF e
<1> QED
  BY <1>1, <1>2

\* What an evaluation does to the saved state.
LEMMA EvaluatedFields ==
  ASSUME HostOK, NEW s, Sound(s), NEW snapshot \in Snapshots, Possible(snapshot)
  PROVE  LET e == Evaluated(s, snapshot) IN
         /\ Sound(e) /\ e.boot = boot /\ e.invocation = invocation
         /\ e.last = s.last /\ e.restarts = Pruned(s.restarts)
         /\ e.restarted["online"] <=> s.restarted["online"] /\ snapshot.health # "online"
         /\ e.restarted["peer"] <=>
              s.restarted["peer"] /\ s.boot = boot /\ snapshot.peers # "some"
         /\ e.zeroSince # None =>
              /\ snapshot.peers = "zero"
              /\ \/ e.zeroSince = now /\ e.samples = 1
                 \/ s.boot = boot /\ s.invocation = invocation /\ Continues(e, s)
         /\ e.falseSince # None <=> snapshot.health = "offline"
         /\ e.falseSince # None => e.falseSince = now \/ e.falseSince = s.falseSince
<1> DEFINE r == Renewed(s)
           p == PeersSeen(r, snapshot)
           i == IdentitySeen(p, snapshot)
           e == Evaluated(s, snapshot)
<1>1. s \in States
  BY DEF Sound
<1>2. /\ r \in States /\ r.boot = boot /\ r.invocation = invocation
      /\ r.ever = s.ever /\ r.last = s.last /\ r.restarts = s.restarts
      /\ r.restarted["online"] = s.restarted["online"]
      /\ r.restarted["peer"] <=> s.restarted["peer"] /\ s.boot = boot
      /\ \/ r = s
         \/ /\ ~(s.boot = boot /\ s.invocation = invocation)
            /\ ~r.armed /\ r.zeroSince = None /\ r.samples = 0 /\ r.falseSince = None
  BY <1>1, RenewedFields
<1>3. Counted(r)
  BY <1>2 DEF Sound, Counted
<1> HIDE DEF r
<1>4. /\ p \in States /\ Counted(p)
      /\ p.boot = r.boot /\ p.invocation = r.invocation
      /\ p.last = r.last /\ p.restarts = r.restarts /\ p.falseSince = r.falseSince
      /\ p.restarted["online"] = r.restarted["online"]
      /\ p.restarted["peer"] <=> r.restarted["peer"] /\ snapshot.peers # "some"
      /\ p.zeroSince # None => snapshot.peers = "zero" /\ Continues(p, r)
  BY <1>2, <1>3, PeersFields
<1> HIDE DEF p
<1>5. /\ i \in States
      /\ i.boot = p.boot /\ i.invocation = p.invocation
      /\ i.last = p.last /\ i.restarts = p.restarts
      /\ i.zeroSince = p.zeroSince /\ i.samples = p.samples
      /\ i.armed = p.armed /\ i.ever = p.ever
      /\ i.restarted["peer"] = p.restarted["peer"]
      /\ i.restarted["online"] <=> p.restarted["online"] /\ snapshot.health # "online"
      /\ i.falseSince # None <=> snapshot.health = "offline"
      /\ i.falseSince # None => i.falseSince \in {now, p.falseSince}
  BY <1>4, IdentityFields
<1> HIDE DEF i
<1>6. e = [i EXCEPT !.restarts = Pruned(i.restarts)]
  BY DEF Evaluated, i, p, r
<1> HIDE DEF e
<1>7. Pruned(i.restarts) \in SUBSET [at: Int, nr: Nat]
  BY <1>5 DEF States, Pruned
<1>8. /\ e \in States
      /\ e.boot = i.boot /\ e.invocation = i.invocation
      /\ e.last = i.last /\ e.restarts = Pruned(i.restarts)
      /\ e.zeroSince = i.zeroSince /\ e.samples = i.samples /\ e.falseSince = i.falseSince
      /\ e.armed = i.armed /\ e.ever = i.ever /\ e.restarted = i.restarted
  BY <1>5, <1>6, <1>7 DEF States
<1>9. e.restarts = Pruned(s.restarts)
  BY <1>2, <1>4, <1>5, <1>8
<1>10. IsFiniteSet(e.restarts) /\ Cardinality(e.restarts) <= Budget
  <2>1. /\ IsFiniteSet(s.restarts) /\ Cardinality(s.restarts) <= Budget
        /\ Cardinality(s.restarts) \in Nat
    BY FS_CardinalityType DEF Sound
  <2>2. /\ IsFiniteSet(Pruned(s.restarts)) /\ Cardinality(Pruned(s.restarts)) \in Nat
        /\ Cardinality(Pruned(s.restarts)) <= Cardinality(s.restarts)
    BY <2>1, PrunedFinite, FS_CardinalityType
  <2> QED
    BY <1>9, <2>1, <2>2, WatchdogAssumption
<1>11. e.zeroSince # None =>
         /\ snapshot.peers = "zero"
         /\ \/ e.zeroSince = now /\ e.samples = 1
            \/ s.boot = boot /\ s.invocation = invocation /\ Continues(e, s)
  BY <1>2, <1>4, <1>5, <1>8 DEF Continues
<1>12. /\ e.falseSince # None <=> snapshot.health = "offline"
       /\ e.falseSince # None => e.falseSince = now \/ e.falseSince = s.falseSince
  BY <1>2, <1>4, <1>5, <1>8
<1>13. e.zeroSince = None \/ e.falseSince = None
  BY <1>11, <1>12 DEF Possible
<1>14. e.boot = boot /\ e.invocation = invocation
  BY <1>2, <1>4, <1>5, <1>8
<1>15. Sound(e)
  BY <1>4, <1>5, <1>8, <1>10, <1>13, <1>14 DEF Sound, Counted, HostOK
<1>16. /\ e.last = s.last
       /\ e.restarted["online"] <=> s.restarted["online"] /\ snapshot.health # "online"
       /\ e.restarted["peer"] <=>
            s.restarted["peer"] /\ s.boot = boot /\ snapshot.peers # "some"
  BY <1>2, <1>4, <1>5, <1>8
<1> QED
  BY <1>9, <1>11, <1>12, <1>14, <1>15, <1>16 DEF e

\* What is saved before a restart is tried.
LEMMA StartedFields ==
  ASSUME HostOK, NEW s, Sound(s), Cardinality(s.restarts) < Budget, NEW fault \in Faults,
         decided \in Seq(Times)
  PROVE  LET m == Started(s, fault) IN
         /\ Sound(m) /\ m.boot = s.boot /\ m.invocation = s.invocation
         /\ m.last = wall /\ m.restarted[fault]
         /\ m.restarts = Pruned(s.restarts) \cup {[at |-> wall, nr |-> Len(decided) + 1]}
         /\ \A f \in Faults : s.restarted[f] => m.restarted[f]
         /\ m.zeroSince # None => m.zeroSince = s.zeroSince /\ m.samples = s.samples
<1> DEFINE new   == [at |-> wall, nr |-> Len(decided) + 1]
           times == Pruned(s.restarts) \cup {new}
           latches == [s.restarted EXCEPT ![fault] = TRUE]
           m == Started(s, fault)
<1>1. s \in States /\ IsFiniteSet(s.restarts) /\ Cardinality(s.restarts) \in Nat
  BY FS_CardinalityType DEF Sound
<1>2. wall \in Int /\ new \in [at: Int, nr: Nat]
  BY DEF HostOK, wall, Times
<1>3. /\ IsFiniteSet(Pruned(s.restarts)) /\ Cardinality(Pruned(s.restarts)) \in Nat
      /\ Cardinality(Pruned(s.restarts)) <= Cardinality(s.restarts)
  BY <1>1, PrunedFinite, FS_CardinalityType
<1> HIDE DEF new
<1>4. IsFiniteSet(times) /\ Cardinality(times) <= Budget
  <2>1. /\ IsFiniteSet(times)
        /\ \/ Cardinality(times) = Cardinality(Pruned(s.restarts))
           \/ Cardinality(times) = Cardinality(Pruned(s.restarts)) + 1
    BY <1>3, FS_AddElement
  <2> QED
    BY <1>1, <1>3, <2>1, WatchdogAssumption
<1>5. times \in SUBSET [at: Int, nr: Nat]
  BY <1>1, <1>2 DEF States, Pruned
<1>6. /\ latches \in [Faults -> BOOLEAN] /\ latches[fault]
      /\ \A f \in Faults : s.restarted[f] => latches[f]
  BY <1>1 DEF States
<1> DEFINE marked == [s EXCEPT !.restarted = latches, !.last = wall, !.restarts = times]
<1>7. ~(Cardinality(times) > Budget)
  <2>1. Cardinality(times) \in Nat
    BY <1>4, FS_CardinalityType
  <2> QED
    BY <1>4, <2>1, WatchdogAssumption
<1>8. m = IF fault = "peer" THEN [marked EXCEPT !.zeroSince = None, !.samples = 0]
          ELSE [marked EXCEPT !.falseSince = None]
  BY <1>7 DEF Started, new
<1> HIDE DEF times, latches, m
<1>9. /\ marked \in States /\ marked.boot = s.boot /\ marked.invocation = s.invocation
      /\ marked.last = wall /\ marked.restarted = latches /\ marked.restarts = times
      /\ marked.zeroSince = s.zeroSince /\ marked.samples = s.samples
      /\ marked.falseSince = s.falseSince /\ marked.armed = s.armed /\ marked.ever = s.ever
  BY <1>1, <1>2, <1>5, <1>6 DEF States
<1> HIDE DEF marked
<1>10. 0 \in 0..Samples /\ None \in Latest
  BY WatchdogAssumption DEF Latest
<1>11. /\ m \in States /\ m.boot = s.boot /\ m.invocation = s.invocation
       /\ m.last = wall /\ m.restarted = latches /\ m.restarts = times
       /\ m.armed = s.armed /\ m.ever = s.ever
       /\ \/ m.zeroSince = None /\ m.samples = 0 /\ m.falseSince = s.falseSince
          \/ m.zeroSince = s.zeroSince /\ m.samples = s.samples /\ m.falseSince = None
  <2>1. CASE fault = "peer"
    BY <1>8, <1>9, <1>10, <2>1 DEF States
  <2>2. CASE fault # "peer"
    BY <1>8, <1>9, <1>10, <2>2 DEF States
  <2> QED
    BY <2>1, <2>2
<1>12. Sound(m)
  BY <1>4, <1>11 DEF Sound
<1> QED
  BY <1>6, <1>11, <1>12 DEF m, times, new

-----------------------------------------------------------------------------
(* Types.                                                                   *)

\* What a running watchdog holds, and has saved before it calls for a restart.
ProcessOK ==
  /\ Sound(disk)
  /\ pc \in {"idle", "recheck", "restart"}
  /\ pc = "idle" => mem = None /\ action = None
  /\ pc # "idle" => Sound(mem) /\ action \in Faults
  /\ pc = "recheck" => Cardinality(mem.restarts) < Budget /\ ~mem.restarted[action]
  /\ pc = "restart" => mem = disk

HistoryOK ==
  /\ decided \in Seq(Times) /\ tries \in [Faults -> Nat]
  /\ window \in [since: Times, length: 0..Samples, invocation: 0..MaxStarts]
  /\ ahead \in BOOLEAN /\ back \in BOOLEAN

TypeInv == HostOK /\ ProcessOK /\ HistoryOK

\* Time, boots and services only go on.
LEMMA HostStep ==
  ASSUME HostOK, [Next]_vars
  PROVE  HostOK' /\ now <= now' /\ boot <= boot' /\ invocation <= invocation'
<1>1. CASE UNCHANGED <<now, offset, boot, active, invocation, startedAt, faults>>
  BY <1>1 DEF HostOK, Times
<1>2. ASSUME StartService, UNCHANGED <<now, offset>>, faults' \in 0..MaxFaults,
             boot' \in 0..MaxFaults, boot' <= faults', boot <= boot'
      PROVE  HostOK' /\ now <= now' /\ boot <= boot' /\ invocation <= invocation'
  BY <1>2, WatchdogAssumption DEF StartService, HostOK, Times
<1>3. CASE \E snapshot \in Snapshots :
             Watch(snapshot) \/ Propose(snapshot) \/ Cancel(snapshot) \/ Mark(snapshot)
  BY <1>1, <1>3 DEF Watch, Propose, Cancel, Mark, host
<1>4. CASE Restart \/ CannotRestart
  BY <1>1, <1>2, <1>4 DEF Restart, CannotRestart, host, HostOK
<1>5. ASSUME Fault
      PROVE  faults' = faults + 1 /\ faults' \in 0..MaxFaults
  BY <1>5, WatchdogAssumption DEF Fault, HostOK
<1>6. CASE Die
  <2>1. boot' = boot /\ boot <= faults'
    BY <1>5, <1>6 DEF Die, HostOK
  <2>2. CASE UNCHANGED <<active, invocation, startedAt>>
    BY <1>5, <1>6, <2>1, <2>2 DEF Die, HostOK, Times
  <2>3. CASE StartService
    BY <1>2, <1>5, <1>6, <2>1, <2>3 DEF Die, HostOK
  <2> QED
    BY <1>6, <2>2, <2>3 DEF Die
<1>7. CASE Reboot
  <2>1. boot' \in 0..MaxFaults /\ boot' <= faults' /\ boot <= boot'
    BY <1>5, <1>7, WatchdogAssumption DEF Reboot, HostOK
  <2> QED
    BY <1>2, <1>5, <1>7, <2>1 DEF Reboot
<1>8. CASE ServiceStops
  <2>1. active' \in BOOLEAN
    BY <1>8 DEF ServiceStops
  <2>2. UNCHANGED <<now, offset, boot, invocation, startedAt>>
    BY <1>8 DEF ServiceStops
  <2>3. boot <= faults' /\ faults' \in 0..MaxFaults
    BY <1>5, <1>8 DEF ServiceStops, HostOK
  <2> QED
    BY <2>1, <2>2, <2>3 DEF HostOK, Times
<1>9. CASE ServiceStarts
  BY <1>2, <1>9 DEF ServiceStarts, HostOK
<1>10. ASSUME NEW jump \in Jumps, SetClock(jump)
       PROVE  HostOK' /\ now <= now' /\ boot <= boot' /\ invocation <= invocation'
  <2>1. offset' \in Int
    BY <1>10, WatchdogAssumption DEF SetClock, HostOK
  <2> QED
    BY <1>5, <1>10, <2>1 DEF SetClock, HostOK, Times
<1>11. CASE TimePasses
  BY <1>11, WatchdogAssumption DEF TimePasses, HostOK, Times
<1>12. CASE UNCHANGED vars
  BY <1>1, <1>12 DEF vars
<1> QED
  BY <1>3, <1>4, <1>6, <1>7, <1>8, <1>9, <1>10, <1>11, <1>12 DEF Next

\* What was sound when it was computed stays so.
LEMMA SoundKept ==
  ASSUME HostOK, [Next]_vars
  PROVE  /\ \A s : Sound(s) /\ disk' = s => Sound(disk)'
         /\ \A s : Sound(s) /\ mem' = s => Sound(mem)'
<1>1. /\ now \in Nat /\ now' \in Nat /\ boot \in Nat /\ boot' \in Nat
      /\ invocation \in Nat /\ invocation' \in Nat
      /\ now <= now' /\ boot <= boot' /\ invocation <= invocation'
  BY HostStep DEF HostOK, Times
<1>2. \A s \in States :
        s.boot \in Nat /\ s.invocation \in Nat /\ (s.zeroSince # None => s.zeroSince \in Nat)
  BY Moments DEF States
<1>3. \A s : Sound(s) /\ disk' = s => Sound(disk)'
  BY <1>1, <1>2 DEF Sound
<1>4. \A s : Sound(s) /\ mem' = s => Sound(mem)'
  BY <1>1, <1>2 DEF Sound
<1> QED
  BY <1>3, <1>4

\* A proposal has room in the budget, and its latch is open.
LEMMA ProposalFields ==
  ASSUME TypeInv, NEW snapshot \in Snapshots, Possible(snapshot),
         Proposed(Evaluated(disk, snapshot), snapshot) # None
  PROVE  LET e == Evaluated(disk, snapshot)
             f == Proposed(e, snapshot)
         IN  /\ f \in Faults /\ Sound(e) /\ ~e.restarted[f] /\ CooldownReady(e)
             /\ Cardinality(e.restarts) < Budget
             /\ f = "peer" => e.zeroSince # None /\ now - e.zeroSince >= PeerLoss
                              /\ e.samples >= Samples
             /\ f = "online" => e.falseSince # None /\ now - e.falseSince >= OnlineLoss
<1> DEFINE e == Evaluated(disk, snapshot)
           f == Proposed(e, snapshot)
<1>1. Sound(disk) /\ HostOK
  BY DEF TypeInv, ProcessOK
<1>2. /\ Sound(e) /\ e.restarts = Pruned(disk.restarts)
      /\ e.falseSince # None <=> snapshot.health = "offline"
  BY <1>1, EvaluatedFields
<1> HIDE DEF e
<1>3. Pruned(e.restarts) = e.restarts
  BY <1>2 DEF Pruned
<1>4. \/ f = "peer" /\ PeersLost(e, snapshot)
      \/ f = "online" /\ OnlineStuck(e, snapshot)
  BY DEF Proposed, e
<1>5. f \in Faults /\ Ready(e, f)
  BY <1>4 DEF PeersLost, OnlineStuck, Faults
<1> QED
  BY <1>2, <1>3, <1>4, <1>5 DEF PeersLost, OnlineStuck, Ready, BudgetReady, e

\* Evidence that starts anew is sound.
LEMMA CanceledFields ==
  ASSUME NEW s, Sound(s)
  PROVE  LET c == [s EXCEPT !.zeroSince = None, !.samples = 0, !.falseSince = None] IN
         /\ Sound(c) /\ c.zeroSince = None
         /\ c.restarted = s.restarted /\ c.boot = s.boot
         /\ c.last = s.last /\ c.restarts = s.restarts
<1> DEFINE c == [s EXCEPT !.zeroSince = None, !.samples = 0, !.falseSince = None]
<1>1. s \in States /\ 0 \in 0..Samples /\ None \in Latest
  BY WatchdogAssumption DEF Sound, Latest
<1>2. /\ c \in States /\ c.zeroSince = None /\ c.samples = 0 /\ c.falseSince = None
      /\ c.restarted = s.restarted /\ c.boot = s.boot /\ c.invocation = s.invocation
      /\ c.last = s.last /\ c.restarts = s.restarts /\ c.armed = s.armed /\ c.ever = s.ever
  BY <1>1 DEF States
<1> HIDE DEF c
<1>3. Sound(c)
  BY <1>2 DEF Sound
<1> QED
  BY <1>2, <1>3 DEF c

\* A latch that is released leaves the rest of a state.
LEMMA ReleasedFields ==
  ASSUME NEW s, Sound(s), NEW fault \in Faults
  PROVE  LET c == [s EXCEPT !.restarted[fault] = FALSE] IN
         /\ Sound(c) /\ c.boot = s.boot /\ c.invocation = s.invocation
         /\ c.zeroSince = s.zeroSince /\ c.samples = s.samples
         /\ c.last = s.last /\ c.restarts = s.restarts
         /\ \A f \in Faults : f # fault => c.restarted[f] = s.restarted[f]
<1> DEFINE latches == [s.restarted EXCEPT ![fault] = FALSE]
           c == [s EXCEPT !.restarted = latches]
<1>1. s \in States
  BY DEF Sound
<1>2. /\ latches \in [Faults -> BOOLEAN]
      /\ \A f \in Faults : f # fault => latches[f] = s.restarted[f]
  BY <1>1 DEF States
<1> HIDE DEF latches
<1>3. /\ c \in States /\ c.boot = s.boot /\ c.invocation = s.invocation
      /\ c.zeroSince = s.zeroSince /\ c.samples = s.samples /\ c.falseSince = s.falseSince
      /\ c.restarted = latches
      /\ c.last = s.last /\ c.restarts = s.restarts /\ c.armed = s.armed /\ c.ever = s.ever
  BY <1>1, <1>2 DEF States
<1>4. c = [s EXCEPT !.restarted[fault] = FALSE]
  BY DEF latches
<1> HIDE DEF c
<1>5. Sound(c)
  BY <1>3 DEF Sound
<1> QED
  BY <1>2, <1>3, <1>4, <1>5

\* What a look at the node means for the history.
LEMMA ObserveTypes ==
  ASSUME TypeInv, NEW snapshot, NEW s, s.invocation \in 0..MaxStarts, Observe(snapshot, s)
  PROVE  /\ tries' \in [Faults -> Nat] /\ \A f \in Faults : tries'[f] \in {0, tries[f]}
         /\ window' \in [since: Times, length: 0..Samples, invocation: 0..MaxStarts]
<1>1. tries' \in [Faults -> Nat] /\ \A f \in Faults : tries'[f] \in {0, tries[f]}
  BY DEF Observe, TypeInv, HistoryOK
<1>2. /\ window \in [since: Times, length: 0..Samples, invocation: 0..MaxStarts]
      /\ now \in Times
  BY DEF TypeInv, HostOK, HistoryOK
<1>3. NoWindow \in [since: Times, length: 0..Samples, invocation: 0..MaxStarts]
  BY WatchdogAssumption DEF NoWindow, Times
<1>4. /\ 1 \in 0..Samples
      /\ window.length < Samples => window.length + 1 \in 0..Samples
  BY <1>2, WatchdogAssumption
<1>5. \/ window' \in {NoWindow, window}
      \/ window' = [since |-> now, length |-> 1, invocation |-> s.invocation]
      \/ window.length < Samples /\ window' = [window EXCEPT !.length = @ + 1]
  BY DEF Observe
<1>6. window' \in [since: Times, length: 0..Samples, invocation: 0..MaxStarts]
  BY <1>2, <1>3, <1>4, <1>5
<1> QED
  BY <1>1, <1>6

\* Every step keeps the types.
LEMMA TypeStep == TypeInv /\ [Next]_vars => TypeInv'
<1> SUFFICES ASSUME TypeInv, [Next]_vars PROVE ProcessOK' /\ HistoryOK'
  BY HostStep DEF TypeInv
<1>0. /\ HostOK /\ Sound(disk) /\ HistoryOK
      /\ \A s : Sound(s) /\ disk' = s => Sound(disk)'
      /\ \A s : Sound(s) /\ mem' = s => Sound(mem)'
  BY SoundKept DEF TypeInv, ProcessOK
<1>1. ASSUME UNCHANGED <<disk, process, decided, tries, window>>,
             ahead' \in BOOLEAN, back' \in BOOLEAN
      PROVE  ProcessOK' /\ HistoryOK'
  <2>1. ProcessOK'
    BY <1>0, <1>1 DEF TypeInv, ProcessOK, process
  <2> QED
    BY <1>0, <1>1, <2>1 DEF HistoryOK
<1>2. ASSUME Done, Sound(disk)'
      PROVE  ProcessOK'
  BY <1>2 DEF Done, ProcessOK
<1>3. ASSUME NEW snapshot \in Snapshots, Watch(snapshot) PROVE ProcessOK' /\ HistoryOK'
  <2> DEFINE e == Evaluated(disk, snapshot)
  <2>1. /\ pc = "idle" /\ Possible(snapshot) /\ disk' = e /\ Observe(snapshot, e)
        /\ UNCHANGED <<host, process, decided, ahead, back, faults>>
    BY <1>3 DEF Watch
  <2>2. Sound(e)
    BY <1>0, <2>1, EvaluatedFields
  <2>3. e.invocation \in 0..MaxStarts
    BY <2>2 DEF Sound, States
  <2> HIDE DEF e
  <2>4. ProcessOK'
    BY <1>0, <2>1, <2>2 DEF TypeInv, ProcessOK, process
  <2>5. HistoryOK'
    BY <1>0, <2>1, <2>3, ObserveTypes DEF HistoryOK
  <2> QED
    BY <2>4, <2>5
<1>4. ASSUME NEW snapshot \in Snapshots, Propose(snapshot) PROVE ProcessOK' /\ HistoryOK'
  <2> DEFINE e == Evaluated(disk, snapshot)
             f == Proposed(e, snapshot)
  <2>1. /\ pc' = "recheck" /\ Possible(snapshot) /\ Observe(snapshot, e)
        /\ f # None /\ mem' = e /\ action' = f
        /\ UNCHANGED <<host, disk, decided, ahead, back, faults>>
    BY <1>4 DEF Propose
  <2>2. f \in Faults /\ Sound(e) /\ ~e.restarted[f] /\ Cardinality(e.restarts) < Budget
    BY <2>1, ProposalFields
  <2>3. e.invocation \in 0..MaxStarts
    BY <2>2 DEF Sound, States
  <2> HIDE DEF e, f
  <2>4. ProcessOK'
    BY <1>0, <2>1, <2>2 DEF ProcessOK
  <2>5. HistoryOK'
    BY <1>0, <2>1, <2>3, ObserveTypes DEF HistoryOK
  <2> QED
    BY <2>4, <2>5
<1>5. NoWindow \in [since: Times, length: 0..Samples, invocation: 0..MaxStarts]
  BY WatchdogAssumption DEF NoWindow, Times
<1>6. ASSUME NEW snapshot \in Snapshots, Cancel(snapshot) PROVE ProcessOK' /\ HistoryOK'
  <2>1. /\ pc = "recheck" /\ Done /\ window' = NoWindow
        /\ disk' = [mem EXCEPT !.zeroSince = None, !.samples = 0, !.falseSince = None]
        /\ UNCHANGED <<host, decided, tries, ahead, back, faults>>
    BY <1>6 DEF Cancel
  <2>2. Sound(disk)'
    BY <1>0, <2>1, CanceledFields DEF TypeInv, ProcessOK
  <2> QED
    BY <1>0, <1>2, <1>5, <2>1, <2>2 DEF HistoryOK
<1>7. ASSUME NEW snapshot \in Snapshots, Mark(snapshot) PROVE ProcessOK' /\ HistoryOK'
  <2> DEFINE m == Started(mem, action)
  <2>1. /\ pc = "recheck" /\ mem' = m /\ disk' = mem' /\ pc' = "restart"
        /\ decided' = Append(decided, now)
        /\ UNCHANGED <<host, action, tries, window, ahead, back, faults>>
    BY <1>7 DEF Mark
  <2>2. Sound(m)
    BY <1>0, <2>1, StartedFields DEF TypeInv, ProcessOK, HistoryOK
  <2> HIDE DEF m
  <2>3. ProcessOK'
    BY <1>0, <2>1, <2>2 DEF TypeInv, ProcessOK
  <2>4. HistoryOK'
    BY <1>0, <2>1 DEF HistoryOK, HostOK
  <2> QED
    BY <2>3, <2>4
<1>8. ASSUME pc = "restart", Try PROVE tries' \in [Faults -> Nat]
  BY <1>0, <1>8 DEF Try, TypeInv, ProcessOK, HistoryOK
<1>9. CASE Restart
  <2>1. pc = "restart" /\ Try /\ Done /\ UNCHANGED <<disk, decided, window, ahead, back>>
    BY <1>9 DEF Restart
  <2> QED
    BY <1>0, <1>2, <1>8, <2>1 DEF HistoryOK
<1>10. CASE CannotRestart
  <2>1. /\ pc = "restart" /\ Done /\ UNCHANGED <<host, history, faults>>
        /\ disk' = [mem EXCEPT !.restarted[action] = FALSE]
    BY <1>10 DEF CannotRestart
  <2>2. Sound(disk)'
    BY <1>0, <2>1, ReleasedFields DEF TypeInv, ProcessOK
  <2> QED
    BY <1>0, <1>2, <2>1, <2>2 DEF HistoryOK, history
<1>11. CASE Die
  <2>1. Done /\ UNCHANGED <<disk, decided, window, ahead, back>>
        /\ (tries' = tries \/ (pc = "restart" /\ Try))
    BY <1>11 DEF Die
  <2> QED
    BY <1>0, <1>2, <1>8, <2>1 DEF HistoryOK
<1>12. CASE Reboot
  <2>1. /\ Done /\ UNCHANGED <<disk, decided, ahead, back>>
        /\ tries' = [tries EXCEPT !["peer"] = 0] /\ window' = NoWindow
    BY <1>12 DEF Reboot
  <2> QED
    BY <1>0, <1>2, <1>5, <2>1 DEF HistoryOK
<1>13. CASE ServiceStops \/ ServiceStarts \/ TimePasses \/ UNCHANGED vars
  BY <1>0, <1>1, <1>13
  DEF ServiceStops, ServiceStarts, TimePasses, process, history, vars, HistoryOK
<1>14. ASSUME NEW jump \in Jumps, SetClock(jump) PROVE ProcessOK' /\ HistoryOK'
  <2>1. UNCHANGED <<disk, process, decided, tries, window>>
    BY <1>14 DEF SetClock
  <2>2. ahead' \in BOOLEAN /\ back' \in BOOLEAN
    BY <1>14 DEF SetClock
  <2> QED
    BY <1>1, <2>1, <2>2
<1> QED
  BY <1>3, <1>4, <1>6, <1>7, <1>9, <1>10, <1>11, <1>12, <1>13, <1>14 DEF Next

\* A host begins its first boot with a service and no state.
LEMMA TypeInit == Init => TypeInv
<1> SUFFICES ASSUME Init PROVE TypeInv
  OBVIOUS
<1>1. HostOK
  BY WatchdogAssumption DEF Init, HostOK, Times
<1>2. HistoryOK
  <2>1. NoWindow \in [since: Times, length: 0..Samples, invocation: 0..MaxStarts]
    BY WatchdogAssumption DEF NoWindow, Times
  <2>2. tries \in [Faults -> Nat]
    BY DEF Init
  <2>3. decided \in Seq(Times)
    BY DEF Init
  <2>4. window = NoWindow /\ ahead \in BOOLEAN /\ back \in BOOLEAN
    BY DEF Init
  <2> QED
    BY <2>1, <2>2, <2>3, <2>4 DEF HistoryOK
<1>3. disk \in States
  BY WatchdogAssumption DEF Init, States, Latest
<1>4. IsFiniteSet(disk.restarts) /\ Cardinality(disk.restarts) = 0
  BY FS_EmptySet DEF Init
<1>5. Sound(disk)
  BY <1>3, <1>4, WatchdogAssumption DEF Init, Sound
<1> QED
  BY <1>1, <1>2, <1>5 DEF Init, TypeInv, ProcessOK

\* The types of the host, of the saved state and of the running watchdog.
THEOREM TypesKept == Spec => []TypeOK
<1>1. TypeInv => TypeOK
  BY DEF TypeInv, HostOK, ProcessOK, HistoryOK, Sound, TypeOK
<1> QED
  BY <1>1, TypeInit, TypeStep, PTL DEF Spec

-----------------------------------------------------------------------------
(* One restart for an outage.                                               *)

\* A latch is closed while a restart may have happened; that of an outage in its boot.
Latched(s) ==
  /\ tries["peer"] > 0 => s.restarted["peer"] /\ s.boot = boot
  /\ tries["online"] > 0 => s.restarted["online"]

LatchInv ==
  /\ TypeInv /\ OneRestartPerOutage
  /\ Latched(disk)
  /\ pc = "recheck" => Latched(mem)
  /\ pc = "restart" => tries[action] = 0 /\ disk.restarted[action] /\ disk.boot = boot

\* An evaluation opens a latch only with the evidence that ends its outage.
LEMMA EvaluatedLatched ==
  ASSUME TypeInv, Latched(disk), NEW snapshot \in Snapshots, Possible(snapshot),
         Observe(snapshot, Evaluated(disk, snapshot))
  PROVE  LET e == Evaluated(disk, snapshot) IN
         /\ tries'["peer"] > 0 => e.restarted["peer"] /\ e.boot = boot
         /\ tries'["online"] > 0 => e.restarted["online"]
         /\ \A f \in Faults : tries'[f] \in {0, tries[f]}
<1> DEFINE e == Evaluated(disk, snapshot)
<1>1. /\ e.boot = boot
      /\ e.restarted["online"] <=> disk.restarted["online"] /\ snapshot.health # "online"
      /\ e.restarted["peer"] <=>
           disk.restarted["peer"] /\ disk.boot = boot /\ snapshot.peers # "some"
  BY EvaluatedFields DEF TypeInv, ProcessOK
<1>2. /\ tries'["peer"] = IF snapshot.peers = "some" THEN 0 ELSE tries["peer"]
      /\ tries'["online"] = IF snapshot.health = "online" THEN 0 ELSE tries["online"]
  BY DEF Observe, Faults
<1> HIDE DEF e
<1> QED
  BY <1>1, <1>2 DEF Latched, Faults, e

\* Every step keeps the latches.
LEMMA LatchStep == LatchInv /\ [Next]_vars => LatchInv'
<1> SUFFICES ASSUME LatchInv, [Next]_vars PROVE LatchInv'
  OBVIOUS
<1>0. /\ TypeInv /\ TypeInv' /\ Latched(disk) /\ OneRestartPerOutage
      /\ tries \in [Faults -> Nat] /\ pc \in {"idle", "recheck", "restart"}
      /\ pc # "idle" => action \in Faults /\ Sound(mem)
  BY TypeStep DEF LatchInv, TypeInv, ProcessOK, HistoryOK
<1>1. ASSUME UNCHANGED <<disk, process, tries, boot>> PROVE LatchInv'
  BY <1>0, <1>1 DEF LatchInv, Latched, OneRestartPerOutage, process
<1>2. ASSUME pc' = "idle", Latched(disk)', OneRestartPerOutage' PROVE LatchInv'
  BY <1>0, <1>2 DEF LatchInv
<1>3. ASSUME pc = "restart", Try, pc' = "idle", UNCHANGED <<disk, boot>> PROVE LatchInv'
  <2>1. /\ action \in Faults /\ tries[action] = 0 /\ disk.restarted[action] /\ disk.boot = boot
        /\ tries' = [tries EXCEPT ![action] = 1]
    BY <1>0, <1>3 DEF LatchInv, Try
  <2>2. OneRestartPerOutage'
    BY <1>0, <2>1 DEF OneRestartPerOutage
  <2>3. Latched(disk)'
    BY <1>0, <1>3, <2>1 DEF Latched, Faults
  <2> QED
    BY <1>2, <1>3, <2>2, <2>3
<1>4. ASSUME NEW snapshot \in Snapshots, Watch(snapshot) \/ Propose(snapshot) PROVE LatchInv'
  <2> DEFINE e == Evaluated(disk, snapshot)
  <2>1. /\ Possible(snapshot) /\ Observe(snapshot, e) /\ boot' = boot
        /\ \/ pc' = "idle" /\ disk' = e
           \/ pc' = "recheck" /\ disk' = disk /\ mem' = e
    BY <1>4 DEF Watch, Propose, host, process
  <2>2. /\ tries'["peer"] > 0 => e.restarted["peer"] /\ e.boot = boot
        /\ tries'["online"] > 0 => e.restarted["online"]
        /\ \A f \in Faults : tries'[f] \in {0, tries[f]}
    BY <1>0, <2>1, EvaluatedLatched
  <2> HIDE DEF e
  <2>3. OneRestartPerOutage'
    BY <1>0, <2>2 DEF OneRestartPerOutage
  <2>4. CASE pc' = "idle" /\ disk' = e
    BY <1>2, <2>1, <2>2, <2>3, <2>4 DEF Latched
  <2>5. CASE pc' = "recheck" /\ disk' = disk /\ mem' = e
    <3>1. Latched(mem)'
      BY <2>1, <2>2, <2>5 DEF Latched
    <3>2. Latched(disk)'
      BY <1>0, <2>1, <2>2, <2>5 DEF Latched, Faults
    <3> QED
      BY <1>0, <2>3, <2>5, <3>1, <3>2 DEF LatchInv
  <2> QED
    BY <2>1, <2>4, <2>5
<1>5. ASSUME NEW snapshot \in Snapshots, Cancel(snapshot) PROVE LatchInv'
  <2>1. /\ pc = "recheck" /\ pc' = "idle" /\ UNCHANGED <<tries, boot>>
        /\ disk' = [mem EXCEPT !.zeroSince = None, !.samples = 0, !.falseSince = None]
    BY <1>5 DEF Cancel, Done, host
  <2>2. disk'.restarted = mem.restarted /\ disk'.boot = mem.boot
    BY <1>0, <2>1, CanceledFields
  <2>3. Latched(disk)'
    BY <2>1, <2>2 DEF LatchInv, Latched
  <2> QED
    BY <1>0, <1>2, <2>1, <2>3 DEF OneRestartPerOutage
<1>6. ASSUME NEW snapshot \in Snapshots, Mark(snapshot) PROVE LatchInv'
  <2> DEFINE m == Started(mem, action)
  <2>1. /\ pc = "recheck" /\ mem' = m /\ disk' = m /\ pc' = "restart"
        /\ mem.boot = boot
        /\ UNCHANGED <<action, tries, boot>>
    BY <1>6 DEF Mark, Agrees, host
  <2>2. /\ m.boot = mem.boot /\ m.restarted[action]
        /\ \A f \in Faults : mem.restarted[f] => m.restarted[f]
    BY <1>0, <2>1, StartedFields DEF TypeInv, ProcessOK, HistoryOK
  <2> HIDE DEF m
  <2>3. Latched(mem) /\ ~mem.restarted[action]
    BY <1>0, <2>1 DEF LatchInv, TypeInv, ProcessOK
  <2>4. tries[action] = 0
    BY <1>0, <2>1, <2>3 DEF Latched, Faults
  <2>5. Latched(disk)'
    BY <2>1, <2>2, <2>3 DEF Latched, Faults
  <2> QED
    BY <1>0, <2>1, <2>2, <2>4, <2>5 DEF LatchInv, OneRestartPerOutage
<1>7. CASE Restart
  BY <1>3, <1>7 DEF Restart, Done
<1>8. CASE CannotRestart
  <2>1. /\ pc = "restart" /\ pc' = "idle" /\ UNCHANGED <<tries, boot>>
        /\ disk' = [disk EXCEPT !.restarted[action] = FALSE]
    BY <1>0, <1>8 DEF CannotRestart, Done, host, history, TypeInv, ProcessOK
  <2>2. disk'.boot = disk.boot /\ \A f \in Faults : f # action => disk'.restarted[f] = disk.restarted[f]
    BY <1>0, <2>1, ReleasedFields DEF TypeInv, ProcessOK
  <2>3. tries[action] = 0
    BY <2>1 DEF LatchInv
  <2>4. Latched(disk)'
    BY <1>0, <2>1, <2>2, <2>3 DEF Latched, Faults
  <2> QED
    BY <1>0, <1>2, <2>1, <2>4 DEF OneRestartPerOutage
<1>9. CASE Die
  <2>1. /\ pc' = "idle" /\ UNCHANGED <<disk, boot>>
        /\ (tries' = tries \/ (pc = "restart" /\ Try))
    BY <1>9 DEF Die, Done
  <2>2. CASE tries' = tries
    BY <1>0, <1>2, <2>1, <2>2 DEF Latched, OneRestartPerOutage
  <2> QED
    BY <1>3, <2>1, <2>2
<1>10. CASE Reboot
  <2>1. /\ pc' = "idle" /\ UNCHANGED disk /\ tries' = [tries EXCEPT !["peer"] = 0]
    BY <1>10 DEF Reboot, Done
  <2>2. tries'["peer"] = 0 /\ tries'["online"] = tries["online"]
    BY <1>0, <2>1 DEF Faults
  <2>3. Latched(disk)'
    BY <1>0, <2>1, <2>2 DEF Latched
  <2> QED
    BY <1>0, <1>2, <2>1, <2>2, <2>3 DEF OneRestartPerOutage, Faults
<1>11. CASE ServiceStops \/ ServiceStarts \/ TimePasses \/ UNCHANGED vars
             \/ \E jump \in Jumps : SetClock(jump)
  BY <1>1, <1>11
  DEF ServiceStops, ServiceStarts, TimePasses, SetClock, history, vars, process
<1> QED
  BY <1>4, <1>5, <1>6, <1>7, <1>8, <1>9, <1>10, <1>11 DEF Next

\* At most one restart may have happened in an outage of a boot, or in an episode.
THEOREM OneRestart == Spec => []OneRestartPerOutage
<1>1. Init => LatchInv
  BY TypeInit DEF Init, LatchInv, Latched, OneRestartPerOutage, Faults
<1>2. LatchInv => OneRestartPerOutage
  BY DEF LatchInv
<1> QED
  BY <1>1, <1>2, LatchStep, PTL DEF Spec

-----------------------------------------------------------------------------
(* Proven outages.                                                          *)

\* Evidence that still counts was sampled without a break.
Evidence(s) ==
  s.zeroSince # None /\ s.boot = boot /\ s.invocation = invocation =>
    /\ window.since <= s.zeroSince /\ s.samples <= window.length
    /\ window.invocation = invocation

EvidenceInv ==
  /\ TypeInv /\ window.since <= now
  /\ Evidence(disk)
  /\ pc = "recheck" =>
       /\ Evidence(mem)
       /\ action = "peer" => mem.zeroSince # None /\ now - mem.zeroSince >= PeerLoss
                             /\ mem.samples >= Samples

\* A sample without peers continues the samples of a main process, or begins them.
LEMMA ObserveZero ==
  ASSUME TypeInv, window.since <= now, NEW snapshot, snapshot.peers = "zero",
         NEW s, s.invocation = invocation, Observe(snapshot, s)
  PROVE  /\ window'.length >= 1 /\ window'.invocation = invocation /\ window'.since <= now
         /\ window.length > 0 /\ window.invocation = invocation =>
              /\ window'.since = window.since /\ window'.length >= window.length
              /\ window'.length > window.length \/ window'.length = Samples
<1>1. window \in [since: Times, length: 0..Samples, invocation: 0..MaxStarts] /\ now \in Times
  BY DEF TypeInv, HostOK, HistoryOK
<1>2. now <= now
  BY <1>1 DEF Times
<1>3. CASE window.length = 0 \/ s.invocation # window.invocation
  <2>1. window' = [since |-> now, length |-> 1, invocation |-> s.invocation]
    BY <1>3 DEF Observe
  <2> QED
    BY <1>1, <1>2, <1>3, <2>1
<1>4. CASE window.length # 0 /\ s.invocation = window.invocation
  <2>1. CASE window.length < Samples
    <3>1. window' = [window EXCEPT !.length = window.length + 1]
      BY <1>4, <2>1 DEF Observe
    <3> QED
      BY <1>1, <1>4, <3>1
  <2>2. CASE ~(window.length < Samples)
    <3>1. window' = window
      BY <1>4, <2>2 DEF Observe
    <3> QED
      BY <1>1, <1>4, <2>2, <3>1, WatchdogAssumption
  <2> QED
    BY <2>1, <2>2
<1> QED
  BY <1>3, <1>4

\* An evaluation and what a person would say agree.
LEMMA EvaluatedEvidence ==
  ASSUME EvidenceInv, NEW snapshot \in Snapshots, Possible(snapshot),
         Observe(snapshot, Evaluated(disk, snapshot))
  PROVE  LET e == Evaluated(disk, snapshot) IN
         /\ window'.since <= now
         /\ e.zeroSince # None =>
              /\ window'.since <= e.zeroSince /\ e.samples <= window'.length
              /\ window'.invocation = invocation
         /\ snapshot.peers = "zero" /\ disk.zeroSince # None
              /\ disk.boot = boot /\ disk.invocation = invocation =>
              /\ window'.since <= disk.zeroSince /\ disk.samples <= window'.length
              /\ window'.invocation = invocation
<1> DEFINE e == Evaluated(disk, snapshot)
<1>0. TypeInv /\ HostOK /\ Sound(disk) /\ window.since <= now /\ Evidence(disk)
  BY DEF EvidenceInv, TypeInv, ProcessOK
<1>1. /\ Sound(e) /\ e.invocation = invocation
      /\ e.zeroSince # None =>
           /\ snapshot.peers = "zero"
           /\ \/ e.zeroSince = now /\ e.samples = 1
              \/ disk.boot = boot /\ disk.invocation = invocation /\ Continues(e, disk)
  BY <1>0, EvaluatedFields
<1> HIDE DEF e
<1>2. /\ window \in [since: Times, length: 0..Samples, invocation: 0..MaxStarts]
      /\ window' \in [since: Times, length: 0..Samples, invocation: 0..MaxStarts]
      /\ now \in Times /\ Samples \in Nat
      /\ e.samples \in 0..Samples /\ disk.samples \in 0..Samples
      /\ disk.zeroSince # None => disk.samples >= 1 /\ disk.zeroSince \in Nat
    <2>1. e.invocation \in 0..MaxStarts
      BY <1>1 DEF Sound, States
    <2>2. window' \in [since: Times, length: 0..Samples, invocation: 0..MaxStarts]
      BY <1>0, <2>1, ObserveTypes DEF e
    <2>3. /\ e.samples \in 0..Samples /\ disk.samples \in 0..Samples
          /\ disk.zeroSince # None => disk.samples >= 1 /\ disk.zeroSince \in Nat
      BY <1>0, <1>1, Moments DEF Sound, States
    <2> QED
      BY <1>0, <2>2, <2>3, WatchdogAssumption DEF TypeInv, HostOK, HistoryOK
<1>3. CASE snapshot.peers # "zero"
  <2>1. window' = NoWindow
    BY <1>3 DEF Observe
  <2>2. window'.since <= now
    BY <1>2, <2>1 DEF NoWindow, Times
  <2> QED
    BY <1>1, <1>3, <2>2 DEF e
<1>4. CASE snapshot.peers = "zero"
  <2>1. /\ window'.length >= 1 /\ window'.invocation = invocation /\ window'.since <= now
        /\ window.length > 0 /\ window.invocation = invocation =>
              /\ window'.since = window.since /\ window'.length >= window.length
              /\ window'.length > window.length \/ window'.length = Samples
    BY <1>0, <1>1, <1>4, ObserveZero DEF e
  <2>2. ASSUME disk.zeroSince # None, disk.boot = boot, disk.invocation = invocation
        PROVE  /\ window'.since <= disk.zeroSince /\ disk.samples <= window'.length
               /\ disk.samples + 1 <= window'.length \/ window'.length = Samples
    <3>1. /\ window.since <= disk.zeroSince /\ disk.samples <= window.length
          /\ window.invocation = invocation /\ disk.samples >= 1
      BY <1>0, <1>2, <2>2 DEF Evidence
    <3> QED
      BY <1>2, <2>1, <3>1
  <2>3. ASSUME e.zeroSince # None
        PROVE  window'.since <= e.zeroSince /\ e.samples <= window'.length
    <3>1. CASE e.zeroSince = now /\ e.samples = 1
      BY <2>1, <3>1
    <3>2. CASE ~(e.zeroSince = now /\ e.samples = 1)
      <4>1. /\ disk.boot = boot /\ disk.invocation = invocation /\ disk.zeroSince # None
            /\ e.zeroSince = disk.zeroSince /\ e.samples <= disk.samples + 1
        BY <1>1, <2>3, <3>2 DEF Continues
      <4> QED
        BY <1>2, <2>2, <4>1
    <3> QED
      BY <3>1, <3>2
  <2> QED
    BY <2>1, <2>2, <2>3 DEF e
<1> QED
  BY <1>3, <1>4

\* Every step keeps the evidence.
LEMMA EvidenceStep == EvidenceInv /\ [Next]_vars => EvidenceInv'
<1> SUFFICES ASSUME EvidenceInv, [Next]_vars PROVE EvidenceInv'
  OBVIOUS
<1>0. /\ TypeInv /\ TypeInv' /\ HostOK /\ Sound(disk) /\ Evidence(disk)
      /\ window.since <= now /\ window.since \in Nat /\ now \in Nat /\ now' \in Nat
      /\ now <= now'
      /\ pc # "idle" => action \in Faults /\ Sound(mem)
  <2>1. TypeInv /\ Evidence(disk) /\ window.since <= now
    BY DEF EvidenceInv
  <2>2. TypeInv' /\ HostOK /\ HostOK' /\ now <= now'
    BY <2>1, TypeStep, HostStep DEF TypeInv
  <2>3. Sound(disk) /\ (pc # "idle" => action \in Faults /\ Sound(mem))
    BY <2>1 DEF TypeInv, ProcessOK
  <2>4. now \in Nat /\ now' \in Nat
    BY <2>2 DEF HostOK, Times
  <2>5. window.since \in Nat
    BY <2>1 DEF TypeInv, HistoryOK, Times
  <2> QED
    BY <2>1, <2>2, <2>3, <2>4, <2>5
<1>1. ASSUME UNCHANGED <<disk, process, window, boot, invocation>> PROVE EvidenceInv'
  <2>1. window'.since <= now'
    BY <1>0, <1>1
  <2>2. Evidence(disk)' /\ (pc = "recheck" => Evidence(mem)')
    BY <1>1 DEF EvidenceInv, Evidence, process
  <2>3. pc = "recheck" /\ action = "peer" =>
          mem.zeroSince # None /\ now' - mem.zeroSince >= PeerLoss /\ mem.samples >= Samples
    <3> SUFFICES ASSUME pc = "recheck", action = "peer"
                 PROVE  mem.zeroSince # None /\ now' - mem.zeroSince >= PeerLoss
                        /\ mem.samples >= Samples
      OBVIOUS
    <3>1. mem.zeroSince # None /\ now - mem.zeroSince >= PeerLoss /\ mem.samples >= Samples
      BY DEF EvidenceInv
    <3>2. mem.zeroSince \in Nat
      BY <1>0, <3>1, Moments DEF Sound, States
    <3> QED
      BY <1>0, <3>1, <3>2, WatchdogAssumption
  <2> QED
    BY <1>0, <1>1, <2>1, <2>2, <2>3 DEF EvidenceInv, process
<1>2. ASSUME pc' = "idle", window'.since <= now', Evidence(disk)' PROVE EvidenceInv'
  BY <1>0, <1>2 DEF EvidenceInv
<1>3. NoWindow.since <= now'
  BY <1>0 DEF NoWindow
<1>4. ASSUME NEW snapshot \in Snapshots, Watch(snapshot) PROVE EvidenceInv'
  <2> DEFINE e == Evaluated(disk, snapshot)
  <2>1. /\ Possible(snapshot) /\ Observe(snapshot, e) /\ disk' = e
        /\ pc' = "idle" /\ UNCHANGED <<now, boot, invocation>>
    BY <1>4 DEF Watch, host, process
  <2>2. /\ window'.since <= now
        /\ e.zeroSince # None =>
              /\ window'.since <= e.zeroSince /\ e.samples <= window'.length
              /\ window'.invocation = invocation
    BY <2>1, EvaluatedEvidence
  <2> HIDE DEF e
  <2> QED
    BY <1>2, <2>1, <2>2 DEF Evidence
<1>5. ASSUME NEW snapshot \in Snapshots, Propose(snapshot) PROVE EvidenceInv'
  <2> DEFINE e == Evaluated(disk, snapshot)
             f == Proposed(e, snapshot)
  <2>1. /\ Possible(snapshot) /\ Observe(snapshot, e) /\ f # None
        /\ disk' = disk /\ mem' = e /\ action' = f
        /\ pc' = "recheck" /\ UNCHANGED <<now, boot, invocation>>
    BY <1>5 DEF Propose, host
  <2>2. /\ window'.since <= now
        /\ e.zeroSince # None =>
              /\ window'.since <= e.zeroSince /\ e.samples <= window'.length
              /\ window'.invocation = invocation
        /\ snapshot.peers = "zero" /\ disk.zeroSince # None
              /\ disk.boot = boot /\ disk.invocation = invocation =>
              /\ window'.since <= disk.zeroSince /\ disk.samples <= window'.length
              /\ window'.invocation = invocation
    BY <2>1, EvaluatedEvidence
  <2>3. /\ f \in Faults
        /\ f = "peer" => e.zeroSince # None /\ now - e.zeroSince >= PeerLoss
                         /\ e.samples >= Samples
        /\ f = "online" => e.falseSince # None /\ now - e.falseSince >= OnlineLoss
    BY <1>0, <2>1, ProposalFields
  <2>4. /\ e.zeroSince # None => snapshot.peers = "zero"
        /\ e.falseSince # None => e.falseSince = now \/ e.falseSince = disk.falseSince
    BY <1>0, <2>1, EvaluatedFields
  <2>5. disk.zeroSince # None => snapshot.peers = "zero"
    <3>1. CASE f = "peer"
      BY <2>3, <2>4, <3>1
    <3>2. CASE f = "online"
      <4>1. e.falseSince # now
        BY <1>0, <2>3, <3>2, WatchdogAssumption
      <4>2. disk.falseSince # None
        BY <2>3, <2>4, <3>2, <4>1
      <4> QED
        BY <1>0, <4>2 DEF Sound
    <3> QED
      BY <2>3, <3>1, <3>2 DEF Faults
  <2> HIDE DEF e, f
  <2>6. Evidence(disk)' /\ Evidence(mem)'
    BY <2>1, <2>2, <2>5 DEF Evidence
  <2> QED
    BY <1>0, <2>1, <2>2, <2>3, <2>6 DEF EvidenceInv
<1>6. ASSUME NEW snapshot \in Snapshots, Cancel(snapshot) PROVE EvidenceInv'
  <2>1. /\ pc = "recheck" /\ pc' = "idle" /\ window' = NoWindow
        /\ disk' = [mem EXCEPT !.zeroSince = None, !.samples = 0, !.falseSince = None]
    BY <1>6 DEF Cancel, Done
  <2>2. disk'.zeroSince = None
    BY <1>0, <2>1, CanceledFields
  <2> QED
    BY <1>2, <1>3, <2>1, <2>2 DEF Evidence
<1>7. ASSUME NEW snapshot \in Snapshots, Mark(snapshot) PROVE EvidenceInv'
  <2> DEFINE m == Started(mem, action)
  <2>1. /\ pc = "recheck" /\ disk' = m /\ pc' = "restart"
        /\ UNCHANGED <<window, boot, invocation, now>>
    BY <1>7 DEF Mark, host
  <2>2. /\ m.boot = mem.boot /\ m.invocation = mem.invocation
        /\ m.zeroSince # None => m.zeroSince = mem.zeroSince /\ m.samples = mem.samples
    BY <1>0, <2>1, StartedFields DEF TypeInv, ProcessOK, HistoryOK
  <2> HIDE DEF m
  <2>3. Evidence(disk)'
    BY <2>1, <2>2 DEF EvidenceInv, Evidence
  <2> QED
    BY <1>0, <2>1, <2>3 DEF EvidenceInv
<1>8. ASSUME StartService, UNCHANGED <<disk, window>>, pc' = "idle" \/ UNCHANGED process
      PROVE  EvidenceInv'
  <2>1. invocation \in Nat /\ invocation' = invocation + 1
    BY <1>0, <1>8, WatchdogAssumption DEF StartService, HostOK
  <2>2. disk.invocation # invocation' /\ (pc # "idle" => mem.invocation # invocation')
    BY <1>0, <2>1 DEF Sound, States
  <2>3. Evidence(disk)'
    BY <1>8, <2>2 DEF Evidence
  <2>4. window'.since <= now'
    BY <1>0, <1>8
  <2>5. CASE UNCHANGED process
    <3>1. pc = "recheck" => Evidence(mem)'
      BY <2>2, <2>5 DEF Evidence, process
    <3>2. pc = "recheck" /\ action = "peer" =>
            mem.zeroSince # None /\ now' - mem.zeroSince >= PeerLoss /\ mem.samples >= Samples
      <4> SUFFICES ASSUME pc = "recheck", action = "peer"
                   PROVE  mem.zeroSince # None /\ now' - mem.zeroSince >= PeerLoss
                          /\ mem.samples >= Samples
        OBVIOUS
      <4>1. mem.zeroSince # None /\ now - mem.zeroSince >= PeerLoss /\ mem.samples >= Samples
        BY DEF EvidenceInv
      <4>2. mem.zeroSince \in Nat
        BY <1>0, <4>1, Moments DEF Sound, States
      <4> QED
        BY <1>0, <4>1, <4>2, WatchdogAssumption
    <3> QED
      BY <1>0, <2>3, <2>4, <2>5, <3>1, <3>2 DEF EvidenceInv, process
  <2> QED
    BY <1>2, <1>8, <2>3, <2>4, <2>5
<1>9. ASSUME pc' = "idle", UNCHANGED <<disk, window, boot, invocation>> PROVE EvidenceInv'
  <2>1. window'.since <= now'
    BY <1>0, <1>9
  <2>2. Evidence(disk)'
    BY <1>0, <1>9 DEF Evidence
  <2> QED
    BY <1>2, <1>9, <2>1, <2>2
<1>10. CASE Restart \/ Die
  BY <1>8, <1>9, <1>10 DEF Restart, Die, Done
<1>11. CASE CannotRestart
  <2>1. /\ pc = "restart" /\ pc' = "idle" /\ UNCHANGED <<window, now, boot, invocation>>
        /\ disk' = [disk EXCEPT !.restarted[action] = FALSE]
    BY <1>0, <1>11 DEF CannotRestart, Done, host, history, TypeInv, ProcessOK
  <2>2. /\ disk'.boot = disk.boot /\ disk'.invocation = disk.invocation
        /\ disk'.zeroSince = disk.zeroSince /\ disk'.samples = disk.samples
    BY <1>0, <2>1, ReleasedFields
  <2>3. Evidence(disk)'
    BY <1>0, <2>1, <2>2 DEF Evidence
  <2> QED
    BY <1>0, <1>2, <2>1, <2>3
<1>12. CASE Reboot
  <2>1. /\ pc' = "idle" /\ UNCHANGED disk /\ window' = NoWindow /\ boot' = boot + 1
    BY <1>12 DEF Reboot, Done
  <2>2. disk.boot # boot'
    BY <1>0, <2>1 DEF Sound, States, HostOK
  <2> QED
    BY <1>2, <1>3, <2>1, <2>2 DEF Evidence
<1>13. CASE ServiceStarts
  BY <1>8, <1>13 DEF ServiceStarts, history
<1>14. CASE ServiceStops \/ TimePasses \/ UNCHANGED vars \/ \E jump \in Jumps : SetClock(jump)
  BY <1>1, <1>14 DEF ServiceStops, TimePasses, SetClock, history, vars, process
<1> QED
  BY <1>4, <1>5, <1>6, <1>7, <1>10, <1>11, <1>12, <1>13, <1>14 DEF Next

\* A restart for lost peers follows samples enough, in a row and for long enough, of
\* one main process.
THEOREM OutagesProven == Spec => OutageProven
<1>1. Init => EvidenceInv
  BY TypeInit, WatchdogAssumption DEF Init, EvidenceInv, Evidence, NoWindow
<1>2. EvidenceInv /\ [Next]_vars =>
        [decided' # decided /\ action = "peer" =>
           /\ window.length >= Samples /\ window.invocation = invocation
           /\ now - window.since >= PeerLoss]_vars
  <2> SUFFICES ASSUME EvidenceInv, [Next]_vars, decided' # decided, action = "peer"
               PROVE  /\ window.length >= Samples /\ window.invocation = invocation
                      /\ now - window.since >= PeerLoss
    OBVIOUS
  <2>1. PICK snapshot \in Snapshots : Mark(snapshot)
    BY DEF Next, Watch, Propose, Cancel, Restart, CannotRestart, Die, Reboot, ServiceStops,
       ServiceStarts, SetClock, TimePasses, history, vars
  <2>2. pc = "recheck" /\ mem.boot = boot /\ mem.invocation = invocation
    BY <2>1 DEF Mark, Agrees
  <2>3. /\ mem.zeroSince # None /\ now - mem.zeroSince >= PeerLoss /\ mem.samples >= Samples
        /\ window.since <= mem.zeroSince /\ mem.samples <= window.length
        /\ window.invocation = invocation
    BY <2>2 DEF EvidenceInv, Evidence
  <2>4. /\ mem.zeroSince \in Nat /\ mem.samples \in Nat /\ window.since \in Nat
        /\ window.length \in Nat /\ now \in Nat
    BY <2>2, <2>3, Moments
    DEF EvidenceInv, TypeInv, ProcessOK, HostOK, HistoryOK, Sound, States, Times
  <2> QED
    BY <2>3, <2>4, WatchdogAssumption
<1> QED
  BY <1>1, <1>2, EvidenceStep, PTL DEF Spec, OutageProven
-----------------------------------------------------------------------------
(* Distance of restarts.                                                    *)

\* A state knows when the last restart was decided on, unless the clock was put ahead,
\* and every one that still counts, unless it was put back, too.
Remembers(s) ==
  /\ decided # <<>> => s.last # None
  /\ ~ahead /\ decided # <<>> => s.last >= decided[Len(decided)] + offset
  /\ ~ahead /\ ~back => \A i \in DOMAIN decided :
       now - decided[i] <= Window => [at |-> decided[i], nr |-> i] \in s.restarts

SpaceInv ==
  /\ TypeInv
  /\ ~ahead /\ ~back => offset = 0
  /\ \A i \in DOMAIN decided : decided[i] <= now
  /\ Remembers(disk)
  /\ pc # "idle" => Remembers(mem)
  /\ pc = "recheck" /\ decided # <<>> /\ ~ahead =>
       now - decided[Len(decided)] >= Cooldown
  /\ RestartsSpaced

\* The history of the clock tells how it stands.
LEMMA ClockStep ==
  ASSUME SpaceInv, [Next]_vars
  PROVE  /\ offset \in Int /\ offset' \in Int /\ now \in Nat /\ now' \in Nat /\ now <= now'
         /\ ~ahead' => ~ahead /\ offset' <= offset
         /\ ~back' => ~back
         /\ ~ahead' /\ ~back' => offset' = 0
<1>1. /\ HostOK /\ HostOK' /\ now <= now' /\ ahead \in BOOLEAN /\ back \in BOOLEAN
      /\ ~ahead /\ ~back => offset = 0
  BY HostStep DEF SpaceInv, TypeInv, HistoryOK
<1>2. /\ offset \in Int /\ offset' \in Int /\ now \in Nat /\ now' \in Nat
  BY <1>1 DEF HostOK, Times
<1>3. CASE UNCHANGED <<offset, ahead, back>>
  BY <1>1, <1>2, <1>3
<1>4. ASSUME NEW jump \in Jumps, SetClock(jump)
      PROVE  /\ ~ahead' => ~ahead /\ offset' <= offset
             /\ ~back' => ~back
             /\ ~ahead' /\ ~back' => offset' = 0
  <2>1. jump \in Int /\ jump # 0
    BY WatchdogAssumption
  <2>2. /\ offset' = offset + jump
        /\ ahead' <=> ahead \/ jump > 0
        /\ back' <=> back \/ jump < 0
    BY <1>4 DEF SetClock
  <2> QED
    BY <1>2, <2>1, <2>2
<1>5. UNCHANGED <<offset, ahead, back>> \/ \E jump \in Jumps : SetClock(jump)
  BY DEF Next, Watch, Propose, Cancel, Mark, Restart, CannotRestart, Die, Reboot,
         ServiceStops, ServiceStarts, TimePasses, host, history, vars
<1> QED
  BY <1>1, <1>2, <1>3, <1>4, <1>5

\* Restarts are decided on at times.
LEMMA DecidedTimes ==
  ASSUME SpaceInv
  PROVE  /\ decided \in Seq(Times) /\ now \in Nat
         /\ DOMAIN decided = 1..Len(decided) /\ Len(decided) \in Nat
         /\ \A i \in DOMAIN decided : decided[i] \in Nat
         /\ decided # <<>> => Len(decided) \in DOMAIN decided
<1>1. decided \in Seq(Times) /\ now \in Times
  BY DEF SpaceInv, TypeInv, HostOK, HistoryOK
<1>2. \A t \in Times : t \in Nat
  BY DEF Times
<1>3. /\ DOMAIN decided = 1..Len(decided) /\ Len(decided) \in Nat
      /\ \A i \in DOMAIN decided : decided[i] \in Times
      /\ decided # <<>> => Len(decided) \in DOMAIN decided
  BY <1>1
<1> QED
  BY <1>1, <1>2, <1>3

\* Without a new decision nothing is forgotten.
LEMMA MemoryKept ==
  ASSUME SpaceInv, [Next]_vars, UNCHANGED decided
  PROVE  /\ \A s, t : s \in States /\ Remembers(s) /\ t.last = s.last
                      /\ t.restarts = s.restarts /\ disk' = t => Remembers(disk)'
         /\ \A s, t : s \in States /\ Remembers(s) /\ t.last = s.last
                      /\ t.restarts = s.restarts /\ mem' = t => Remembers(mem)'
         /\ \A i \in DOMAIN decided' : decided'[i] <= now'
         /\ ~ahead /\ decided # <<>> /\ now - decided[Len(decided)] >= Cooldown =>
              now' - decided[Len(decided)] >= Cooldown
         /\ RestartsSpaced'
<1>1. /\ decided \in Seq(Times) /\ decided' = decided
      /\ \A i \in DOMAIN decided : decided[i] \in Nat
      /\ decided # <<>> => Len(decided) \in DOMAIN decided
  BY DecidedTimes
<1>2. /\ offset \in Int /\ offset' \in Int /\ now \in Nat /\ now' \in Nat /\ now <= now'
      /\ ~ahead' => ~ahead /\ offset' <= offset
      /\ ~back' => ~back
  BY ClockStep
<1>3. \A s \in States : s.last # None => s.last \in Int
  BY DEF States
<1>4. \A s, t : s \in States /\ Remembers(s) /\ t.last = s.last
                /\ t.restarts = s.restarts /\ disk' = t => Remembers(disk)'
  BY <1>1, <1>2, <1>3, WatchdogAssumption DEF Remembers
<1>5. \A s, t : s \in States /\ Remembers(s) /\ t.last = s.last
                /\ t.restarts = s.restarts /\ mem' = t => Remembers(mem)'
  BY <1>1, <1>2, <1>3, WatchdogAssumption DEF Remembers
<1>6. \A i \in DOMAIN decided' : decided'[i] <= now'
  BY <1>1, <1>2 DEF SpaceInv
<1>7. ~ahead /\ decided # <<>> /\ now - decided[Len(decided)] >= Cooldown =>
        now' - decided[Len(decided)] >= Cooldown
  BY <1>1, <1>2, WatchdogAssumption
<1>8. RestartsSpaced'
  BY <1>1, <1>2 DEF SpaceInv, RestartsSpaced
<1> QED
  BY <1>4, <1>5, <1>6, <1>7, <1>8

\* With room in the budget, the first of the last Budget - 1 restarts and this one is
\* out of the window.
LEMMA RoomInBudget ==
  ASSUME SpaceInv, pc = "recheck", ~ahead, ~back,
         NEW i \in DOMAIN decided, i + Budget = Len(decided) + 1
  PROVE  now - decided[i] > Window
<1> SUFFICES ASSUME now - decided[i] <= Window PROVE FALSE
  <2>1. now \in Nat /\ decided[i] \in Nat /\ Window \in Nat
    BY DecidedTimes, WatchdogAssumption
  <2> QED
    BY <2>1
<1> DEFINE n == Len(decided)
           entry == [k \in i..n |-> [at |-> decided[k], nr |-> k]]
<1>1. /\ n \in Nat /\ i \in Nat /\ i..n \subseteq DOMAIN decided /\ now \in Nat
      /\ \A k \in DOMAIN decided : decided[k] \in Nat
  BY DecidedTimes
<1>2. /\ IsFiniteSet(mem.restarts) /\ Cardinality(mem.restarts) < Budget
      /\ Cardinality(mem.restarts) \in Nat
  BY FS_CardinalityType DEF SpaceInv, TypeInv, ProcessOK, Sound
<1>3. \A k \in i..n : now - decided[k] <= Window
  <2> SUFFICES ASSUME NEW k \in i..n PROVE now - decided[k] <= Window
    OBVIOUS
  <2>1. k = i \/ decided[k] - decided[i] >= Cooldown
    BY <1>1 DEF SpaceInv, RestartsSpaced
  <2> QED
    BY <1>1, <2>1, WatchdogAssumption
<1>4. \A k \in i..n : [at |-> decided[k], nr |-> k] \in mem.restarts
  BY <1>1, <1>3 DEF SpaceInv, Remembers
<1>5. entry \in Injection(i..n, mem.restarts)
  <2>1. entry \in [i..n -> mem.restarts]
    BY <1>4
  <2>2. \A j, k \in i..n : entry[j] = entry[k] => j = k
    OBVIOUS
  <2> QED
    BY <2>1, <2>2 DEF Injection, IsInjective
<1>6. Cardinality(i..n) <= Cardinality(mem.restarts)
  BY <1>2, <1>5, FS_Injection
<1>7. Cardinality(i..n) = Budget
  <2>1. i \in Int /\ n \in Int
    BY <1>1
  <2>2. Cardinality(i..n) = IF i > n THEN 0 ELSE n - i + 1
    BY <2>1, FS_Interval
  <2> QED
    BY <1>1, <2>2, WatchdogAssumption
<1> QED
  BY <1>2, <1>6, <1>7, WatchdogAssumption
\* A decision keeps the cooldown and the budget, and is remembered.
LEMMA MarkSpaced ==
  ASSUME SpaceInv, NEW snapshot \in Snapshots, Mark(snapshot)
  PROVE  /\ decided' = Append(decided, now) /\ now' = now /\ pc' = "restart"
         /\ \A i \in DOMAIN decided' : decided'[i] <= now'
         /\ Remembers(disk)' /\ Remembers(mem)' /\ RestartsSpaced'
<1> DEFINE m == Started(mem, action)
           n == Len(decided)
<1>1. /\ pc = "recheck" /\ mem' = m /\ disk' = m /\ pc' = "restart"
      /\ decided' = Append(decided, now)
      /\ UNCHANGED <<now, offset, ahead, back>>
  BY DEF Mark, host
<1>2. /\ decided \in Seq(Times) /\ now \in Nat /\ offset \in Int /\ wall \in Int
      /\ DOMAIN decided = 1..n /\ n \in Nat
      /\ \A i \in DOMAIN decided : decided[i] \in Nat
      /\ decided # <<>> => n \in DOMAIN decided
  BY DecidedTimes DEF SpaceInv, TypeInv, HostOK, wall
<1>3. /\ m.last = wall
      /\ m.restarts = Pruned(mem.restarts) \cup {[at |-> wall, nr |-> n + 1]}
  BY <1>1, <1>2, StartedFields DEF SpaceInv, TypeInv, ProcessOK
<1> HIDE DEF m, n
<1>4. /\ DOMAIN decided' = 1..n + 1 /\ Len(decided') = n + 1 /\ decided' # <<>>
      /\ \A i \in 1..n : decided'[i] = decided[i]
      /\ decided'[n + 1] = now
      /\ \A i \in 1..n + 1 : i \in 1..n \/ i = n + 1
  BY <1>1, <1>2 DEF n
<1>5. \A i \in DOMAIN decided' : decided'[i] <= now'
  BY <1>1, <1>2, <1>4 DEF SpaceInv
<1>6. m.last # None /\ m.last = decided'[n + 1] + offset'
  BY <1>1, <1>2, <1>3, <1>4, WatchdogAssumption DEF wall
<1>7. ASSUME ~ahead, ~back, NEW i \in 1..n + 1, now - decided'[i] <= Window
      PROVE  [at |-> decided'[i], nr |-> i] \in m.restarts
  <2>1. wall = now
    BY <1>2, <1>7 DEF wall, SpaceInv
  <2>2. CASE i \in 1..n
    <3>1. [at |-> decided[i], nr |-> i] \in mem.restarts
      BY <1>1, <1>2, <1>4, <1>7, <2>2 DEF SpaceInv, Remembers
    <3>2. wall - Window <= decided[i] /\ decided[i] <= wall + Tolerance
      BY <1>2, <1>4, <1>7, <2>1, <2>2, WatchdogAssumption DEF SpaceInv
    <3> QED
      BY <1>3, <1>4, <2>2, <3>1, <3>2 DEF Pruned
  <2>3. CASE i = n + 1
    BY <1>3, <1>4, <2>1, <2>3
  <2> QED
    BY <1>4, <2>2, <2>3
<1>8. Remembers(disk)' /\ Remembers(mem)'
  <2>1. decided'[n + 1] + offset' \in Int
    BY <1>1, <1>2, <1>4
  <2>2. m.last >= decided'[n + 1] + offset'
    BY <1>6, <2>1
  <2> QED
    BY <1>1, <1>4, <1>6, <1>7, <2>2 DEF Remembers
<1>9. ~ahead => \A i, j \in 1..n + 1 : i < j => decided'[j] - decided'[i] >= Cooldown
  <2> SUFFICES ASSUME ~ahead, NEW i \in 1..n + 1, NEW j \in 1..n + 1, i < j
               PROVE  decided'[j] - decided'[i] >= Cooldown
    OBVIOUS
  <2>1. i \in 1..n
    BY <1>2
  <2>2. CASE j \in 1..n
    BY <1>2, <1>4, <2>1, <2>2 DEF SpaceInv, RestartsSpaced
  <2>3. CASE j = n + 1
    <3>1. now - decided[n] >= Cooldown /\ n \in 1..n
      BY <1>1, <1>2, <2>1 DEF SpaceInv, n
    <3>2. i = n \/ decided[n] - decided[i] >= Cooldown
      BY <1>2, <2>1, <3>1 DEF SpaceInv, RestartsSpaced
    <3> QED
      BY <1>2, <1>4, <2>1, <2>3, <3>1, <3>2, WatchdogAssumption
  <2> QED
    BY <1>4, <2>2, <2>3
<1>10. ~ahead /\ ~back => \A i \in 1..n + 1 - Budget : decided'[i + Budget] - decided'[i] > Window
  <2> SUFFICES ASSUME ~ahead, ~back, NEW i \in 1..n + 1 - Budget
               PROVE  decided'[i + Budget] - decided'[i] > Window
    OBVIOUS
  <2>1. i \in 1..n /\ i + Budget \in 1..n + 1 /\ i \in Nat
    BY <1>2, WatchdogAssumption
  <2>2. CASE i + Budget = n + 1
    <3>1. now - decided[i] > Window
      BY <1>1, <1>2, <2>1, <2>2, RoomInBudget DEF n
    <3> QED
      BY <1>4, <2>1, <2>2, <3>1
  <2>3. CASE i + Budget # n + 1
    <3>1. i \in 1..n - Budget /\ i + Budget \in 1..n
      BY <1>2, <2>1, <2>3, WatchdogAssumption
    <3> QED
      BY <1>4, <2>1, <3>1 DEF SpaceInv, RestartsSpaced, n
  <2> QED
    BY <2>2, <2>3
<1>11. RestartsSpaced'
  <2>1. ~ahead' => \A i, j \in DOMAIN decided' : i < j => decided'[j] - decided'[i] >= Cooldown
    BY <1>1, <1>4, <1>9
  <2>2. ~ahead' /\ ~back' => \A i \in 1..Len(decided') - Budget :
          decided'[i + Budget] - decided'[i] > Window
    <3>1. Len(decided') = n + 1
      BY <1>1, <1>2 DEF n
    <3> SUFFICES ASSUME ~ahead', ~back', NEW i \in 1..Len(decided') - Budget
                 PROVE  decided'[i + Budget] - decided'[i] > Window
      OBVIOUS
    <3>2. ~ahead /\ ~back /\ i \in 1..n + 1 - Budget
      BY <1>1, <1>2, <3>1, WatchdogAssumption
    <3> QED
      BY <1>10, <3>2
  <2> QED
    BY <2>1, <2>2 DEF RestartsSpaced
<1> QED
  BY <1>1, <1>5, <1>8, <1>11

\* An evaluation remembers what the file did.
LEMMA EvaluatedRemembers ==
  ASSUME SpaceInv, NEW snapshot \in Snapshots, Possible(snapshot)
  PROVE  LET e == Evaluated(disk, snapshot) IN e \in States /\ Remembers(e)
<1> DEFINE e == Evaluated(disk, snapshot)
<1>1. e \in States /\ e.last = disk.last /\ e.restarts = Pruned(disk.restarts)
  BY EvaluatedFields DEF SpaceInv, TypeInv, ProcessOK, Sound
<1> HIDE DEF e
<1>2. ASSUME ~ahead, ~back, NEW i \in DOMAIN decided, now - decided[i] <= Window
      PROVE  [at |-> decided[i], nr |-> i] \in e.restarts
  <2>1. wall = now /\ now \in Nat /\ decided[i] \in Nat
    BY <1>2, DecidedTimes DEF wall, SpaceInv
  <2>2. wall - Window <= decided[i] /\ decided[i] <= wall + Tolerance
    BY <1>2, <2>1, WatchdogAssumption DEF SpaceInv
  <2>3. [at |-> decided[i], nr |-> i] \in disk.restarts
    BY <1>2 DEF SpaceInv, Remembers
  <2> QED
    BY <1>1, <2>2, <2>3 DEF Pruned
<1>3. Remembers(e)
  BY <1>1, <1>2 DEF SpaceInv, Remembers
<1> QED
  BY <1>1, <1>3 DEF e

\* Every step keeps the distance.
LEMMA SpaceStep == SpaceInv /\ [Next]_vars => SpaceInv'
<1> SUFFICES ASSUME SpaceInv, [Next]_vars PROVE SpaceInv'
  OBVIOUS
<1>1. /\ TypeInv /\ TypeInv' /\ disk \in States
      /\ pc # "idle" => mem \in States /\ Sound(mem) /\ action \in Faults
      /\ ~ahead' /\ ~back' => offset' = 0
      /\ ~ahead' => ~ahead
  BY TypeStep, ClockStep DEF SpaceInv, TypeInv, ProcessOK, Sound
<1>2. CASE UNCHANGED decided
  <2>1. /\ \A s, t : s \in States /\ Remembers(s) /\ t.last = s.last
                     /\ t.restarts = s.restarts /\ disk' = t => Remembers(disk)'
        /\ \A s, t : s \in States /\ Remembers(s) /\ t.last = s.last
                     /\ t.restarts = s.restarts /\ mem' = t => Remembers(mem)'
        /\ \A i \in DOMAIN decided' : decided'[i] <= now'
        /\ ~ahead /\ decided # <<>> /\ now - decided[Len(decided)] >= Cooldown =>
             now' - decided[Len(decided)] >= Cooldown
        /\ RestartsSpaced'
    BY <1>2, MemoryKept
  <2>2. ASSUME Remembers(disk)', pc' # "idle" => Remembers(mem)',
               pc' = "recheck" /\ decided' # <<>> /\ ~ahead' =>
                 now' - decided'[Len(decided')] >= Cooldown
        PROVE  SpaceInv'
    BY <1>1, <2>1, <2>2 DEF SpaceInv
  <2>3. ASSUME UNCHANGED <<disk, process>> PROVE SpaceInv'
    <3>1. Remembers(disk)' /\ (pc' # "idle" => Remembers(mem)')
      BY <1>1, <2>1, <2>3 DEF SpaceInv, process
    <3>2. pc' = "recheck" /\ decided' # <<>> /\ ~ahead' =>
            now' - decided'[Len(decided')] >= Cooldown
      BY <1>1, <1>2, <2>1, <2>3 DEF SpaceInv, process
    <3> QED
      BY <2>2, <3>1, <3>2
  <2>4. ASSUME pc' = "idle", UNCHANGED disk PROVE SpaceInv'
    BY <1>1, <2>1, <2>2, <2>4 DEF SpaceInv
  <2>5. ASSUME NEW snapshot \in Snapshots, Watch(snapshot) PROVE SpaceInv'
    <3>1. pc = "idle" /\ Possible(snapshot) /\ disk' = Evaluated(disk, snapshot) /\ pc' = pc
      BY <2>5 DEF Watch, process
    <3>2. Remembers(disk)'
      BY <2>1, <3>1, EvaluatedRemembers
    <3> QED
      BY <2>2, <3>1, <3>2
  <2>6. ASSUME NEW snapshot \in Snapshots, Propose(snapshot) PROVE SpaceInv'
    <3> DEFINE e == Evaluated(disk, snapshot)
    <3>1. /\ Possible(snapshot) /\ mem' = e /\ pc' = "recheck"
          /\ Proposed(e, snapshot) # None /\ UNCHANGED <<disk, now, ahead>>
      BY <2>6 DEF Propose, host
    <3>2. e \in States /\ Remembers(e) /\ CooldownReady(e)
      BY <1>1, <3>1, EvaluatedRemembers, ProposalFields
    <3> HIDE DEF e
    <3>3. Remembers(disk)' /\ Remembers(mem)'
      BY <1>1, <2>1, <3>1, <3>2 DEF SpaceInv
    <3>4. decided # <<>> /\ ~ahead => now - decided[Len(decided)] >= Cooldown
      <4> SUFFICES ASSUME decided # <<>>, ~ahead
                   PROVE  now - decided[Len(decided)] >= Cooldown
        OBVIOUS
      <4>1. /\ e.last # None /\ e.last >= decided[Len(decided)] + offset
            /\ wall - e.last >= Cooldown
        BY <3>2 DEF Remembers, CooldownReady
      <4>2. /\ e.last \in Int /\ offset \in Int /\ now \in Nat /\ decided[Len(decided)] \in Nat
        BY <3>2, <4>1, DecidedTimes DEF States, SpaceInv, TypeInv, HostOK
      <4> QED
        BY <4>1, <4>2, WatchdogAssumption DEF wall
    <3> QED
      BY <1>2, <2>2, <3>1, <3>3, <3>4
  <2>7. ASSUME NEW snapshot \in Snapshots, Cancel(snapshot) PROVE SpaceInv'
    <3>1. /\ pc = "recheck" /\ pc' = "idle"
          /\ disk' = [mem EXCEPT !.zeroSince = None, !.samples = 0, !.falseSince = None]
      BY <2>7 DEF Cancel, Done
    <3>2. disk'.last = mem.last /\ disk'.restarts = mem.restarts
      BY <1>1, <3>1, CanceledFields
    <3>3. Remembers(disk)'
      BY <1>1, <2>1, <3>1, <3>2 DEF SpaceInv
    <3> QED
      BY <2>2, <3>1, <3>3
  <2>8. CASE CannotRestart
    <3>1. pc = "restart" /\ pc' = "idle" /\ disk' = [mem EXCEPT !.restarted[action] = FALSE]
      BY <2>8 DEF CannotRestart, Done
    <3>2. disk'.last = mem.last /\ disk'.restarts = mem.restarts
      BY <1>1, <3>1, ReleasedFields
    <3>3. Remembers(disk)'
      BY <1>1, <2>1, <3>1, <3>2 DEF SpaceInv
    <3> QED
      BY <2>2, <3>1, <3>3
  <2>9. CASE Restart \/ Die \/ Reboot
    BY <2>4, <2>9 DEF Restart, Die, Reboot, Done
  <2>10. CASE ServiceStops \/ ServiceStarts \/ TimePasses \/ UNCHANGED vars
                \/ \E jump \in Jumps : SetClock(jump)
    BY <2>3, <2>10 DEF ServiceStops, ServiceStarts, TimePasses, SetClock, vars, process
  <2>11. ASSUME NEW snapshot \in Snapshots, Mark(snapshot) PROVE FALSE
    <3>1. decided' = Append(decided, now) /\ decided \in Seq(Times)
      BY <2>11, DecidedTimes DEF Mark
    <3> QED
      BY <1>2, <3>1, DecidedTimes
  <2> QED
    BY <2>5, <2>6, <2>7, <2>8, <2>9, <2>10, <2>11 DEF Next
<1>3. ASSUME NEW snapshot \in Snapshots, Mark(snapshot) PROVE SpaceInv'
  <2>1. /\ pc' = "restart" /\ \A i \in DOMAIN decided' : decided'[i] <= now'
        /\ Remembers(disk)' /\ Remembers(mem)' /\ RestartsSpaced'
    BY <1>3, MarkSpaced
  <2> QED
    BY <1>1, <2>1 DEF SpaceInv
<1>4. UNCHANGED decided \/ \E snapshot \in Snapshots : Mark(snapshot)
  BY DEF Next, Watch, Propose, Cancel, Restart, CannotRestart, Die, Reboot, ServiceStops,
         ServiceStarts, SetClock, TimePasses, host, history, vars
<1> QED
  BY <1>2, <1>3, <1>4

\* Restarts keep the cooldown and the budget as long as the clock they are told by does.
THEOREM RestartsKeepDistance == Spec => []RestartsSpaced
<1>1. Init => SpaceInv
  BY TypeInit, WatchdogAssumption DEF Init, SpaceInv, Remembers, RestartsSpaced
<1>2. SpaceInv => RestartsSpaced
  BY DEF SpaceInv
<1> QED
  BY <1>1, <1>2, SpaceStep, PTL DEF Spec
=============================================================================
