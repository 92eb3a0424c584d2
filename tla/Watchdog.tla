------------------------------ MODULE Watchdog ------------------------------
(***************************************************************************)
(* The node watchdog, src/scripts/idena_node_watchdog.py: a process systemd*)
(* starts every minute. It reads state.json, takes a snapshot of the node, *)
(* evaluates both, and may restart idena.service, either because the node  *)
(* has lost its peers or because its identity stays offline although       *)
(* everything is well. What it must not do is restart too often.           *)
(*                                                                         *)
(* A step of the watchdog is what it does between two points at which time *)
(* passes: the snapshot, the second snapshot, the restart.                 *)
(***************************************************************************)
EXTENDS Integers, Sequences, FiniteSets

CONSTANTS
  PeerLoss, Samples, \* an outage counts after this long and this many samples
  OnlineLoss,        \* an offline identity after this long
  Grace,             \* after which a started service is looked at
  Cooldown,          \* between two restarts
  Window, Budget,    \* at most Budget restarts in Window
  Tolerance,         \* by how much a counted restart may lie ahead of the clock
  Jumps,             \* bound: by how much the wall clock is ever set
  MaxTime,           \* bound: time explored
  MaxStarts,         \* bound: starts of the service
  MaxFaults,         \* bound: reboots, services and watchdogs that die, settings of the clock
  None

ASSUME WatchdogAssumption ==
  /\ PeerLoss \in Nat /\ Samples \in Nat \ {0} /\ OnlineLoss \in Nat \ {0} /\ Grace \in Nat
  /\ Cooldown \in Nat /\ Window \in Nat /\ Budget \in Nat \ {0} /\ Tolerance \in Nat
  /\ Jumps \subseteq Int \ {0}
  /\ MaxTime \in Nat /\ MaxStarts \in Nat \ {0} /\ MaxFaults \in Nat
  /\ None \notin Int

VARIABLES
  now,        \* time that has passed; a boot's monotonic clock follows it
  offset,     \* wall clock time minus now
  boot,       \* boot id
  active,     \* the service is active
  invocation, \* its main process
  startedAt,  \* since when
  disk,       \* state.json
  pc,         \* what the running watchdog does next
  mem,        \* its next_state
  action,     \* what it is about to do
  decided,    \* history: when it decided to restart the service
  tries,      \* history: restarts that may have happened in this outage and episode
  window,     \* history: zero peer samples in a row, and when they began
  ahead, back, \* history: the wall clock has been put ahead, put back
  faults

host    == <<now, offset, boot, active, invocation, startedAt>>
process == <<pc, mem, action>>
history == <<decided, tries, window, ahead, back>>
vars == <<now, offset, boot, active, invocation, startedAt, disk, pc, mem, action,
          decided, tries, window, ahead, back, faults>>

Times  == 0..MaxTime
Latest == {None} \cup Times
Faults == {"peer", "online"}  \* restart_peer_loss, restart_online_stuck

\* The state file. Blocks since an identity is offline are a choice of the
\* snapshot; restart times are wall clock times, told apart by their number.
States == [boot: 0..MaxFaults, invocation: 0..MaxStarts, ever: BOOLEAN,
           armed: BOOLEAN, zeroSince: Latest, samples: 0..Samples,
           restarted: [Faults -> BOOLEAN], falseSince: Latest,
           last: Int \cup {None}, restarts: SUBSET [at: Int, nr: Nat]]

\* What one snapshot says: the peers, if they could be read, and whether the
\* identity is online, offline with no health failure, or neither; and whether
\* enough blocks came.
Snapshots == [peers: {"some", "zero", "unknown"},
              health: {"online", "offline", "failures"}, blocks: BOOLEAN]

wall == now + offset

\* online_health_failures: peers, an active service and the startup grace are
\* among what an offline identity needs.
Uptime == IF active THEN now - startedAt ELSE 0

Possible(snapshot) ==
  snapshot.health = "offline" => snapshot.peers = "some" /\ active /\ Uptime >= Grace

-----------------------------------------------------------------------------
(* evaluate_tick                                                            *)

\* prune_restart_history
Pruned(restarts) ==
  {t \in restarts : wall - Window <= t.at /\ t.at <= wall + Tolerance}

CooldownReady(state) == state.last = None \/ wall - state.last >= Cooldown

BudgetReady(state) == Cardinality(Pruned(state.restarts)) < Budget

Ready(state, fault) ==
  ~state.restarted[fault] /\ CooldownReady(state) /\ BudgetReady(state)

\* A new boot or a new main process starts all evidence anew. A boot ends the
\* outage, too.
Renewed(state) ==
  IF state.boot = boot /\ state.invocation = invocation THEN state
  ELSE [state EXCEPT
          !.boot = boot, !.invocation = invocation, !.armed = FALSE,
          !.zeroSince = None, !.samples = 0, !.falseSince = None,
          !.restarted["peer"] = @ /\ state.boot = boot]

\* Zero peers count once the monitor is armed: peers were seen, or the service
\* has had its grace and once had some. Samples beyond the required number are
\* not told apart.
ZeroSeen(state) ==
  IF state.armed \/ (state.ever /\ active /\ Uptime >= Grace)
    THEN [state EXCEPT !.armed = TRUE,
            !.zeroSince = IF @ = None THEN now ELSE @,
            !.samples = IF state.zeroSince = None THEN 1
                        ELSE IF @ < Samples THEN @ + 1 ELSE @]
    ELSE state

SomeSeen(state) ==
  [state EXCEPT !.ever = TRUE, !.armed = TRUE, !.zeroSince = None, !.samples = 0,
                !.restarted["peer"] = FALSE]

\* Mutant: a failed request leaves the evidence as it is.
PeersSeenUnlessUnknown(state, snapshot) ==
  CASE snapshot.peers = "some"    -> SomeSeen(state)
    [] snapshot.peers = "unknown" -> state
    [] snapshot.peers = "zero"    -> ZeroSeen(state)

\* Peers end an outage, a failed request ends the evidence.
PeersSeen(state, snapshot) ==
  CASE snapshot.peers = "some"    -> SomeSeen(state)
    [] snapshot.peers = "unknown" -> [state EXCEPT !.zeroSince = None, !.samples = 0]
    [] snapshot.peers = "zero"    -> ZeroSeen(state)

IdentitySeen(state, snapshot) ==
  CASE snapshot.health = "online" ->
         [state EXCEPT !.falseSince = None, !.restarted["online"] = FALSE]
    [] snapshot.health = "failures" -> [state EXCEPT !.falseSince = None]
    [] snapshot.health = "offline" ->
         [state EXCEPT !.falseSince = IF @ = None THEN now ELSE @]

Evaluated(state, snapshot) ==
  LET seen == IdentitySeen(PeersSeen(Renewed(state), snapshot), snapshot)
  IN [seen EXCEPT !.restarts = Pruned(@)]

PeersLost(state, snapshot) ==
  /\ snapshot.peers = "zero" /\ state.zeroSince # None
  /\ now - state.zeroSince >= PeerLoss /\ state.samples >= Samples
  /\ active /\ Ready(state, "peer")

OnlineStuck(state, snapshot) ==
  /\ snapshot.health = "offline"
  /\ now - state.falseSince >= OnlineLoss /\ snapshot.blocks
  /\ Ready(state, "online")

Proposed(state, snapshot) ==
  IF PeersLost(state, snapshot) THEN "peer"
  ELSE IF OnlineStuck(state, snapshot) THEN "online" ELSE None

-----------------------------------------------------------------------------
(* main                                                                     *)

NoWindow == [since |-> 0, length |-> 0, invocation |-> 0]

\* What a person reading the samples would say of the outage.
Observe(snapshot, state) ==
  /\ tries' = [f \in Faults |->
       IF (f = "peer" /\ snapshot.peers = "some")
            \/ (f = "online" /\ snapshot.health = "online")
         THEN 0 ELSE tries[f]]
  /\ window' = IF snapshot.peers # "zero" THEN NoWindow
               ELSE IF window.length = 0 \/ state.invocation # window.invocation
                 THEN [since |-> now, length |-> 1, invocation |-> state.invocation]
               ELSE IF window.length < Samples THEN [window EXCEPT !.length = @ + 1]
               ELSE window

\* The lock is free; nothing needs to be done, and the state is saved.
Watch(snapshot) ==
  /\ pc = "idle" /\ Possible(snapshot)
  /\ LET next == Evaluated(disk, snapshot) IN
       /\ Proposed(next, snapshot) = None
       /\ disk' = next
       /\ Observe(snapshot, next)
  /\ UNCHANGED <<host, process, decided, ahead, back, faults>>

\* The service shall be restarted if a second snapshot agrees.
Propose(snapshot) ==
  /\ pc = "idle" /\ Possible(snapshot)
  /\ LET next == Evaluated(disk, snapshot) IN
       /\ Proposed(next, snapshot) # None
       /\ mem' = next
       /\ action' = Proposed(next, snapshot)
       /\ Observe(snapshot, next)
  /\ pc' = "recheck"
  /\ UNCHANGED <<host, disk, decided, ahead, back, faults>>

Done ==
  /\ pc' = "idle" /\ mem' = None /\ action' = None

\* recheck_action
Agrees(snapshot) ==
  /\ Possible(snapshot)
  /\ active /\ mem.boot = boot /\ mem.invocation = invocation
  /\ \/ action = "peer" /\ snapshot.peers = "zero"
     \/ action = "online" /\ snapshot.health = "offline"

\* Mutant: the samples outlive the evidence they belong to.
CancelSince(snapshot) ==
  /\ pc = "recheck" /\ Possible(snapshot) /\ ~Agrees(snapshot)
  /\ disk' = [mem EXCEPT !.zeroSince = None, !.falseSince = None]
  /\ window' = NoWindow
  /\ Done
  /\ UNCHANGED <<host, decided, tries, ahead, back, faults>>

\* All evidence starts anew.
Cancel(snapshot) ==
  /\ pc = "recheck" /\ Possible(snapshot) /\ ~Agrees(snapshot)
  /\ disk' = [mem EXCEPT !.zeroSince = None, !.samples = 0, !.falseSince = None]
  /\ window' = NoWindow
  /\ Done
  /\ UNCHANGED <<host, decided, tries, ahead, back, faults>>

\* Mutant: the attempt is not entered in the history.
StartedUncounted(state, fault) ==
  LET marked == [state EXCEPT !.restarted[fault] = TRUE, !.last = wall] IN
  IF fault = "peer" THEN [marked EXCEPT !.zeroSince = None, !.samples = 0]
  ELSE [marked EXCEPT !.falseSince = None]

\* mark_action_started
Started(state, fault) ==
  LET times  == Pruned(state.restarts) \cup {[at |-> wall, nr |-> Len(decided) + 1]}
      oldest == CHOOSE t \in times : \A u \in times : t.at <= u.at
      marked == [state EXCEPT !.restarted[fault] = TRUE, !.last = wall, !.restarts =
                   IF Cardinality(times) > Budget THEN times \ {oldest} ELSE times]
  IN IF fault = "peer" THEN [marked EXCEPT !.zeroSince = None, !.samples = 0]
     ELSE [marked EXCEPT !.falseSince = None]

\* The attempt is on disk before systemctl is called.
Mark(snapshot) ==
  /\ pc = "recheck" /\ Agrees(snapshot)
  /\ mem' = Started(mem, action)
  /\ disk' = mem'
  /\ pc' = "restart"
  /\ decided' = Append(decided, now)
  /\ UNCHANGED <<host, action, tries, window, ahead, back, faults>>

StartService ==
  /\ invocation < MaxStarts /\ invocation' = invocation + 1
  /\ active' = TRUE /\ startedAt' = now

Try == tries' = [tries EXCEPT ![action] = @ + 1]

\* Mutant: mark_action_failed releases the latch whatever is known.
RestartReleases ==
  /\ pc = "restart"
  /\ \/ StartService
     \/ UNCHANGED <<active, invocation, startedAt>>
  /\ disk' = [mem EXCEPT !.restarted[action] = FALSE]
  /\ Try
  /\ Done
  /\ UNCHANGED <<now, offset, boot, decided, window, ahead, back, faults>>

\* systemctl restart: it succeeds, or its outcome is not known ...
Restart ==
  /\ pc = "restart"
  /\ \/ StartService
     \/ UNCHANGED <<active, invocation, startedAt>>
  /\ Try
  /\ Done
  /\ UNCHANGED <<now, offset, boot, disk, decided, window, ahead, back, faults>>

\* ... or systemctl cannot be started, and mark_action_failed releases the latch.
CannotRestart ==
  /\ pc = "restart"
  /\ disk' = [mem EXCEPT !.restarted[action] = FALSE]
  /\ Done
  /\ UNCHANGED <<host, history, faults>>

-----------------------------------------------------------------------------
(* The host.                                                                *)

Fault == faults < MaxFaults /\ faults' = faults + 1

\* The watchdog fails closed, is killed or times out: what is saved is all that
\* is left. A restart it had called for may still happen.
Die ==
  /\ pc # "idle" /\ Fault
  /\ \/ UNCHANGED <<active, invocation, startedAt, tries>>
     \/ pc = "restart" /\ StartService /\ Try
  /\ Done
  /\ UNCHANGED <<now, offset, boot, disk, decided, window, ahead, back>>

Reboot ==
  /\ Fault
  /\ boot' = boot + 1
  /\ StartService
  /\ Done
  /\ tries' = [tries EXCEPT !["peer"] = 0]
  /\ window' = NoWindow
  /\ UNCHANGED <<now, offset, disk, decided, ahead, back>>

\* It stops, or another one takes its place.
ServiceStops ==
  /\ Fault
  /\ active /\ active' = FALSE
  /\ UNCHANGED <<now, offset, boot, invocation, startedAt, disk, process, history>>

ServiceStarts ==
  /\ ~active /\ StartService
  /\ UNCHANGED <<now, offset, boot, disk, process, history, faults>>

SetClock(jump) ==
  /\ Fault
  /\ wall + jump >= 0
  /\ offset' = offset + jump
  /\ ahead' = (ahead \/ jump > 0) /\ back' = (back \/ jump < 0)
  /\ UNCHANGED <<now, boot, active, invocation, startedAt, disk, process, decided,
                 tries, window>>

\* The restart follows at once on the decision.
TimePasses ==
  /\ now < MaxTime /\ pc # "restart"
  /\ now' = now + 1
  /\ UNCHANGED <<offset, boot, active, invocation, startedAt, disk, process,
                 history, faults>>

-----------------------------------------------------------------------------
Init ==
  /\ now = 0 /\ offset = 0 /\ boot = 0
  /\ active = TRUE /\ invocation = 1 /\ startedAt = 0
  /\ disk = [boot |-> 0, invocation |-> 0, ever |-> FALSE, armed |-> FALSE,
             zeroSince |-> None, samples |-> 0, restarted |-> [f \in Faults |-> FALSE],
             falseSince |-> None, last |-> None, restarts |-> {}]
  /\ pc = "idle" /\ mem = None /\ action = None
  /\ decided = <<>> /\ tries = [f \in Faults |-> 0] /\ window = NoWindow
  /\ ahead = FALSE /\ back = FALSE
  /\ faults = 0

Next ==
  \/ \E snapshot \in Snapshots :
       Watch(snapshot) \/ Propose(snapshot) \/ Cancel(snapshot) \/ Mark(snapshot)
  \/ Restart \/ CannotRestart
  \/ Die \/ Reboot \/ ServiceStops \/ ServiceStarts
  \/ \E jump \in Jumps : SetClock(jump)
  \/ TimePasses

Spec == Init /\ [][Next]_vars

-----------------------------------------------------------------------------
TypeOK ==
  /\ now \in Times /\ offset \in Int /\ boot \in 0..MaxFaults
  /\ active \in BOOLEAN /\ invocation \in 1..MaxStarts /\ startedAt \in Times
  /\ disk \in States /\ Cardinality(disk.restarts) <= Budget
  /\ disk.zeroSince = None <=> disk.samples = 0
  /\ disk.zeroSince # None => disk.armed /\ disk.ever
  /\ pc \in {"idle", "recheck", "restart"}
  /\ mem \in States \cup {None} /\ action \in Faults \cup {None}
  /\ tries \in [Faults -> Nat]
  /\ ahead \in BOOLEAN /\ back \in BOOLEAN /\ faults \in 0..MaxFaults

\* Restarts keep the cooldown, and the budget in every window, over both kinds of
\* fault, dying watchdogs and reboots ("A fixed safety budget stops all automatic
\* actions after two node restarts in six hours"). The wall clock they are told by
\* may be set: back costs the budget, ahead the cooldown, too.
RestartsSpaced ==
  /\ ~ahead => \A i, j \in DOMAIN decided :
       i < j => decided[j] - decided[i] >= Cooldown
  /\ ~ahead /\ ~back => \A i \in 1..Len(decided) - Budget :
       decided[i + Budget] - decided[i] > Window

\* "Only one restart is allowed for a continuous peer outage", and one until the
\* identity is online again: none may have happened before in this outage of this
\* boot, even if a watchdog died in it.
OneRestartPerOutage == \A fault \in Faults : tries[fault] <= 1

\* "At least 900 continuous seconds and 15 successful samples": between the first
\* and the last no peer was seen, no request failed and the service was not started.
OutageProven ==
  [][decided' # decided /\ action = "peer" =>
       /\ window.length >= Samples /\ window.invocation = invocation
       /\ now - window.since >= PeerLoss]_vars
=============================================================================
