----------------------------- MODULE FleetWatch -----------------------------
(***************************************************************************)
(* Who notices a fleet in trouble, and what is done about it: the alarm in *)
(* ingest, once a minute (fleetAlarm.mjs), and the recovery that a timer   *)
(* runs (fleetRecover.mjs, fleet-recover.mjs), which restarts Node-RED for *)
(* a device that answers while its node has given up.  A restart drops     *)
(* every session, which the alarm sees.                                    *)
(*                                                                         *)
(* Time is counted in ages, up to the limit that something waits for.      *)
(***************************************************************************)
EXTENDS Integers, FiniteSets

CONSTANTS
  Device,
  Threshold, EnterAfter, LeaveAfter, GrowBy, Remind,  \* FLEET_ALARM_OPTIONS, in ticks
  CheckEvery, FirstCheck,   \* the timer, after a check and after boot
  Cooldown, Grace,          \* RESTART_COOLDOWN_MS, BOOT_GRACE_MS
  MaxTrouble                \* bound: faults of devices, nodes, notices, writes and the Pi

StreakToRestart == 2

VARIABLES
  reachable,    \* devices that answer on the network
  session,      \* devices online to the bridge
  restarting,   \* Node-RED is coming up
  history,      \* devices the database has seen online
  everOnline,   \* ... as the alarm knows
  unseeded,     \* the alarm began without asking the database (history)
  alarming, streak, notified, quiet,  \* the alarm; quiet: ticks since its last notice
  told,         \* what the operator was told last (history)
  streaks, keptRestart,   \* the recovery's file; keptRestart: ticks since lastRestartAt
  nextCheck,    \* ticks until the timer fires
  booted,       \* ticks since boot
  restarted,    \* ticks since the recovery restarted Node-RED (history)
  unwritten,    \* ... which its file does not say (history)
  faults

fleet == <<reachable, session, restarting, history>>
alarm == <<everOnline, unseeded, alarming, streak, notified, quiet, told>>
recovery == <<streaks, keptRestart, nextCheck, booted, restarted, unwritten>>
fleetwatch_vars == <<fleet, alarm, recovery, faults>>

Fault == faults < MaxTrouble /\ faults' = faults + 1
Least(a, b) == IF a < b THEN a ELSE b
Older(age, limit) == Least(age + 1, limit)

-----------------------------------------------------------------------------
(***************************************************************************)
(* Devices and their nodes.                                                *)
(***************************************************************************)
DeviceFails(d) ==
  /\ Fault /\ d \in reachable /\ reachable' = reachable \ {d} /\ session' = session \ {d}
  /\ UNCHANGED <<restarting, history, alarm, recovery>>

\* ... and its node finds it, or has given up.
DeviceReturns(d) ==
  /\ d \notin reachable /\ reachable' = reachable \cup {d}
  /\ \/ session' = session \cup {d} /\ ~restarting /\ UNCHANGED faults
     \/ UNCHANGED session /\ Fault
  /\ UNCHANGED <<restarting, history, alarm, recovery>>

NodeGivesUp(d) ==
  /\ Fault /\ d \in session /\ session' = session \ {d}
  /\ UNCHANGED <<reachable, restarting, history, alarm, recovery>>

-----------------------------------------------------------------------------
(***************************************************************************)
(* The alarm.                                                              *)
(***************************************************************************)
\* A device that was never online is not down.
Down == (everOnline \cup session) \ session
Many == Cardinality(Down) >= Threshold

\* A notice may not get through; it is not sent again.
Notice(word) ==
  /\ notified' = Cardinality(Down) /\ quiet' = 0
  /\ \/ told' = word /\ UNCHANGED faults
     \/ UNCHANGED told /\ Fault

NoNotice == quiet' = Older(quiet, Remind) /\ UNCHANGED <<notified, told, faults>>

\* enterAfter, leaveAfter
Settled == streak + 1 >= IF alarming THEN LeaveAfter ELSE EnterAfter

Changes ==
  /\ Many # alarming
  /\ IF Settled
     THEN /\ streak' = 0 /\ alarming' = Many
          /\ Notice(IF Many THEN "stuck" ELSE "recovered")
     ELSE /\ streak' = streak + 1 /\ NoNotice /\ UNCHANGED alarming

\* Mutant: a standing outage is not repeated.
DueGrown == alarming /\ Cardinality(Down) >= notified + GrowBy
\* Grown since the last notice, or so long since.
Due == alarming /\ (Cardinality(Down) >= notified + GrowBy \/ quiet >= Remind)

Stays ==
  /\ Many = alarming /\ streak' = 0 /\ UNCHANGED alarming
  /\ IF Due THEN Notice("stuck") ELSE NoNotice

Observe ==
  /\ everOnline' = everOnline \cup session /\ history' = history \cup session
  /\ UNCHANGED unseeded
  /\ Changes \/ Stays

\* The bridge does not answer: nothing is known of the devices.
BridgeSilent ==
  /\ IF restarting THEN UNCHANGED faults ELSE Fault
  /\ quiet' = Older(quiet, Remind)
  /\ UNCHANGED <<history, everOnline, unseeded, alarming, streak, notified, told>>

\* A minute: Node-RED is up again by its end.
Tick ==
  /\ nextCheck > 0 /\ nextCheck' = nextCheck - 1
  /\ Observe \/ BridgeSilent
  /\ session' = IF restarting THEN reachable ELSE session
  /\ restarting' = FALSE
  /\ keptRestart' = Older(keptRestart, Cooldown) /\ restarted' = Older(restarted, Cooldown)
  /\ booted' = Older(booted, Grace)
  /\ UNCHANGED <<reachable, streaks, unwritten>>

\* Ingest begins anew, with what the database knows or without.
IngestRestarts ==
  /\ Fault
  /\ \/ everOnline' = history /\ unseeded' = FALSE
     \/ everOnline' = {} /\ unseeded' = TRUE
  /\ alarming' = FALSE /\ streak' = 0 /\ notified' = 0 /\ quiet' = 0
  /\ UNCHANGED <<fleet, told, recovery>>

-----------------------------------------------------------------------------
(***************************************************************************)
(* The recovery.                                                           *)
(***************************************************************************)
Stuck == reachable \ session
\* Mutant: each check begins its own count.
StreaksAnew == [d \in Device |-> IF d \in Stuck THEN 1 ELSE 0]
Streaks == [d \in Device |-> IF d \in Stuck THEN Least(streaks[d] + 1, StreakToRestart) ELSE 0]
Earned == \E d \in Device : Streaks[d] >= StreakToRestart

\* Mutant: the last restart is not asked about.
DecideAnyTime == Earned /\ booted >= Grace
\* decideRecovery
Decide == Earned /\ booted >= Grace /\ keptRestart >= Cooldown

NoRestart ==
  /\ ~Decide /\ streaks' = Streaks
  /\ UNCHANGED <<fleet, keptRestart, restarted, unwritten, faults>>

\* Restarted; the file may not be written: a full disk, or the Pi goes down.
RestartNodeRed ==
  /\ Decide /\ session' = {} /\ restarting' = TRUE /\ restarted' = 0
  /\ \/ streaks' = [d \in Device |-> 0] /\ keptRestart' = 0 /\ unwritten' = FALSE /\ UNCHANGED faults
     \/ UNCHANGED <<streaks, keptRestart>> /\ unwritten' = TRUE /\ Fault
  /\ UNCHANGED <<reachable, history>>

RestartRefused ==
  /\ Decide /\ Fault /\ streaks' = Streaks
  /\ UNCHANGED <<fleet, keptRestart, restarted, unwritten>>

\* A check that cannot read the flow or the bridge decides nothing.
CheckFails == Fault /\ UNCHANGED <<fleet, streaks, keptRestart, restarted, unwritten>>

Check ==
  /\ nextCheck = 0 /\ nextCheck' = CheckEvery
  /\ NoRestart \/ RestartNodeRed \/ RestartRefused \/ CheckFails
  /\ UNCHANGED <<alarm, booted>>

\* The Pi goes down and comes up: nodes connect to what they find.
Reboot ==
  /\ Fault /\ session' = reachable /\ restarting' = FALSE
  /\ booted' = 0 /\ nextCheck' = FirstCheck
  /\ \/ everOnline' = history /\ unseeded' = FALSE
     \/ everOnline' = {} /\ unseeded' = TRUE
  /\ alarming' = FALSE /\ streak' = 0 /\ notified' = 0 /\ quiet' = 0
  /\ UNCHANGED <<reachable, history, told, streaks, keptRestart, restarted, unwritten>>

-----------------------------------------------------------------------------
Init ==
  /\ reachable = Device /\ session = Device /\ restarting = FALSE /\ history = Device
  /\ everOnline = Device /\ unseeded = FALSE
  /\ alarming = FALSE /\ streak = 0 /\ notified = 0 /\ quiet = 0 /\ told = "recovered"
  /\ streaks = [d \in Device |-> 0] /\ keptRestart = Cooldown /\ nextCheck = CheckEvery
  /\ booted = Grace /\ restarted = Cooldown /\ unwritten = FALSE /\ faults = 0

Next ==
  \/ \E d \in Device : DeviceFails(d) \/ DeviceReturns(d) \/ NodeGivesUp(d)
  \/ Tick \/ IngestRestarts \/ Check \/ Reboot

Spec == Init /\ [][Next]_fleetwatch_vars

\* The timers fire.
Fairness == WF_fleetwatch_vars(Tick) /\ WF_fleetwatch_vars(Check)
FairSpec == Spec /\ Fairness

-----------------------------------------------------------------------------
(***************************************************************************)
(* Properties.                                                             *)
(***************************************************************************)
TypeOK ==
  /\ session \subseteq reachable /\ reachable \subseteq Device /\ restarting \in BOOLEAN
  /\ everOnline \subseteq history /\ history \subseteq Device /\ unseeded \in BOOLEAN
  /\ alarming \in BOOLEAN /\ streak \in 0..(EnterAfter + LeaveAfter)
  /\ notified \in 0..Cardinality(Device) /\ quiet \in 0..Remind /\ told \in {"stuck", "recovered"}
  /\ streaks \in [Device -> 0..StreakToRestart] /\ keptRestart \in 0..Cooldown
  /\ nextCheck \in 0..(CheckEvery + FirstCheck) /\ booted \in 0..Grace
  /\ restarted \in 0..Cooldown /\ unwritten \in BOOLEAN /\ faults \in 0..MaxTrouble

\* "acts at most once an hour" (docs/03-edge.md:49), over reboots and refused restarts,
\* unless its file could not be written.
RestartsSpaced ==
  [][restarting' /\ ~restarting => restarted >= Cooldown \/ unwritten]_fleetwatch_vars

\* A device that answers gets its session back, though restarts are refused, cooled
\* down, lost from the file, and the Pi reboots.
StuckRecovered == []<>(reachable \subseteq session)

\* An outage that stands is told in the end, though notices are lost and ingest starts
\* anew within it; an ingest that could not ask the database is blind.
OutageStands == Cardinality(history \ session) >= Threshold /\ ~unseeded
OutageTold == <>[]OutageStands => []<>(told = "stuck")

=============================================================================
