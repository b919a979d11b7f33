----------------------------- MODULE MCDaemons -----------------------------
(***************************************************************************)
(* Four machines that run on the edge and share no state, checked in one   *)
(* run: `machine` says which of them a behavior is of, and the others stay *)
(* as they began.  What a machine does in the end is stated under its own  *)
(* fairness.                                                               *)
(***************************************************************************)
EXTENDS Scheduler, Sequences, TLC

CONSTANTS
  DayLen, GraceOfDay, MaxNow, MaxTrouble,
  Meter, ClearAfter, MaxHolds, MaxStrife,
  Device, Threshold, EnterAfter, LeaveAfter, GrowBy, Remind,
  CheckEvery, FirstCheck, Cooldown, Grace, MaxFaults

VARIABLES machine

\* ReportGate
VARIABLES now, ticked, ids, through, buffer, torn, open, throughTotals, wedged, aside, cloud, drain, draining,
  lateData, lateKept, report, todo, gated, unnoted, trouble
reportVars == <<now, ticked, ids, through, buffer, torn, open, throughTotals, wedged, aside, cloud, drain, draining,
  lateData, lateKept, report, todo, gated, unnoted, trouble>>

\* HeldMeters
VARIABLES hold, flag, tracked, absent, since, runs, tickStage, record, pending, asked, stored,
  slipped, unestimated, forgotten, strife
heldVars == <<hold, flag, tracked, absent, since, runs, tickStage, record, pending, asked, stored,
  slipped, unestimated, forgotten, strife>>

\* FleetWatch
VARIABLES reachable, session, restarting, history, everOnline, unseeded, alarming, streak,
  notified, quiet, notice, streaks, keptRestart, nextCheck, booted, restarted,
  unwritten, faults
fleetVars == <<reachable, session, restarting, history, everOnline, unseeded, alarming, streak,
  notified, quiet, notice, streaks, keptRestart, nextCheck, booted, restarted,
  unwritten, faults>>

-----------------------------------------------------------------------------
Row(targets, on, off) == [targets |-> targets, on |-> on, off |-> off]
Never == -1
Tiers == 1 :> 1 @@ 2 :> 2
Configs ==
  (0 :> [rows |-> {Row({1, 2}, 1, Never), Row({2}, 1, 1)}, tier |-> Tiers, auto |-> FALSE])
  @@ (1 :> [rows |-> {Row({1}, 1, Never), Row({2}, 1, Never)}, tier |-> Tiers, auto |-> TRUE])

R == INSTANCE ReportGate WITH late <- lateData, Grace <- GraceOfDay
H == INSTANCE HeldMeters WITH stage <- tickStage, MaxTrouble <- MaxStrife
F == INSTANCE FleetWatch WITH told <- notice, MaxTrouble <- MaxFaults

\* The bounds are numbers, a day has a length, and there are finitely many devices.
GateBounds == DayLen \in Nat \ {0} /\ GraceOfDay \in Nat /\ MaxNow \in Nat /\ MaxTrouble \in Nat
Delay == ClearAfter \in Nat
Sizes ==
  /\ IsFiniteSet(Device)
  /\ Threshold \in Nat /\ EnterAfter \in Nat /\ LeaveAfter \in Nat /\ Remind \in Nat
  /\ CheckEvery \in Nat /\ FirstCheck \in Nat /\ Cooldown \in Nat /\ Grace \in Nat /\ MaxFaults \in Nat
ASSUME DaemonsAssumption == GateBounds /\ Delay /\ Sizes

AnyInit ==
  /\ machine \in {"scheduler", "reports", "meters", "fleet"}
  /\ Init /\ R!Init /\ H!Init /\ F!Init
  /\ machine # "reports" => open  \* the others begin in one way

SchedulerSteps == machine = "scheduler" /\ Next /\ UNCHANGED <<machine, reportVars, heldVars, fleetVars>>
ReportSteps == machine = "reports" /\ R!Next /\ UNCHANGED <<machine, scheduler_vars, heldVars, fleetVars>>
MeterSteps == machine = "meters" /\ H!Next /\ UNCHANGED <<machine, scheduler_vars, reportVars, fleetVars>>
FleetSteps == machine = "fleet" /\ F!Next /\ UNCHANGED <<machine, scheduler_vars, reportVars, heldVars>>

AnyNext == SchedulerSteps \/ ReportSteps \/ MeterSteps \/ FleetSteps

AnySpec == AnyInit /\ [][AnyNext]_<<machine, scheduler_vars, reportVars, heldVars, fleetVars>>

-----------------------------------------------------------------------------
\* The properties of the modules; FiredOnce and OlderOnlyWhenOvertaken of Scheduler are
\* checked under their own names. What a machine does in the end holds under its fairness.

\* A saved configuration reaches the scheduler and the file it starts from in an outage.
ConfigReaches == machine = "scheduler" /\ Fairness => ConfigArrives
\* Load over the limit is shed, tier after tier, until there is nothing more to shed.
BreachStops == machine = "scheduler" /\ Fairness => BreachEnds

\* A report that lacks a row the cloud has is built again.
StaleIsRebuilt == R!StaleIsRebuilt
\* A day is reported once its rows are up, but those buffered, lost from the buffer, out of
\* order or set aside.
MadeWhole == R!MadeWhole
\* Every settled day is reported: what the edge owes holds it back for ever only when
\* some table refuses its stream for good.
Reported == machine = "reports" /\ R!Fairness => R!Reported

\* An estimate on record is pending or in the cloud.
EstimateKept == H!EstimateKept
\* A hold that flickers is neither ended nor told.
EndedForGood == H!EndedForGood
\* A hold that ended gets its estimate in the cloud, if one was made of it.
HoldEstimated == machine = "meters" /\ H!Fairness => H!HoldEstimated

\* Two restarts of Node-RED are a cooldown apart.
RestartsSpaced == F!RestartsSpaced
\* A device whose node gave up gets its session back.
StuckRecovered == machine = "fleet" /\ F!Fairness => F!StuckRecovered
\* An outage that stands is told.
OutageTold == machine = "fleet" /\ F!Fairness => F!OutageTold
=============================================================================
