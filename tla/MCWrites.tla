----------------------------- MODULE MCWrites -----------------------------
(***************************************************************************)
(* Four machines that share no state and keep two places in step, of which *)
(* either may be late, refuse or be gone: the aircon loop and its saved    *)
(* state, the registry file and the flow of enrolled devices, the          *)
(* schedules of a page and their table, and the clock and the stamps of    *)
(* the archive.  `machine` says which of them a behavior is of.            *)
(***************************************************************************)
EXTENDS Enrolment, Sequences, TLC

CONSTANTS Room, MinC, MaxC, StepC, Interval, Hold, MaxNow, MaxStrife

CONSTANTS Field, Arming, MaxFaults

CONSTANTS Behind, Ahead, MaxTime, MaxRows, MaxLives

VARIABLES machine

\* AirconLoop
VARIABLES now, unit, reading, saved, commands, unsent, mem, pending, recent, jobs, request,
  read, lastStep, told, behind, trouble
airconVars == <<now, unit, reading, saved, commands, unsent, mem, pending, recent, jobs, request,
  read, lastStep, told, behind, trouble>>

\* ScheduleStore
VARIABLES table, schedules, list, status, writes, busy, rowError, sent, faults, hasty, unheard
scheduleVars == <<table, schedules, list, status, writes, busy, rowError, sent, faults, hasty,
  unheard>>

\* ClockShift
VARIABLES time, off, report, rows, cursor, buffer, running, last, clockUnsyncedAtStart,
  clockMarkIds, ticking, measured, uploaded, lives, failures
clockVars == <<time, off, report, rows, cursor, buffer, running, last, clockUnsyncedAtStart,
  clockMarkIds, ticking, measured, uploaded, lives, failures>>

-----------------------------------------------------------------------------
A == INSTANCE AirconLoop WITH MaxTrouble <- MaxStrife
S == INSTANCE ScheduleStore WITH requests <- writes
C == INSTANCE ClockShift WITH now <- time, reading <- report, trouble <- failures, MaxNow <- MaxTime

\* The bounds are numbers, the aircon has a setpoint, a rule the field that arms it, and no
\* device is both fitted and enrollable.
AirBounds ==
  /\ MinC \in Int /\ MaxC \in Int /\ MinC <= MaxC /\ StepC \in Nat
  /\ Interval \in Nat /\ Hold \in Nat /\ MaxNow \in Nat
StoreBounds == MaxRequests \in Nat \ {0} /\ MaxFaults \in Nat /\ Arming \in Field
ClockBounds ==
  /\ Behind \in Int /\ Ahead \in Int
  /\ MaxTime \in Nat /\ MaxLives \in Nat /\ MaxTrouble \in Nat
ASSUME WritesAssumption ==
  AirBounds /\ StoreBounds /\ ClockBounds /\ Fitted \cap Enrollable = {}

\* The choices a machine begins with matter to its own behaviors only.
AnyInit ==
  /\ machine \in {"aircon", "enrolment", "schedules", "clock"}
  /\ A!Init /\ Init /\ S!Init /\ C!Init
  /\ machine # "enrolment" => heard = {1, 2} /\ \A d \in Fitted : flow[d] = 1
  /\ machine # "schedules" => \A r \in DOMAIN table : S!IsBlank(table[r])
  /\ machine # "clock" => off = Ahead /\ cursor = 0 /\ buffer = <<>>

AirconSteps == machine = "aircon" /\ A!Next
  /\ UNCHANGED <<machine, enrolment_vars, scheduleVars, clockVars>>
EnrolmentSteps == machine = "enrolment" /\ Next
  /\ UNCHANGED <<machine, airconVars, scheduleVars, clockVars>>
ScheduleSteps == machine = "schedules" /\ S!Next
  /\ UNCHANGED <<machine, airconVars, enrolment_vars, clockVars>>
ClockSteps == machine = "clock" /\ C!Next
  /\ UNCHANGED <<machine, airconVars, enrolment_vars, scheduleVars>>

AnyNext == AirconSteps \/ EnrolmentSteps \/ ScheduleSteps \/ ClockSteps

AnySpec == AnyInit /\ [][AnyNext]_<<machine, airconVars, enrolment_vars, scheduleVars, clockVars>>

-----------------------------------------------------------------------------
\* The properties of the modules, which state them in full; PolledOnce and Agree of
\* Enrolment are checked under their own names.

\* No setpoint, request, stamp or flag leaves its range.
EveryType == A!TypeOK /\ TypeOK /\ S!TypeOK /\ C!TypeOK

\* What the aircon loop remembers is what it saved or has still to save.
MemoryIsSaved == A!MemoryIsSaved
\* An alert reaches the phone once, unless memory was put back to before it was told.
ToldOnce == A!ToldOnce
\* A rule that goes on switching stays on the page.
NothingVanishes == S!NothingVanishes
\* What the page shows of a rule is stored.
ShownIsStored == S!ShownIsStored
\* A row bears the time it was, once the step of the clock has been measured.
StampsTrue == C!StampsTrue
\* The steps of the aircon loop stay an interval apart.
StepsSpaced == A!StepsSpaced
=============================================================================
