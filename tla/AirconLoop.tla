----------------------------- MODULE AirconLoop -----------------------------
(***************************************************************************)
(* The closed aircon loop of the scheduler (acuTick in scheduler.mjs, the  *)
(* decision in acuLoopPlan.mjs): one rule, one unit.  What the loop        *)
(* decides is held in memory at once and saved in the database, where a    *)
(* write may fail and wait; the configuration is read beside it, and its   *)
(* answer replaces what memory holds.                                      *)
(***************************************************************************)
EXTENDS Integers, Sequences

CONSTANTS
  Room,         \* how the room may be: "hot", "cold", "right", or "unread"
  MinC, MaxC,   \* the setpoints a unit takes
  StepC,        \* step_c
  Interval,     \* min_step_interval_s
  Hold,         \* manual_hold_s
  MaxNow,       \* bound: time
  MaxTrouble    \* bound: failed requests, restarts, reads of the configuration, and
                \* schedules, people or the remote at work, together

None == -1
NoC == MinC - 1                 \* no setpoint
Setpoint == MinC..MaxC

VARIABLES
  now,
  unit,         \* the aircon: [on, c]
  reading,      \* ... as the bridge last saw it
  saved,        \* row of acu_loop_state: [row, c, at, dir, alert]
  commands,     \* newest command in the database: [source, at]
  unsent,       \* newest command still in the buffer
  mem,          \* acuState: [c, at, dir, alert, writable]
  pending,      \* acuPending: [open, patch]
  recent,       \* acuRecentCommands
  jobs,         \* what is left of this pass of the loop
  request,      \* the write under way: [open, patch]
  read,         \* the answer of a read under way: [open, row, newest]
  lastStep,     \* when the loop last commanded the unit (history)
  told,         \* alert the phone was told of (history)
  behind,       \* why memory may not know: "read", "crash" (history)
  trouble

building == <<now, unit, reading>>
cloud == <<saved, commands, unsent>>
memory == <<mem, pending, recent>>
history == <<lastStep, told, behind>>
aircon_vars == <<building, cloud, memory, jobs, request, read, history, trouble>>

Nothing == [x \in {} |-> 0]
NoRow == [row |-> FALSE, c |-> NoC, at |-> None, dir |-> "none", alert |-> "none"]
NoCommand == [source |-> "nobody", at |-> None]
NoPatch == [open |-> FALSE, patch |-> Nothing]
NoRead == [open |-> FALSE, row |-> NoRow, newest |-> NoCommand]

Trouble == trouble < MaxTrouble /\ trouble' = trouble + 1
Newer(a, b) == IF a.at > b.at THEN a ELSE b

-----------------------------------------------------------------------------
(***************************************************************************)
(* The decision.                                                           *)
(***************************************************************************)
Idle(reason) == [reason |-> reason, alert |-> "none", to |-> NoC, dir |-> "none"]
Alerted(reason, alert) == [Idle(reason) EXCEPT !.alert = alert]

\* Mutant: the limiter looks only at a step whose direction it knows.
SinceDirected == IF mem.at = None \/ mem.dir = "none" THEN 2 * Interval ELSE now - mem.at
SinceStep == IF mem.at = None THEN 2 * Interval ELSE now - mem.at

AtHardware(dir) == IF dir = "down" THEN "at_hardware_floor" ELSE "at_hardware_ceiling"
AtLimit(base, dir) == IF dir = "down" THEN base <= MinC ELSE base >= MaxC

\* Mutant: the last step below a limit goes over it.
Unclamped(base, dir) == IF dir = "down" THEN base - StepC ELSE base + StepC
\* A step, up to the limit of the unit.
Stepped(base, dir) ==
  IF dir = "down" THEN IF base - StepC < MinC THEN MinC ELSE base - StepC
  ELSE IF base + StepC > MaxC THEN MaxC ELSE base + StepC

\* decide: the branches are ordered, the first that matches wins.
Decide(room) ==
  LET base  == IF mem.c # NoC THEN mem.c ELSE reading.c
      dir   == IF room = "hot" THEN "down" ELSE "up"
  IN IF ~reading.on THEN Idle("acu_off")
     ELSE IF room = "unread" THEN Alerted("sensor_unavailable", "sensor_unavailable")
     ELSE IF mem.c # NoC /\ reading.c # mem.c THEN Idle("setpoint_changed_externally")
     ELSE IF recent.source \notin {"nobody", "acu_loop"} /\ now - recent.at < Hold
       THEN Idle("manual_override_recent")
     ELSE IF ~mem.writable THEN Idle("state_unwritable")
     ELSE IF room = "right" THEN Idle("at_target")
     ELSE IF AtLimit(base, dir)
       THEN Alerted(AtHardware(dir), IF dir = "down" THEN "floor_reached" ELSE "ceiling_reached")
     ELSE IF SinceStep < Interval THEN Idle("rate_limited")
     ELSE IF mem.dir \notin {"none", dir} /\ SinceStep < 2 * Interval THEN Idle("reverse_suppressed")
     ELSE IF Stepped(base, dir) = base THEN Idle(AtHardware(dir))
     ELSE [Idle("step") EXCEPT !.to = Stepped(base, dir), !.dir = dir]

-----------------------------------------------------------------------------
(***************************************************************************)
(* A pass of the loop: jobs done one after another, each waiting for its   *)
(* answer.                                                                 *)
(***************************************************************************)
Write(patch) == [kind |-> "write", patch |-> patch]
Fire(source, to, dir, at) == [kind |-> "fire", source |-> source, to |-> to, dir |-> dir, at |-> at]
Tell(alert) == [kind |-> "tell", alert |-> alert]
Reason == [kind |-> "reason"]
Retry == [kind |-> "retry"]
Plan == [kind |-> "plan"]

Job(kind) == jobs # <<>> /\ ~request.open /\ Head(jobs).kind = kind

\* A pass starts; a schedule may be due in it.
Tick ==
  /\ jobs = <<>> /\ ~request.open
  /\ \/ jobs' = <<Retry, Plan>> /\ UNCHANGED trouble
     \/ /\ Trouble
        /\ \E to \in {NoC, MaxC} : jobs' = <<Fire("schedule", to, "none", now), Retry, Plan>>
  /\ UNCHANGED <<building, cloud, memory, request, read, history>>

AlertJobs(alert) ==
  IF alert = mem.alert THEN <<>> ELSE <<Write([alert |-> alert]), Tell(alert)>>

\* acuTick between the reading and the first answer it waits for.
PlanSetpoint(room) ==
  LET d == Decide(room) IN
  /\ Job("plan")
  /\ jobs' = (IF d.reason = "setpoint_changed_externally"
              THEN <<Write([c |-> reading.c, at |-> now, dir |-> "none"])>> ELSE <<>>)
             \o (IF d.reason = "state_unwritable" THEN <<>> ELSE AlertJobs(d.alert))
             \o (IF d.to # NoC THEN <<Fire("acu_loop", d.to, d.dir, now)>> ELSE <<Reason>>)
  /\ UNCHANGED <<building, cloud, memory, request, read, history, trouble>>

\* The bridge does not answer: no pass this time.
ReadingFails ==
  /\ Job("plan") /\ Trouble /\ jobs' = <<>>
  /\ UNCHANGED <<building, cloud, memory, request, read, history>>

\* fire: the command is recorded in the database or in the buffer, then sent. It is
\* not sent when it cannot be recorded, and it counts as a step however the unit took it.
FireCommand ==
  LET job == Head(jobs)
      cmd == [source |-> job.source, at |-> now]
  IN
  /\ Job("fire")
  /\ \/ /\ \/ unit' = [on |-> job.to # NoC, c |-> IF job.to # NoC THEN job.to ELSE unit.c]
              /\ commands' = cmd /\ UNCHANGED <<unsent, trouble>>
           \/ unit' = [on |-> job.to # NoC, c |-> IF job.to # NoC THEN job.to ELSE unit.c]
              /\ unsent' = cmd /\ Trouble /\ UNCHANGED commands
           \/ UNCHANGED <<unit, unsent>> /\ commands' = cmd /\ Trouble
        /\ recent' = cmd
        /\ IF job.source = "acu_loop"
           THEN /\ jobs' = <<Write([c |-> job.to, at |-> job.at, dir |-> job.dir])>> \o Tail(jobs)
                /\ lastStep' = job.at
           ELSE jobs' = Tail(jobs) /\ UNCHANGED lastStep
     \/ Trouble /\ jobs' = Tail(jobs) /\ UNCHANGED <<unit, commands, unsent, recent, lastStep>>
  /\ UNCHANGED <<now, reading, saved, mem, pending, request, read, told, behind>>

\* The phone is told of an alert that was raised.
TellPhone ==
  /\ Job("tell") /\ told' = Head(jobs).alert /\ jobs' = Tail(jobs)
  /\ UNCHANGED <<building, cloud, memory, request, read, lastStep, behind, trouble>>

\* Why the rule is idle is saved when it is not what was saved last; which reason it
\* is decides nothing else.
SayReason ==
  /\ Job("reason") /\ jobs' \in {Tail(jobs), <<Write(Nothing)>> \o Tail(jobs)}
  /\ UNCHANGED <<building, cloud, memory, request, read, history, trouble>>

-----------------------------------------------------------------------------
(***************************************************************************)
(* Saving what the loop decided: writeAcuState.                            *)
(***************************************************************************)
Patched(row, patch) == [f \in DOMAIN row |-> IF f \in DOMAIN patch THEN patch[f] ELSE row[f]]
Save(patch) == [Patched(saved, patch) EXCEPT !.row = TRUE]

\* Mutant: memory takes up a decision only when the database has it.
TakenUpLater(patch) == mem
\* Memory takes up the decision at once.
TakenUp(patch) == Patched(mem, patch)

\* { ...pending.patch, ...patch }: a write joins the one that waits.
Joined(patch, waiting) ==
  [f \in DOMAIN patch \cup DOMAIN waiting |-> IF f \in DOMAIN patch THEN patch[f] ELSE waiting[f]]

\* What waits goes out when its time to be tried again has come.
StartWrite(due) ==
  LET patch == IF Job("write") THEN Head(jobs).patch ELSE Nothing
      merged == Joined(patch, pending.patch)
  IN
  /\ Job("write") \/ (Job("retry") /\ pending.open /\ due)
  /\ ~pending.open => due
  /\ IF due
     THEN request' = [open |-> TRUE, patch |-> merged] /\ mem' = TakenUp(patch) /\ UNCHANGED pending
     ELSE /\ pending' = [open |-> TRUE, patch |-> merged] /\ mem' = [TakenUp(patch) EXCEPT !.writable = FALSE]
          /\ UNCHANGED request
  /\ jobs' = Tail(jobs)
  /\ UNCHANGED <<building, cloud, recent, read, history, trouble>>

NothingToRetry ==
  /\ Job("retry") /\ jobs' = Tail(jobs)
  /\ UNCHANGED <<building, cloud, memory, request, read, history, trouble>>

\* The answer, or none in 8 s: the row may be there all the same.
Wrote ==
  /\ request.open /\ request' = NoPatch
  /\ \/ /\ saved' = Save(request.patch) /\ pending' = NoPatch
        /\ mem' = [mem EXCEPT !.writable = TRUE] /\ UNCHANGED trouble
     \/ /\ saved' \in {saved, Save(request.patch)} /\ Trouble
        /\ pending' = [open |-> TRUE, patch |-> request.patch]
        /\ mem' = [mem EXCEPT !.writable = FALSE]
  /\ UNCHANGED <<building, commands, unsent, recent, jobs, read, history>>

-----------------------------------------------------------------------------
(***************************************************************************)
(* Reading the configuration, and starting from it.                        *)
(***************************************************************************)
\* scheduler_snapshot: one statement in the database, asked by a timer or the signal.
\* A read that fails changes nothing.
Snapshot ==
  /\ ~read.open /\ Trouble
  /\ read' = [open |-> TRUE, row |-> saved, newest |-> commands]
  /\ UNCHANGED <<building, cloud, memory, jobs, request, history>>

\* Mutant: what waits to be saved is not newer than the row.
RebuiltFromRow(row) == [Patched(mem, row) EXCEPT !.writable = mem.writable]
\* applyAcuRules: the row, under what waits to be saved; without a row memory stays.
Rebuilt(row) == IF row.row THEN Patched(Patched(mem, row), pending.patch) ELSE mem

\* Memory may miss a decision only when a write was answered or sent meanwhile.
Overtaken == read.row # saved \/ request.open

Apply ==
  /\ read.open /\ read' = NoRead
  /\ mem' = Rebuilt(read.row) /\ recent' = read.newest
  /\ behind' = IF Overtaken THEN behind \cup {"read"}
               ELSE IF jobs = <<>> THEN behind \ {"read"} ELSE behind
  /\ UNCHANGED <<building, cloud, pending, jobs, request, lastStep, told, trouble>>

\* A rule without a row starts from now, so that a start is not a reason to step.
Fresh(at) == [c |-> NoC, at |-> at, dir |-> "none", alert |-> "none", writable |-> TRUE]

Unsaved == pending.open \/ request.open \/ \E i \in DOMAIN jobs : jobs[i].kind \in {"write", "tell"}

\* Stopped and started again: from the database, or from the configuration kept on
\* the edge, which has no state.
Restart ==
  /\ Trouble
  /\ jobs' = <<>> /\ request' = NoPatch /\ pending' = NoPatch /\ read' = NoRead
  /\ \/ /\ mem' = IF saved.row THEN Patched(Fresh(now), saved) ELSE Fresh(now)
        /\ recent' = commands
        /\ behind' = (behind \ {"read"}) \cup (IF Unsaved THEN {"crash"} ELSE {})
     \/ /\ mem' = Fresh(now) /\ recent' = NoCommand
        /\ behind' = behind \cup {"read"} \cup (IF Unsaved THEN {"crash"} ELSE {})
  /\ UNCHANGED <<building, cloud, lastStep, told>>

-----------------------------------------------------------------------------
(***************************************************************************)
(* The building and the cloud.                                             *)
(***************************************************************************)
\* In minutes: a pass of the loop takes seconds.
TimePasses ==
  /\ jobs = <<>> /\ ~request.open /\ now < MaxNow /\ now' = now + 1
  /\ UNCHANGED <<unit, reading, cloud, memory, jobs, request, read, history, trouble>>

\* The bridge's reading may be behind the unit, or fresh.
Poll ==
  /\ Job("plan") /\ reading # unit /\ reading' = unit
  /\ UNCHANGED <<now, unit, cloud, memory, jobs, request, read, history, trouble>>

\* The scheduler's buffered commands reach the database.
Flush ==
  /\ jobs = <<>> /\ unsent # NoCommand /\ commands' = Newer(commands, unsent) /\ unsent' = NoCommand
  /\ UNCHANGED <<building, saved, memory, jobs, request, read, history, trouble>>

\* A person commands the unit from the app, or uses its remote, which leaves no record:
\* before a pass, or between its decision and its command.
SomebodyElse ==
  /\ jobs = <<>> \/ Job("fire")
  /\ Trouble
  /\ \/ unit' = [unit EXCEPT !.on = ~unit.on]
     \/ \E c \in Setpoint \ {unit.c} : unit.on /\ unit' = [unit EXCEPT !.c = c]
  /\ commands' \in {commands, [source |-> "app", at |-> now]}
  /\ UNCHANGED <<now, reading, saved, unsent, memory, jobs, request, read, history>>

-----------------------------------------------------------------------------
Init ==
  /\ now = 0 /\ unit = [on |-> TRUE, c |-> MaxC] /\ reading = unit
  /\ saved = NoRow /\ commands = NoCommand /\ unsent = NoCommand
  /\ mem = Fresh(0) /\ pending = NoPatch /\ recent = NoCommand
  /\ jobs = <<>> /\ request = NoPatch /\ read = NoRead
  /\ lastStep = None /\ told = "none" /\ behind = {}
  /\ trouble = 0

\* What the loop does once its requests are answered.
LoopStep == (\E room \in Room : PlanSetpoint(room)) \/ FireCommand \/ TellPhone \/ SayReason \/ Wrote

Next ==
  \/ Tick \/ LoopStep \/ ReadingFails \/ (\E due \in BOOLEAN : StartWrite(due)) \/ NothingToRetry
  \/ Snapshot \/ Apply \/ Restart
  \/ TimePasses \/ Poll \/ Flush \/ SomebodyElse

Spec == Init /\ [][Next]_aircon_vars

-----------------------------------------------------------------------------
TypeOK ==
  /\ now \in 0..MaxNow /\ unit.on \in BOOLEAN /\ unit.c \in Setpoint /\ reading.c \in Setpoint
  /\ saved.c \in Setpoint \cup {NoC} /\ saved.at \in None..now
  /\ mem.c \in Setpoint \cup {NoC} /\ mem.at \in None..now /\ mem.writable \in BOOLEAN
  /\ commands.at \in None..now /\ unsent.at \in None..now /\ recent.at \in None..now
  /\ behind \subseteq {"read", "crash"}

Agrees(m, row) ==
  /\ m.c = row.c /\ m.dir = row.dir /\ m.alert = row.alert
  /\ m.at = row.at \/ row.at = None

\* Memory is the row the database has, under what is still to be saved, unless an
\* answer that a write had overtaken took its place: a failed or repeated write, a
\* restart or a read on its own never makes the two part.
MemoryIsSaved ==
  "read" \notin behind /\ saved.row => Agrees(mem, Patched(saved, Joined(request.patch, pending.patch)))

\* The steps of the loop stay an interval apart, across failed writes and restarts,
\* unless a crash lost a step before it was saved or an overtaken answer replaced it.
StepsSpaced ==
  [][(\E i \in DOMAIN jobs' : jobs'[i].kind = "fire" /\ jobs'[i].source = "acu_loop" /\ Job("plan"))
       /\ behind = {} /\ lastStep # None => now - lastStep >= Interval]_aircon_vars

\* The phone is told of an alert once: not again while the row cannot be saved, and not
\* again after a restart that found it saved. It may be told again when memory was put
\* back: by an answer that a write had overtaken, by a start from the kept configuration,
\* which has no state, or by a restart before what was told had been saved.
ToldOnce ==
  behind = {} =>
    /\ Job("tell") => Head(jobs).alert # told
    /\ jobs = <<>> => told = mem.alert
=============================================================================
