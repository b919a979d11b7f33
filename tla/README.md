# Verification of BEMS

TLA+ models of the programs BEMS runs on its edge (`src/server`) and of the two
browser stores that write (`src/src/stores`), the TLC configurations that check
them, and TLAPS proofs about them. The code is the reference: every
definition stands for the lines `PROJECT.json` gives it under `map`, and where a
comment, a document or a test says something else, a run shows the difference
(see *Disagreements*).

1. [The system](#1-the-system)
2. [The modules](#2-the-modules)
3. [The runs](#3-the-runs)
4. [Fairness](#4-fairness)
5. [What is proved](#5-what-is-proved)
6. [Disagreements between the code and what is said of it](#6-disagreements)
7. [What is not modelled](#7-what-is-not-modelled)
8. [Plan](#8-plan)

## 1. The system

A Raspberry Pi on site (the *edge*) reads meters and switches relays through a
Node-RED bridge; a PostgreSQL database (Supabase, the *cloud*) keeps history,
schedules and the audit trail; a browser shows readings and issues commands. The
edge must go on working with the link down for days, so most of its state is
about what it owes the cloud. Four processes run on the edge, each a JavaScript
event loop: **proxy**, **scheduler**, **ingest** and the bridge, and a timer runs
the **fleet recovery**. They share files, and nothing locks them.

| part | state it keeps | operations | talks to | what is hard | what makes it correct |
|---|---|---|---|---|---|
| command audit trail (`auditQueue`, `auditedDispatch`) | the proxy's in-flight file, an outage queue per writer, the rotated file a drain works on | record, dispatch, note the outcome, settle, recover; insert, patch; take, upload, restore, acknowledge | proxy and scheduler write, ingest drains, cloud stores | three processes on the same files, crashes and power cuts between any two file operations, answers lost after the row was stored | a relay that moved has a row somewhere; no row claims more than happened; the outcome is not lost; every row arrives |
| archive upload (`archiveUpload`, `archiveDb`) | per stream a cursor, rows set aside, the batch size; in memory the readings to send again | drain, isolate a refused row, set aside, advance, resend | ingest's tick, cloud | refusals of a row or of a whole table, bisecting, lost answers, restarts, marks placed while a batch is on its way | no cursor passes a row that is neither in the cloud nor set aside; a table that refuses costs no row; one bad row holds up nothing; a mark reaches the cloud |
| hot tier (`hotTier`, `archiveSeal`, `archiveJanitor`) | sealed days and their copies, hour totals, what was pruned | seal, copy, roll up, verify, prune | archive, object storage, cloud | ticks, uploads and marks between any two requests of a pass; counts compared instead of rows | nothing is pruned that is not in the copy of its day; old rows do go |
| reports (`reports`, `lateData`, `ingest.reportPass`) | which days were reported and when, the span of late rows | decide what is due, wait for the rows owed, generate, build again | archive, cloud | rows that arrive late, out of order, or around the archive | a day is reported once whole, and again when rows of it came late |
| held meters (`freezeWatch`, `estimateOutbox`) | holds under way, estimates pending and on record | watch, tell, estimate, flush | tick, notices, cloud | flags that flicker, an upsert under way while the next estimate is added, restarts | a hold ends once; its estimate reaches the cloud |
| clock (`clockWatch`, `shiftTimes`) | the last error seen, the first row of this life | notice a step, move the rows | tick, archive | rows already uploaded, imported or stamped on the other side of the step | a row bears the time it was |
| scheduler (`scheduler`, `schedulePlan`, `shedPlan`, `configSignal`) | configuration in memory and kept on the edge, last minute fired | read the configuration, fire schedules, shed load | cloud, proxy's signal, bridge, audit trail | reads that overtake each other, a loop longer than a minute, readings older than its own commands | a schedule fires once; what is saved arrives; a breach ends |
| aircon loop (`acuLoopPlan`, `scheduler.acuTick`) | the state of each rule, what of it is not saved yet | decide, command, alert, save, retry, take over what was read | cloud, bridge, notices | saving fails or is overtaken by a read of the older row, a person uses the remote | memory and row agree; steps keep their interval; an alert is told once |
| fleet alarm and recovery (`fleetAlarm`, `fleetRecover`) | outage told, devices ever seen; streaks and last restart in a file | observe, tell; check, restart Node-RED | bridge, notices, systemd | notices lost, restarts of either program, a file that cannot be written | told once per outage; restarts spaced; a stuck device recovers |
| enrolment, rebinding, removal | registry file, Node-RED flow, the registry each process imported | change both | bridge | a stop or a refusal between the two writes, two requests at once | what is listed is polled, by one node |
| proxy (`proxy`) | cached reads | serve, dispatch a command, enrol | browser, bridge, audit trail | its start-up recovery | in the audit trail and enrolment |
| browser command store (`commandStore`) | per control what is pending, a counter of slots, a queue | send, dispatch, answer, reconcile | proxy, live feed | answers and feed frames in any order, commands that replace each other while they queue | slots return; an entry speaks for the newest command; the last command is the last one sent |
| browser schedules (`scheduleStore`) | the list of rules, what is being written, errors per rule | load, add, change, delete | cloud | whole rows written from a copy, answers lost or reordered | a rule that switches is on the page; what is shown is stored; a change leaves other fields alone |
| session check, other stores, pages, statistics, tools, bridge, schema | | | | | not modelled, section 7 |

`PROJECT.json` lists all of them under `components` with what is modelled, and
under `hazards` what can go wrong at which line, with the property that would
show it.

Some hazards are part of another one in that list: isolating asks about rows
after a table began to refuse (`archiveUpload.mjs:213`), and does not look at
the time budget (`:194`); one refused reading makes each resend fail
(`ingest.mjs:484`); a command that queued for the 30 s of the leak guard is sent
after it was given up (`commandStore.ts:271`), and two commands of one socket
on the wire may be obeyed in either order (`:218`). A row the database refuses for
good at the head of an outage queue stops the rows behind it at every drain
(`ingest.mjs:294`); `Delivered` of `AuditTrail` is about behaviours without such rows,
and nothing in the repository promises otherwise.

## 2. The modules

| module | models |
|---|---|
| `AuditTrail`, `AuditTrailProofs` | the audit trail: proxy, scheduler, ingest, the files and the cloud's `commands` table |
| `Outbox` | the abstract promise of an upload queue: acknowledged in order, only over rows kept |
| `ArchiveUpload`, `ArchiveUploadProofs` | `drainArchive`, `isolate`, marking and resending frozen readings; implements `Outbox` |
| `HotTier`, `HotTierProofs` | sealing, copying and pruning, with what goes on beside a pass |
| `Scheduler`, `SchedulerProofs` | the loop: schedules, shedding, the configuration |
| `AirconLoop` | the aircon part of the loop and its saved state |
| `ReportGate` | day reports, the rows they wait for, the record of late rows |
| `HeldMeters` | the freeze watch and the outbox of estimates |
| `ClockShift` | re-timing the rows of a wrong clock |
| `FleetWatch` | the alarm and the recovery of a fleet |
| `Enrolment`, `EnrolmentProofs` | enrolling, removing and rebinding devices |
| `CommandStore`, `CommandStoreProofs` | the browser's `useCommandStore` |
| `ScheduleStore` | the browser's `useScheduleStore` and the controls that call it |
| `MCAuditTrail`, `MCArchiveUpload` | instances TLC checks |
| `MCDelivery`, `MCDaemons`, `MCWrites` | several machines that share no state, in one run |
| `MCDaemonsProofs` | proofs about `ReportGate`, `HeldMeters` and `FleetWatch`, and of the properties `MCDaemons` checks |
| `MCWritesProofs` | proofs about `AirconLoop`, `ScheduleStore` and `ClockShift`, and of the properties `MCWrites` checks |

The machines of `MCDelivery`, `MCDaemons` and `MCWrites` do not interact: each of
these modules extends one component, instantiates the others under names of its
own, and has a variable `machine` that says which of them a behaviour is of, so
that the states of a run are the sum of the states of its machines and not their
product. A property that needs fairness takes it as its hypothesis.

In every module an action is the code between two points where something else
can come in between: two awaits of an event loop, two file operations where other
processes share the file. Histories (`overwritten`, `slipped`, `hasty`, ...) are
marked as such where they are declared; no guard reads them.

### AuditTrail

A command has a `stage`, where its handler is. Every file operation and every
answer is a step of its own, because another process or a crash can come between
any two; what a handler does synchronously in between belongs to the step.

| code | actions |
|---|---|
| proxy `handleCommand`, `createInflight.record / note / settle` | `RecordOnEdge`, `RecordFails`, `Dispatch`, `NoteOnEdge`, `SettleAsk`, `SettleUploaded`, `SettleQueue`, `SettleForget` |
| `recoverInflight` at start-up | `RecoverOne`, `RecoverDone` |
| scheduler `insertAudit`, `auditedDispatch`, `updateAudit` | `Insert`, `InsertAnswered`, `InsertRefused`, `InsertBuffered`, `Dispatch`, `NoteRemote`, `PatchRead`, `PatchMissed`, `PatchTruncate`, `PatchWrite` |
| ingest `drainCommandAudit`, `takeBufferedCommands`, `restoreUndrained` | `Take`, `Send`, `SendFails`, `RestoreRead`, `RestoreTruncate`, `RestoreWrite`, `Acknowledge` |
| the world | `ProxyCrash`, `SchedulerCrash`, `IngestCrash`, `PowerCut` |

`queue`, `draining` and `inflight` are the files, `cloud` the table. A rename and
a write of a temporary file followed by a rename are atomic; an append is whole
or absent. A queue is rewritten *in place* (`writeBuffer` is a `writeFileSync`), in two
steps: `PatchTruncate` and `RestoreTruncate` empty the file, `PatchWrite` and
`RestoreWrite` put the rows back. In between the rows are only in the memory of the
process (`InHand`): it may stop, the other process may append, and ingest may rename the
file the scheduler is about to write, whose rows then land in the rotated file
(`patching.into`). `blank` says which files are there without a row, because a rotated
file without rows is never drained nor removed (`ingest.mjs:285`) and stands in front of
its queue from then on. `appendToBuffer` and `writeBuffer` do not flush, so `PowerCut`
may take any unflushed tail, while the in-flight file is flushed (`auditQueue.mjs:104`)
and keeps everything. The history variables `overwritten`, `torn` and `cutOff` note
commands whose last copy was dropped by a whole-file rewrite, went with one that did not
land, or was taken by a power cut.

### ArchiveUpload and Outbox

Rows are `<<stream, id>>`; the payload does not matter, only whether the database
refuses it (`RefusedRows`) or refuses the whole table (`refusing`). `phase` is
where `drainArchive` is: `all`/`allSent` for the one request over all streams,
`stream`/`sent` for one stream, `isolating` and `settingAside` after a refusal,
`resending` for `resendFlagged`. `isolate` is a recursion over halves of a batch;
here it is a stack: `ends` holds the ends of the segments still to ask about and
`asked` the last id answered for, which is the recursion's call stack without the
rows. Advancing several cursors (`Advance`) and recording several rows
(`SetAside`) take a step each, because each is a transaction of its own. The time
a request takes is not modelled: `BudgetSpent` may stop a drain before any batch,
`batch` may grow or stay after a drain without error, and a lost answer may have
been a timeout (which halves the batch) or not.

`Flag` is the synchronous part of `noteFreezes` (`flagFrozen` and
`resendIds.push`). It is not awaited by the tick, so it may come wherever the
drain waits for an answer.

`Outbox` has three variables besides the rows archived: how far each stream is
acknowledged, what the cloud holds, what was set aside. `ArchiveUpload!Implements`
maps `cursor`, `cloud` and `rejects` to them.

### HotTier

A row is a minute and carries its hour; time is counted in hours, the unit the
cloud rolls up. `pass` is the request the pass is waiting for.

| code | actions |
|---|---|
| `sealPass`, `sealDay` | `StartPass`, `CopySent`, `CopyFails` |
| `runVerifiedPrune`, `sealGate`, `backfillStream` | `ReadOldest`, `Manifest`, `Fill`, `Covered`, `Prune` |
| any request of a pass refused | `PassFails` |
| the ticks of ingest meanwhile | `Record`, `RecordDirect`, `Upload`, `SetAside`, `FlagFrozen`, `Restart` |

`Prune` is the database's `roll_up_and_prune_readings`, which adds up the hours
before it deletes their rows; its answer may be lost. `RecordDirect` is a tick whose
archive fails and whose row goes to the outage buffer; a `Restart` may leave any part of
that buffer, which is rewritten in place.

### Scheduler

| code | actions |
|---|---|
| `main`, signal handlers | `Start` (from the kept configuration), `Stop` |
| `loop`, `tick`, `fire` | `Cycle`, `Send`, `Sent` |
| `shedTick`, `planShed` | `Measure` |
| `refreshConfig`, `readConfigAgain`, `keepConfig` | `Ask`, `Snapshot`, `Answer`, `ReadFails` |
| proxy's `/api/config/changed` after a save | `Save` |
| the world | `MinutePasses`, `ClockSetBack`, `Poll` (the bridge reads the relays), `PersonSwitches` |

Versions of the configuration are numbered; `Snapshot` is the moment the database
reads it, `Answer` the moment the scheduler has it, and the interval and the signal
each may have one under way. `MinuteIsNew` is the comparison with the last minute fired,
and only with the last: the minutes `ClockSetBack` makes come by again, and one a
restart falls into, are noted in `reopened`.

### AirconLoop

`Tick` starts a pass; `jobs` is what is left of it, done one after the other:
`FireCommand` (a schedule's, or a step of the loop), the retry of an unsaved state
(`StartWrite`, `NothingToRetry`), `PlanSetpoint`, which decides on the reading and
puts down what follows from it, `TellPhone`, `SayReason`, and `StartWrite` and `Wrote`
for the state. `ReadingFails` ends a pass early.
`Snapshot` and `Apply` are a configuration read beside it (`applyAcuRules`), which
replaces what memory holds except what is still to be saved. `Restart`,
`TimePasses`, `Poll`, `Flush` and `SomebodyElse` are the world. The temperature is
a free choice of "hot", "cold" (and "right", "unread" where a run names them). `Stepped`
is a step of `StepC` degrees clamped to the range of the unit; no decision follows from
one that changes nothing. `behind` (history) is why the memory of an alert may be older
than what was told: a read overtaken by a write that then failed, a start from the kept
configuration, or a restart before the row was saved.

### ReportGate

`TickArchives` archives the row of a minute; `TickDirect` is a tick whose archive
fails, or of a life without one (`open`), and which sends its row itself or leaves it in
the buffer. `Send` is the drain of two streams, the readings and the totals, which a
refusing table (`Wedge`) holds one by one, and which may set rows aside; the third stream
behaves like the second. `NoteLate` is what `noteLate` writes after it, `StartPass` and
`Generate` the report pass with its gate, the least of what the streams owe
(`OwedSince`), or with none when there is no archive or it does not answer (`gated`).
`Restart` imports the buffer behind the newer rows, or what a crash in the middle of
rewriting the buffer left of it (`Leftovers`).

### HeldMeters

`StartsHolding`, `MovesAgain` and `FlagReturns` are the flags the bridge puts on
readings. `Tick` is `freezeWatch.observe` and starts a run of events; `Noticed` is
one step of `noteFreezes` over them, which is not awaited and waits for a notice
before each estimate. An estimate is tried once: `NoEstimate` is the one that finds too few
readings or throws (`ingest.mjs:419-436`), after which the hold is in `unestimated`.
`NothingToSend`, `NotSent`, `Flush` and `Flushed` are the outbox at the end of the tick;
`Restart` and `RestartBetween` cut anywhere, also between the two files of an estimate.

### ClockShift

| code | actions |
|---|---|
| `openArchiveOrFallBack` | `Start` (mark, then import of the buffer) |
| `noteClock`, `clockWatch.observe`, `shiftTimes` | `NoteClock` |
| `insertTick` | `Archive` |
| the drain | `Upload` |
| the world | `Stop` (with or without the power), `TimePasses`, `DeviceReports`, `Synchronise` |

`at` is the time a row really was, `ts` the stamp. `clockWatch` compares the wall
clock with the monotonic one, so `NoteClock` sees the change of the clock's error,
whatever time passed. `Shifted` moves what is above both the mark and the cursor;
a moved row that lands on one that stays makes the transaction fail (`Lands`).

### FleetWatch

`Tick` is the alarm, once a minute: `Observe` with an answer of the bridge,
`BridgeSilent` without; `IngestRestarts` loses what it knew. `Check` is
`fleet-recover.mjs` run by its timer: streaks, cooldown and boot grace decide on a
restart, which drops every session. `DeviceFails`, `DeviceReturns`, `NodeGivesUp` and
`Reboot` are the world. Ages are counted up to the limit that something waits for.

### Enrolment

Requests run side by side (`op`). `StartEnrol`, `StartRemove` and `StartRebind` are
the validations (a removal also reads the file it will rewrite), `ReadFlow` and `Plan` the
reading of the flow and the checks against it, `Post` the write of the flow, which
Node-RED takes only with the newest revision, `EndEnrol`, `EndRebind` and `EndRemove`
the answer and what follows. Enrolling writes the file before the flow, removing
after. `Restart` is a restart of the proxy, which imports the file; `RePair` gives a
device a new vendor id.

### CommandStore

Commands are numbered in the order `send` is called. Each action is the code
between two awaits: `Send` up to the request or the queue, `Superseded`/`Ask` a
call that resumes with a slot, `Acknowledged`/`Failed` the answer with its
`finally`, `Reconcile` one frame of the feed. `Settled` says that an event handler
starts only when the microtasks of the previous one have run. What a frame shows of
a relay is free: relays obey late or never and are switched by schedules and hands
too. There is no clock: whether a time limit has passed is free, except that
nobody queues for the 30 s of the leak guard.

### ScheduleStore

A rule is the request that inserted it, and each of its fields the number of the
request that set it, so that a lost change is visible. `Fetch`, `Loaded` and
`LoadFails` are `load` with its retry; `Create`, `Patch` and `Remove` what a person
does, with the controls' `disabled` as guards; `Store` is the database, `Fail` a
refusal or a lost answer, `Answer` and `AnswerFailed` what the store makes of it.

## 3. The runs

Every property of a passing run has a mutant: a definition replaced by the way a
plausible bug would change it, under which the property is violated. The mutants
stand next to the definition they replace.

| run | question | bounds |
|---|---|---|
| `audit_trail` | is the row of a command kept, honest, and with its outcome, whatever stops, also between the truncation and the write of a rewrite, and while the scheduler amends the queue ingest drains? | two commands that reach hardware, of a person and the scheduler or both of the scheduler, whose row may be refused; one process crash or one power cut, at any step |
| `commands_stranded` | violation, see below | a person's command and a power cut |
| `both_delivered` | does every row kept reach the cloud, of the commands and of the archive? | commands: one of each kind, one crash. Archive: two streams of three rows, the first refusing everything, a refused row in the second, one restart |
| `upload_drain` | does a cursor pass a row too early, is the drain an `Outbox`, is only a refused row set aside, is a mark owed until it is in the cloud? | two streams of three rows, a refused row in each, tables that start or stop refusing between drains, lost answers, one restart; two freezes, of one stream whose table takes rows (`FreezesAlone`) |
| `upload_wedged` | violation, see below | the smallest that shows it |
| `commands_page` | are slots exact and do they return, are entries honest, are replaced commands never sent? | two controls, two slots, four commands (so two can queue) |
| `commands_dropped` | violation, see below | one control, one slot, two commands |
| `hot_tier` | is what is pruned copied and held, do counts do for sets, does the window stay? | three rows in hours 0 to 5, recorded in hours 0 and 4, days of two hours, a window of three, grace of one; the first row refused; one fault, restart and freeze each; one day per pass |
| `daemons_edge` | scheduler: fired once, configuration arrives, breaches end; reports: whole, rebuilt, made; meters: ended and estimated; fleet: told, recovered, restarts spaced | scheduler: two relays, minutes 0 and 1, limit 0, two configurations, one failure, and one upset: a restart, a clock set back or a person. Reports: days of two minutes, grace of one, minutes to 3, two troubles, with and without an archive. Meters: two, cleared after two ticks, one hold, two troubles. Fleet: two devices, threshold 1, two minutes to enter and leave, reminder 3, cooldown 4, boot grace 2, three faults |
| `meters_slip` | violation, see below | two meters, one hold |
| `writes_pairs` | aircon: memory saved, told once, steps spaced; enrolment: listed is polled, by one node; schedules: on the page, and stored; clock: stamps true | aircon: 16 to 18 °C in steps of 2, hot or cold, minutes to 2, interval and hold of 1, two troubles. Enrolment: a fitted device and two to enrol, three vendor devices, two requests at once, four in all, one mishap. Schedules: three fields, four requests, one fault. Clock: behind by 2 or ahead by 1, time to 2, two rows besides the one kept, two lives, one failed re-timing |
| `schedules_clobbered` | violation, see below | three fields, two changes, no fault |

Why these bounds are enough.

* `AuditTrail`: rows interact only through the order of a file and through
  whole-file rewrites, for which two rows suffice (one that is being handled, one
  that is overtaken); a second crash begins from a state that recovery leaves,
  which is one of those a first crash reaches. A crash and a power cut are explored in
  different behaviours (`OneKindOfFault`): a power cut stops every process anyway. Two
  fired commands share a queue that is rewritten by both processes; with them there is no
  power cut (`MCInit`), and one row reaches the cloud (`OneInCloud`), because what a
  rewrite can lose is on the edge.
* `ArchiveUpload`: a batch of three is halved twice, so `isolate` meets a split of
  a split and a refused row alone, first, last and between accepted ones; with
  batches from 2 to 4 a stream takes one or several of them.
* `HotTier`: two days can be old enough at once, and one hour can hold a refused
  row, an owed one and one of the buffer, which is what the gates tell apart.
* `Scheduler`: two reads of the configuration may be under way, and an answer can be
  overtaken once; two rows of one minute meet on one relay; two tiers can be shed; two
  minutes are what a clock set back needs.
* `ReportGate`: a day that is settled beside one that is not, and a row that
  comes in after a newer one; two streams whose cursors part; one that is wedged beside
  one that goes on, and a row set aside. `HeldMeters`: two meters that resume in one tick are
  what the outbox is exposed to. `FleetWatch`: faults for a lost notice, a refused
  restart and an unwritten file in one behaviour; ages reach every limit.
* `AirconLoop`: a step up, one down, the ceiling and the floor, and, from 17 °C, where only
  a person puts the unit, a step that its range cuts short; a read, a failed write and a
  restart do not all fit in two troubles, but every pair of them does.
  `Enrolment`: two requests are what can overlap at an await; a third request
  begins from what two have left. `ScheduleStore`: one rule being changed twice
  beside one being added or deleted. `ClockShift`: a row before the step, one
  stamped before and archived after it, and one of the buffer.
* `CommandStore`: a queue of two has a head and a rest, and a control can have a
  request on the wire, a replaced call and a newest one in the queue.

Where a module is proved about (section 5) the safety properties named there hold
without the bounds.

`CHECK_DEADLOCK FALSE` stands where a behaviour really may end within the bounds:
all commands issued and settled, all rows recorded, the clock at its last value and
no fault left.

## 4. Fairness

* `AuditTrail`: handlers run to their end and ingest ticks every minute (weak
  fairness). `SF(Take)`: ingest takes turns over the two files, so each is taken
  although the other may always be ready. `SF(Send)`: the cloud may be away for as
  long and as often as it likes, but an upload tried again every minute is
  answered in the end. Crashes are bounded; new commands are never promised.
* `ArchiveUpload`: a drain starts every minute and its steps follow each other
  (weak fairness). Strong fairness of single answers would not be enough, since a
  drain needs many in a row: `FaultsEnd` says that lost answers, spent budgets,
  table changes and restarts have a last time. `Delivered` is about what remains
  stuck *after* that, which no outage excuses.
* `HotTier`: hours pass, a pass is made and its requests are answered, the drain
  takes its turn (weak fairness). Faults are bounded. `WindowKept` is about the rows
  of the cloud that the gates allow to go.
* `Scheduler`: the loop goes on, because every request in it has a time limit; the
  bridge polls the relays; the interval asks for the configuration and a read
  ends. The signal is not assumed to come.
* `ReportGate`: ticks, drains, notes, passes and minutes. A table may refuse as long as it
  likes, and a row of its stream then holds every report back, so that `Reported` is of
  behaviours in which no table is refusing from some time on: that the code cannot see to.
  `HeldMeters`: ticks,
  notices taken or given up, and a hold that ends. `FleetWatch`: the two timers.
* `CommandStore`: a microtask runs, and a request ends, because the browser
  abandons it after `COMMAND_TIMEOUT_MS`. Frames are not assumed to come.

`AirconLoop`, `Enrolment`, `ScheduleStore` and `ClockShift` state safety only and
assume no fairness.

## 5. What is proved

The proofs hold for every value of the constants that their named assumptions
allow. Those of `AuditTrail`, `ArchiveUpload`, `HotTier` and `CommandStore` are
`ASSUME`s of these modules, and `DaemonsAssumption` and `WritesAssumption` of
`MCDaemons` and `MCWrites`; TLC evaluates them in every run. `Counted`, `RowsOfTargets`
and `Apartness` are definitions that a theorem assumes. Every assumption says that a
bound is a number, that a set is finite or that two sets are apart, and nothing about
how the code behaves.

| module | theorems |
|---|---|
| `AuditTrailProofs` | `TypeCorrect`, `RecordKept`, `CopiesHonest`, `OutcomesKept` |
| `ArchiveUploadProofs` | `TypeCorrect`, `NoRowSkipped`, `DrainImplementsOutbox`; with tables that do not turn in the middle of a drain (`MidDrain = FALSE`) `RejectsRefused`, `MarksOwed` |
| `HotTierProofs` | `TypeCorrect`, `PrunedCopied`, `PrunedHeld`, `UncountedBuffered`, `CopyHolds` |
| `SchedulerProofs` | `FiresOnce`; `OlderOnlyOvertaken` (`Counted`: versions are numbers); `TypeCorrect` (and `RowsOfTargets`: rows are of relays) |
| `MCDaemonsProofs` | `StaleReportsRebuilt`, `ReportsMadeWhole` (a day has a length); `EstimatesKept`, `HoldsEndedForGood`; `SpacedRestarts`, `FleetTypeCorrect` (a finite fleet) |
| `MCWritesProofs` | `AirconMemorySaved`, `AlertsToldOnce`, `AirconStepsSpaced` (the aircon has a setpoint); `NoRuleVanishes`, `PageShowsStored` (the field that arms a rule is one of its fields); `RowsBearTheirTime`; `TypesCorrect` |
| `EnrolmentProofs` | `TypeCorrect`, `NotPolledTwice`, `PlacesAgree` (`Apartness`: no device is both fitted and enrollable) |
| `CommandStoreProofs` | `TypeCorrect`, `SlotsCounted`, `EntriesHonest`, `ReplacedNeverSent` |

The arguments:

**`AuditTrailProofs`.** "A relay that moved is held somewhere" is not inductive:
nothing in it says that what a step deletes is held elsewhere. `IInv` adds
`Consistent` (a handler in the middle of its work has its record in the in-flight
file, and while the proxy starts no handler runs) and `Custody` (what `SettleForget`
or recovery is about to delete from the in-flight file is in a queue or the cloud;
what a drain has passed is in the cloud; what it is about to delete with the rotated
file is in the cloud or back in the queue; a scheduled command is queued or in the
cloud before its relay is asked). A row that a rewrite has
truncated away is in the memory of the process (`InHand`), and what its crash, or a rename
under it, takes from there is `torn`. The main lemmas are `ElsewhereStays`,
`HandoverStep`, `MovedStep` and `DrainStep`. `HonestInv` says of every copy,
in every file, in what a process has read and in what it is about to write, that it
claims no more than happened; `SettledHeld` that the copy which carries the outcome
survives each handover.

**`ArchiveUploadProofs`.** `NothingSkipped` needs to know, when a cursor is about to
move, that the batch below its new place is accounted for: `BatchesRead` (after the
request over all streams was stored, what the cursors have still to pass is in the
cloud), `SegmentsOrdered` and `IsolationCovers` (the segments still to ask about
are in order and reach from the last answer to the end of the batch, and every row
answered for is in the cloud, set aside or among the failed: the loop invariant
of `isolate`), and `KeptOnly`, which `Outbox` requires. The refinement has one case
per action (`StepMaps`); `AcknowledgeMaps` is the case of a cursor that moves.
`Blame` (what has failed is refused for itself, or its table refuses everything, which
an accepted row rules out) carries `RejectsRefused`; `Marks` accounts for every marked
reading a cursor passes.

**`HotTierProofs`.** `IInv` is `TypeOK` with `SealsTrue` (a seal counts the rows of
its file, and a copy noted as sent has them all), `StepSafe` (what the gates found
for the step under way still holds, whatever was recorded, uploaded or marked since),
`PrunedSafe` and `RolledSafe`. A count determines a set because the rows of the file
are rows of the day. `PrunedHeld` has an invariant of its own, `HeldInv`: an hour
whose count is reached accounts for each of its rows.

**`MCDaemonsProofs` and `MCWritesProofs`.** A behaviour of a composition is one of the
`Spec` of every machine in it, because the steps of the others leave its variables alone
(`OfReports`, `OfMeters`, `OfFleet`; `OfAircon`, `OfSchedules`, `OfClock`, `OfEnrolment`).
What is proved of a machine's `Spec` is so proved of the composition, under the names the
runs check.

*Day reports.* `StaleIsRebuilt` speaks of the rows of the cloud that a report lacks; to
keep it one must know where a row comes from. `GateInv` adds `Accounted` (every minute
that was ticked has its row in the archive, the buffer or the cloud, or lost from the
buffer; no row of the future is in the first two and none is in both; and what the cursor
has passed is in the cloud or set aside) and `PassHolds` (a day that a pass with a gate is
still to build is settled, and what the cloud lacks of it is in the buffer, lost from it,
out of order or set aside), which also carries `MadeWhole`. That a stream may be wedged
costs nothing here: the gate is the least over the streams (`LeastOfTwo`). The least and
the greatest of finitely many rows, the span the late-data record keeps, are there by
well-founded induction (`LeastOf`, `GreatestOf`).

*Held meters.* In `EstimateKept`, what a flush has asked for is on record
(`RecordInv`). `AbsenceCounted` bounds the ticks `freezeWatch` counts without a flag by
the ticks since the flag was seen; the two counters are reset in different places, so
the wait is over for the one only when it is for the other.

*Fleet.* `FileTrue`: the file of the recovery knows of the last restart unless it could
not be written.

*Aircon loop.* A pass is a list of jobs, so `AirInv` says of every job what it will do
(`JobsOK`: a write carries what it says and an alert is written just before it is told;
a command or a reason is the last), and of every field of the memory where it is on its
way to the row: `InStep` takes what waits over the row, and the request under way over
both. `StepDue` and `ToldDue` say the same of the time of the last
step and of the alert told last, from which `StepsSpaced` and `ToldOnce` follow, both with
the exceptions `behind` names. `SteppedWithin`: a step stays in the range of the unit. `Planned`
is the lemma that a decision's jobs satisfy all of it.

*Schedules.* `Followed` accounts for every rule of the table while lists, inserts and
deletions are under way; `Unhurried` says that writes to a rule nobody hurried come one
at a time and agree with the table and with the list being read. `InsertedOnce` and
`DeletedGone` are what the order of requests leaves true of rules that come and go.

*Clock.* `ClockSeen` relates the error of the clock to what the last tick of this life
saw and to the report of the bridge; `StampsKept` says, row by row, which stamp a row may
have before the step is measured, so that moving the rows of this life sets them right.

**The others.** `FireInv` (what is due has not been sent in this minute, unless the minute
is one that was reopened) carries `FiresOnce`, and `ConfigInv` orders memory, reads under way and what is saved. In
`Enrolment` each plan agrees with the flow it read, so a flow that is still the newest
takes it without a second node for one device; `half` and `lost` follow the requests
that part the two places. In `CommandStore` the calls that hold a slot are counted by
`Cardinality`, and what was asked is the newest of its control.

The invariants of the machines of `MCDaemons` and `MCWrites` were tried on the instances
of their runs with TLC before they were proved. The types of `AuditTrail`, `ArchiveUpload`, `HotTier`, `Scheduler`,
`FleetWatch` and `CommandStore` are proved and not run again.

**Only model-checked.** Liveness under fairness is beyond the prover:
`CommandsDelivered`, `RowsDelivered`, `SlotsReturn`, `WindowKept`, `ConfigReaches`,
`BreachStops`, `Reported`, `HoldEstimated`, `StuckRecovered`, `OutageTold`. Every other
property of a passing run has a theorem. `OnlyRefusedSetAside` and `FlagOwed` have theirs
for tables that do not turn in the middle of a drain, as their runs do. The
violations of section 6 are refuted by TLC and have no theorem.

## 6. Disagreements

Each of these is a run that TLC ends with a counterexample; `PROJECT.json` quotes the
line that says otherwise.

1. **Two refused rows at the head of a queue wedge a stream** (`upload_wedged`,
   `Delivered`). Reaching the first row takes exactly as many refusals as the
   limit allows, so one more blames the table.
2. **The operator's last command is dropped** (`commands_dropped`, `LastWordSent`).
   The feed still shows the state asked for, the entry is deleted, and the queued
   command is taken for superseded.
3. **An estimate is emptied unsent** (`meters_slip`, `RowsWait`). Two meters resume
   in one tick, and the second estimate is added while the first is being sent.
4. **An empty rotated file stops the drain of a queue for good** (`commands_stranded`,
   `QueueDrained`). A power cut, or a crash in the middle of a rewrite, leaves a queue file
   without rows; ingest renames it aside, finds nothing in it, neither drains nor removes
   it, and does not rename the queue again while it is there.
5. **A change of a rule undoes the one before it** (`schedules_clobbered`,
   `OthersKept`). The whole row is built from a rule that does not have the first
   change yet.

Met on the way, without a run of their own. The properties of the passing runs name
them as exceptions where they matter.

* *Audit trail.* `restoreUndrained` reads the live queue and writes it whole
  (`auditQueue.mjs:248`), so that a row appended in between is gone, although the
  queues were split for that (`:22-26`). A settled row is appended to the queue
  without a flush and then removed from the flushed file (`:199`, against `:104` and
  `:156`), so that a power cut can take it. Queues are rewritten
  in place, truncated and then written. One file per writer is said to remove the race of
  the partial file "outright" (`scheduler.mjs:447-451`), but ingest reads, renames and
  rewrites each of them as well, and a crash between truncation and write takes every row
  of the queue. These are the three
  exceptions of `ForgottenOnlyByOverwrite` and `OutcomeKept`. A row amended while ingest
  renames the file lands in the rotated file, which ingest may have read before, and is
  removed with it. `proxy.mjs:943-945` says that a command whose row the
  database refuses fails at the audit insert; since the proxy records on the edge
  first, the relay moves and the row then waits at the head of the outage queue.
* *Archive upload.* A reading marked while its batch is on its way is above the
  cursor (`archiveDb.mjs:394`), is not sent again and lands unmarked, against
  `ingest.mjs:477`. `resendFlagged` puts all its readings back whatever the error
  was; one that had been set aside makes every later request fail.
* *Hot tier.* A sealed day is compared by its count only (`archiveSeal.mjs:172`,
  `:216`, against `:13-14`): a mark placed afterwards changes the content, and the
  copy off the edge keeps the unmarked one.
* *Reports.* `owedSince` takes the first owed row by id for the oldest by time
  (`archiveDb.mjs:357-367`), which rows imported from the buffer break: the exception
  `OutOfOrder` of `MadeWhole`. "Every row older than this is up" (`archiveDb.mjs:361-364`)
  does not hold of rows set aside either, which the cursor passes, and while one stream is
  wedged it holds every report back. Without an archive, or without its answer, there is no
  gate (`ingest.mjs:871`).
* *Clock.* Rows of the outage buffer are imported after the mark and moved with the
  rows of this life (`ingest.mjs:564`, against "where this process's rows begin",
  `archiveDb.mjs:430`). A row archived between the step and the next tick's
  measurement is moved though it was right; the late report of a quiet device is
  archived again with its old stamp after the rows were moved; rows the cloud had
  keep their stamps, and a re-timing that failed is not tried again.
* *Held meters.* An estimate that throws, or finds too few readings yet, is logged and not
  made again (`ingest.mjs:434-436`), so that a hold that was told may stay without one.
* *Scheduler.* A clock set back fires its minutes again, and so does a restart, though the last
  minute is kept as a guard "against firing the same minute twice if a tick runs long or
  the clock jitters" (`scheduler.mjs:127`, the comparison at `:592-594`): `reopened`. A pass longer than a minute misses the schedules of that minute
  (`scheduler.mjs:610`, `:797`). A step of the aircon is stamped though the unit did
  not take it, and a unit switched off between the reading and the command is
  switched on (`scheduler.mjs:733`, `acuLoopPlan.mjs:22`).
* *Enrolment.* Enrolling again what failed halfway lists the device twice
  (`enrollService.mjs:99-100`).
* *Fleet.* A "recovered" notice that is lost is never repeated. The `catch` at
  `fleet-recover.mjs:129` is reached when the state cannot be written as well, after
  Node-RED was restarted.
* *Schedules.* After an answer that was lost the row does not "snap back to what
  the database actually holds" (`scheduleStore.ts:139`): it stays as it was before
  the write, beside an error. A list read before a write and answered after it
  replaces what the write's answer had put on the page.

## 7. What is not modelled

* `sessionCheck`, `jwksCache`, `jwtVerify`: cryptography and access control are
  outside the purpose of these models.
* The pages, and the stores that mirror server state. Of those that write,
  `deviceConfigStore` is the next in the plan; read beside `ScheduleStore` it shows
  the same kind of hazards (a whole row written before the first read; an answer
  that drops what was edited meanwhile, `deviceConfigStore.ts:220-222`; an early
  return for what equals the last answer while another write is under way, `:205`).
* In modelled parts: what a report says and its notice; weeks and months, which
  differ in length and grace; retention; schedule exceptions, several shed profiles,
  quiet hours, several aircon rules; the order and the duplicates of registry
  entries; the seals that a re-timing forgets; how much a held meter counted; the
  health row and the hardware watchdog; `dismiss` of the command store.
* In the scheduler, the reading of the configuration table by table, each settled on its
  own, from a database that does not have `scheduler_snapshot` yet (`scheduler.mjs:215-223`).
* A line cut off in the middle, and what `JSON.parse` makes of it: a file torn by a rewrite
  has none of its rows, or all. The registry file that enrolment writes in place
  (`ENROLLED_PATH`) is written or not written.
* Row contents, sizes and the time a request takes, except as named choices. In
  particular a drain's time budget is a free choice, so nothing is promised to
  streams that a refusing one starves.
* A table that starts to refuse in the middle of `isolate` gets rows blamed for
  it; `OnlyRefusedSetAside` is checked and proved with tables that change between
  drains. `NothingSkipped` is proved either way.
* Statistics in floating point, operating-system commands, backup and restore
  tools run by hand, the generators of the Node-RED flow, and the database, which is
  modelled as its callers use it.

## 8. Plan

1. Proofs: the types of `ReportGate` and `HeldMeters` as theorems of their own (the parts
   the proofs need are in `GateTypes` and `AbsenceCounted`); a promise of the report gate
   stated apart from the machine, as `Outbox` is of the upload, and its refinement.
2. `deviceConfigStore`: drafts, saving as a whole, placements applied one after the
   other.
3. A composition of ingest's tick with `ArchiveUpload` and `HotTier` over one archive:
   what each leaves to the other is stated as assumptions now (`RecordDirect`,
   `Upload`).
4. Schedule exceptions and several profiles in `Scheduler`; several rules in
   `AirconLoop`.
5. The pure rules of `src/shared` (`scheduleRules`, `channelDemux`, `channelSwap`)
   against reference definitions.
