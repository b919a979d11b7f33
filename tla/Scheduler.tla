----------------------------- MODULE Scheduler -----------------------------
(***************************************************************************)
(* The scheduler daemon (scheduler.mjs): one loop that fires the schedules *)
(* of the minute and sheds load over a limit, and beside it the reading of *)
(* the configuration, which a timer and the edge's signal both start.      *)
(* Dispatches and reads take as long as they take: everything else goes on *)
(* between their request and their answer.                                 *)
(*                                                                         *)
(* A target is a relay; a row of an outlet without a socket stands for all *)
(* of its targets.  The aircon loop is in AirconLoop.  The database has    *)
(* scheduler_snapshot: the reading of table by table that goes on until it *)
(* has, each table settled on its own, is left out.                        *)
(***************************************************************************)
EXTENDS Integers, FiniteSets

CONSTANTS
  Target,       \* relays, as numbers: commands are sorted by them
  Config,       \* the configurations saved one after another, from version 0:
                \* [rows |-> ..., tier |-> ..., auto |-> ...]
  MaxMinute,    \* bound: minutes
  Limit,        \* relays that may be on at once: the load limit
  MaxFailures,  \* bound: failed reads, dispatches and writes of the kept file
  MaxUpsets     \* bound: restarts, clocks set back and relays switched on by a person

Version == DOMAIN Config
None == -1                        \* no configuration
Timer == {"interval", "signal"}   \* what starts a read
Minute == 0..MaxMinute

VARIABLES
  minute,       \* the wall clock
  relay,        \* targets that are on
  seen,         \* ... as the bridge reports them
  saved,        \* version in the database
  told,         \* the signal is newer than the last read's start
  mem,          \* version in memory
  kept,         \* version kept on the edge
  read,         \* reads under way: Asked, then the version the database answers
  late,         \* reads that another one has overtaken
  stage,        \* where the loop is
  due,          \* commands still to be sent: target -> action
  lastFired,    \* minute whose schedules were taken last
  fired,        \* <<target, minute>>: commanded by the schedules of that minute (history)
  again,        \* ... more than once (history)
  reopened,     \* minutes the clock came by again, or the process was restarted in (history)
  failures, upsets

clockVars == <<minute, reopened, relay, seen>>
configVars == <<saved, told, mem, kept, read, late>>
loopVars == <<stage, due, lastFired, fired, again>>
scheduler_vars == <<clockVars, configVars, loopVars, failures, upsets>>

Empty == [rows |-> {}, tier |-> [t \in Target |-> 0], auto |-> FALSE]
Running == IF mem = None THEN Empty ELSE Config[mem]
NoCommand == [t \in {} |-> "off"]
NoRead == -2
Asked == -3

Init ==
  /\ minute = 0 /\ reopened = {} /\ relay = {} /\ seen = {}
  /\ saved = 0 /\ told = FALSE /\ mem = None /\ kept = None
  /\ read = [t \in Timer |-> NoRead] /\ late = {}
  /\ stage = "starting" /\ due = NoCommand /\ lastFired = None /\ fired = {} /\ again = {}
  /\ failures = 0 /\ upsets = 0

Failure == failures < MaxFailures /\ failures' = failures + 1
Upset == upsets < MaxUpsets /\ upsets' = upsets + 1

-----------------------------------------------------------------------------
(***************************************************************************)
(* Which commands are due, and which load to shed.                         *)
(***************************************************************************)
\* resolveDue: match, fan out, collapse; off wins in a row and across rows.
ResolveDue(rows, m) ==
  [t \in UNION {r.targets : r \in {r \in rows : m \in {r.on, r.off}}} |->
     IF \E r \in rows : t \in r.targets /\ r.off = m THEN "off" ELSE "on"]

\* Mutant: only the first tier is looked at.
ShedFirstTier(config, on) == {t \in on : config.tier[t] = 1}

\* planShed: the first tier that has anything on. Targets without a tier are left alone.
PlanShed(config, on) ==
  {t \in on : config.tier[t] > 0 /\ \A u \in on : config.tier[u] > 0 => config.tier[t] <= config.tier[u]}

Breached(on) == Cardinality(on) > Limit

-----------------------------------------------------------------------------
(***************************************************************************)
(* The configuration.                                                      *)
(***************************************************************************)
\* Saved in the database; the signal that follows may be lost, or the change was
\* made in the SQL editor.
Save ==
  /\ saved + 1 \in Version /\ saved' = saved + 1
  /\ told' \in {TRUE, told}
  /\ UNCHANGED <<clockVars, mem, kept, read, late, loopVars, failures, upsets>>

\* The timer reads whether or not it was told. The signal starts a read of its own
\* once the previous one, given up after 8 s, is over: SIGNAL_GAP_MS is 10 s.
MayAsk(t) == read[t] = NoRead /\ (t = "signal" => told /\ read["interval"] = NoRead)

Ask(t) ==
  /\ stage # "starting" /\ MayAsk(t)
  /\ read' = [read EXCEPT ![t] = Asked] /\ told' = FALSE
  /\ UNCHANGED <<clockVars, saved, mem, kept, late, loopVars, failures, upsets>>

\* scheduler_snapshot: one statement in the database.
Snapshot(t) ==
  /\ read[t] = Asked /\ read' = [read EXCEPT ![t] = saved]
  /\ UNCHANGED <<clockVars, saved, told, mem, kept, late, loopVars, failures, upsets>>

\* Mutant: the file is written only when memory changes, so a failed write is never
\* made good.
KeepIfNew(v) ==
  \/ v = mem /\ UNCHANGED <<kept, failures>>
  \/ v # mem /\ kept' = v /\ UNCHANGED failures
  \/ v # mem /\ kept' = kept /\ Failure

\* keepConfig: written when it is not what the file has; a write may fail.
Keep(v) ==
  \/ kept' = v /\ UNCHANGED failures
  \/ v # kept /\ kept' = kept /\ Failure

Answered(t) ==
  /\ read' = [read EXCEPT ![t] = NoRead]
  /\ late' = {u \in Timer \ {t} : read[u] # NoRead}

Answer(t) ==
  /\ read[t] \in Version /\ mem' = read[t] /\ Keep(read[t]) /\ Answered(t)
  /\ UNCHANGED <<clockVars, saved, told, loopVars, upsets>>

\* Mutant: a failed read leaves no configuration.
FailedTo == None
\* A failed read leaves what was read before.
AfterFailure == mem

ReadFails(t) ==
  /\ read[t] # NoRead /\ Failure /\ mem' = AfterFailure
  /\ read' = [read EXCEPT ![t] = NoRead] /\ late' = late \ {t}
  /\ UNCHANGED <<clockVars, saved, told, kept, loopVars, upsets>>

\* main: the loop starts once the first read is answered or has failed.
Start ==
  /\ stage = "starting" /\ stage' = "idle"
  /\ \/ mem' = saved /\ Keep(saved)
     \/ mem' = kept /\ kept' = kept /\ Failure
  /\ told' = FALSE
  /\ UNCHANGED <<clockVars, saved, read, late, due, lastFired, fired, again, upsets>>

Stop ==
  /\ stage # "starting" /\ Upset
  /\ stage' = "starting" /\ mem' = None /\ read' = [t \in Timer |-> NoRead] /\ late' = {}
  /\ due' = NoCommand /\ lastFired' = None /\ reopened' = reopened \cup ({lastFired} \cap Minute)
  /\ UNCHANGED <<minute, relay, seen, saved, told, kept, fired, again, failures>>
-----------------------------------------------------------------------------
(***************************************************************************)
(* The loop.                                                               *)
(***************************************************************************)
\* Mutant: every cycle fires the minute.
NotYetFired == minute \in Minute
\* lastFiredMinute: once a minute, though the loop comes by every 15 s. Only the last
\* minute is remembered, and only in memory.
MinuteIsNew == minute # lastFired

Cycle ==
  /\ stage = "idle"
  /\ \/ /\ MinuteIsNew /\ lastFired' = minute
        /\ due' = ResolveDue(Running.rows, minute) /\ stage' = "firing"
     \/ ~MinuteIsNew /\ stage' = "measuring" /\ UNCHANGED <<lastFired, due>>
  /\ UNCHANGED <<clockVars, configVars, fired, again, failures, upsets>>

Next1(t) == t \in DOMAIN due /\ \A u \in DOMAIN due : t <= u
Without(t) == [u \in DOMAIN due \ {t} |-> due[u]]

\* fire: recorded, dispatched and recorded again. A command may fail; its relay
\* then stays as it was.
Send(t) ==
  /\ stage \in {"firing", "shedding"} /\ Next1(t) /\ due' = Without(t)
  /\ \/ relay' = (IF due[t] = "on" THEN relay \cup {t} ELSE relay \ {t}) /\ UNCHANGED failures
     \/ UNCHANGED relay /\ Failure
  /\ IF stage = "firing"
     THEN fired' = fired \cup {<<t, lastFired>>} /\ again' = again \cup ({<<t, lastFired>>} \cap fired)
     ELSE UNCHANGED <<fired, again>>
  /\ UNCHANGED <<minute, reopened, seen, configVars, stage, lastFired, upsets>>

Sent ==
  /\ stage \in {"firing", "shedding"} /\ due = NoCommand
  /\ stage' = IF stage = "firing" THEN "measuring" ELSE "idle"
  /\ UNCHANGED <<clockVars, configVars, due, lastFired, fired, again, failures, upsets>>

\* shedTick: the bridge's reading, not the cloud's, and one tier at a time.
Measure ==
  /\ stage = "measuring"
  /\ \/ Running.auto /\ Breached(seen) /\ PlanShed(Running, seen) # {}
        /\ due' = [t \in PlanShed(Running, seen) |-> "off"] /\ stage' = "shedding" /\ UNCHANGED failures
     \/ ~(Running.auto /\ Breached(seen) /\ PlanShed(Running, seen) # {})
        /\ stage' = "idle" /\ UNCHANGED <<due, failures>>
     \/ stage' = "idle" /\ Failure /\ UNCHANGED due
  /\ UNCHANGED <<clockVars, configVars, lastFired, fired, again, upsets>>

-----------------------------------------------------------------------------
(***************************************************************************)
(* The building.                                                           *)
(***************************************************************************)
\* A loop that is not held up comes by in every minute.
MinutePasses ==
  /\ minute < MaxMinute /\ (stage = "idle" => lastFired = minute)
  /\ minute' = minute + 1
  /\ UNCHANGED <<reopened, relay, seen, configVars, loopVars, failures, upsets>>

\* The clock is corrected into an earlier minute, whatever the loop is doing: from
\* there on its minutes come by again.
ClockSetBack ==
  /\ Upset /\ \E m \in Minute : m < minute /\ minute' = m /\ reopened' = reopened \cup m..minute
  /\ UNCHANGED <<relay, seen, configVars, loopVars, failures>>

\* The bridge reads the relays.
Poll ==
  /\ seen' = relay
  /\ UNCHANGED <<minute, reopened, relay, configVars, loopVars, failures, upsets>>

PersonSwitches(t) ==
  /\ Upset /\ t \notin relay /\ relay' = relay \cup {t}
  /\ UNCHANGED <<minute, reopened, seen, configVars, loopVars, failures>>

-----------------------------------------------------------------------------
LoopStep == Start \/ Cycle \/ (\E t \in Target : Send(t)) \/ Sent \/ Measure

Next ==
  \/ LoopStep \/ Stop \/ Save
  \/ (\E t \in Timer : Ask(t) \/ Snapshot(t) \/ Answer(t) \/ ReadFails(t))
  \/ MinutePasses \/ ClockSetBack \/ Poll \/ (\E t \in Target : PersonSwitches(t))

Spec == Init /\ [][Next]_scheduler_vars

(***************************************************************************)
(* The timers run and requests are answered or given up. The signal is not *)
(* relied on: it may be lost.                                              *)
(***************************************************************************)
ReadEnds == \E t \in Timer : Snapshot(t) \/ Answer(t)

Fairness ==
  /\ WF_scheduler_vars(LoopStep) /\ WF_scheduler_vars(Poll)
  /\ WF_scheduler_vars(Ask("interval")) /\ WF_scheduler_vars(ReadEnds)

FairSpec == Spec /\ Fairness

-----------------------------------------------------------------------------
TypeOK ==
  /\ minute \in Minute /\ reopened \subseteq Minute /\ relay \subseteq Target /\ seen \subseteq Target
  /\ saved \in Version /\ told \in BOOLEAN /\ mem \in Version \cup {None} /\ kept \in Version \cup {None}
  /\ read \in [Timer -> Version \cup {NoRead, Asked}] /\ late \subseteq Timer
  /\ stage \in {"starting", "idle", "firing", "measuring", "shedding"}
  /\ DOMAIN due \subseteq Target /\ (\A t \in DOMAIN due : due[t] \in {"on", "off"})
  /\ lastFired \in Minute \cup {None}
  /\ fired \subseteq Target \X Minute /\ again \subseteq Target \X Minute
  /\ failures \in 0..MaxFailures /\ upsets \in 0..MaxUpsets

\* The schedules of a minute send a target one command, however many rows meet there,
\* however long the loop takes and however often it comes by. Two things make a minute
\* fire again: a clock that is set back to it or past it, since only the last minute is
\* compared, and a restart within it, since that is only in memory.
FiredOnce == \A p \in again : p[2] \in reopened

\* The configuration in memory never goes back, except when a read was overtaken by
\* another one that the signal or the timer started meanwhile.
OlderOnlyWhenOvertaken ==
  [][mem' < mem /\ stage' # "starting" => \E t \in late : read[t] = mem' /\ read'[t] = NoRead]_scheduler_vars

\* What is saved arrives, though signals are lost, reads fail and answers overtake
\* each other: the timer reads again. And it is kept on the edge for a start in an
\* outage, though keeping it may fail too.
ConfigArrives == <>[](mem = saved /\ kept = saved)

\* A breach ends, tier after tier, or nothing that may be shed is left on.
BreachEnds ==
  []<>(~Running.auto \/ ~Breached(relay) \/ \A t \in relay : Running.tier[t] = 0)
=============================================================================
