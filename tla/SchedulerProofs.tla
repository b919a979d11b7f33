-------------------------- MODULE SchedulerProofs --------------------------
(***************************************************************************)
(* The scheduler fires once and knows when its configuration goes back,    *)
(* for any relays, minutes, faults and history of saved configurations.    *)
(***************************************************************************)
EXTENDS Scheduler, TLAPS

\* A minute that was fired is the last one, is over, or is one that came by again.
FiredBefore ==
  \A p \in fired : p[2] \in Minute /\ (p[2] \in reopened \/ p[2] = lastFired \/ p[2] < minute)
LastBefore == lastFired \in Minute => lastFired \in reopened \/ lastFired <= minute

\* While the schedules of a minute are sent, what is due was not sent yet in it.
DueIsUnsent ==
  stage = "firing" =>
    /\ lastFired \in Minute
    /\ \A t \in DOMAIN due : <<t, lastFired>> \in fired => lastFired \in reopened

FireTypes == minute \in Minute /\ lastFired \in Minute \cup {None} /\ MaxMinute \in Nat
FireInv == FireTypes /\ FiredOnce /\ FiredBefore /\ LastBefore /\ DueIsUnsent

-----------------------------------------------------------------------------
LEMMA SendFires ==
  ASSUME FireInv, NEW t, Send(t)
  PROVE  FireInv'
<1>1. /\ t \in DOMAIN due /\ DOMAIN due' = DOMAIN due \ {t}
      /\ UNCHANGED <<stage, minute, lastFired, reopened>>
  BY DEF Send, Next1, Without
<1>2. CASE stage = "firing"
  <2>1. fired' = fired \cup {<<t, lastFired>>} /\ again' = again \cup ({<<t, lastFired>>} \cap fired)
    BY <1>2 DEF Send
  <2>2. <<t, lastFired>> \in fired => lastFired \in reopened
    BY <1>1, <1>2 DEF FireInv, DueIsUnsent
  <2>3. FiredOnce'
    BY <1>1, <2>1, <2>2 DEF FireInv, FiredOnce
  <2>4. FiredBefore'
    BY <1>1, <1>2, <2>1 DEF FireInv, FiredBefore, DueIsUnsent
  <2>5. DueIsUnsent'
    BY <1>1, <2>1 DEF FireInv, DueIsUnsent
  <2> QED
    BY <1>1, <2>3, <2>4, <2>5 DEF FireInv, FireTypes, LastBefore
<1>3. CASE stage # "firing"
  <2>1. UNCHANGED <<fired, again>>
    BY <1>3 DEF Send
  <2> QED
    BY <1>1, <1>3, <2>1 DEF FireInv, FireTypes, FiredOnce, FiredBefore, LastBefore, DueIsUnsent
<1> QED
  BY <1>2, <1>3

LEMMA CycleFires == ASSUME FireInv, Cycle PROVE FireInv'
<1>1. UNCHANGED <<minute, reopened, fired, again>>
  BY DEF Cycle, clockVars
<1>2. CASE MinuteIsNew /\ lastFired' = minute /\ stage' = "firing"
  <2>1. minute # lastFired /\ minute \in Int
    BY <1>2 DEF MinuteIsNew, FireInv, FireTypes, Minute
  <2>2. lastFired \in Minute => lastFired \in reopened \/ lastFired < minute
    BY <2>1 DEF FireInv, LastBefore, Minute
  <2>3. \A p \in fired : p[2] \in reopened \/ p[2] < minute
    BY <2>1, <2>2 DEF FireInv, FiredBefore, FireTypes, Minute, None
  <2>4. \A t \in DOMAIN due' : <<t, minute>> \in fired => minute \in reopened
    BY <2>1, <2>3
  <2> QED
    BY <1>1, <1>2, <2>1, <2>3, <2>4 DEF FireInv, FireTypes, FiredOnce, FiredBefore, LastBefore, DueIsUnsent
<1>3. CASE stage' = "measuring" /\ UNCHANGED lastFired
  BY <1>1, <1>3 DEF FireInv, FireTypes, FiredOnce, FiredBefore, LastBefore, DueIsUnsent
<1> QED
  BY <1>2, <1>3 DEF Cycle

\* The clock moves on, or back over minutes that will come by again.
LEMMA ClockFires == ASSUME FireInv, MinutePasses \/ ClockSetBack PROVE FireInv'
<1>1. UNCHANGED <<stage, due, lastFired, fired, again>>
  BY DEF MinutePasses, ClockSetBack, loopVars
<1>2. CASE MinutePasses
  <2>1. minute \in Int /\ minute' = minute + 1 /\ minute' \in Minute /\ reopened' = reopened
    BY <1>2 DEF MinutePasses, FireInv, FireTypes, Minute
  <2>2. FiredBefore'
    <3> SUFFICES ASSUME NEW p \in fired, p[2] \notin reopened, p[2] # lastFired PROVE p[2] < minute'
      BY <1>1, <2>1 DEF FireInv, FiredBefore
    <3>1. p[2] < minute /\ p[2] \in Int
      BY DEF FireInv, FiredBefore, Minute
    <3> QED
      BY <2>1, <3>1
  <2>3. LastBefore'
    BY <1>1, <2>1 DEF FireInv, LastBefore, Minute
  <2> QED
    BY <1>1, <2>1, <2>2, <2>3 DEF FireInv, FireTypes, FiredOnce, DueIsUnsent
<1>3. CASE ClockSetBack
  <2>1. PICK m \in Minute : m < minute /\ minute' = m /\ reopened' = reopened \cup m..minute
    BY <1>3 DEF ClockSetBack
  <2>2. m \in Int /\ minute \in Int
    BY DEF FireInv, FireTypes, Minute
  <2>3. LastBefore'
    BY <1>1, <2>1, <2>2 DEF FireInv, LastBefore, Minute
  <2>4. FiredBefore'
    <3> SUFFICES ASSUME NEW p \in fired, p[2] \notin reopened', p[2] # lastFired PROVE p[2] < m
      BY <1>1, <2>1 DEF FireInv, FiredBefore
    <3>1. p[2] < minute /\ p[2] \in Int
      BY <2>1 DEF FireInv, FiredBefore, Minute
    <3> QED
      BY <2>1, <2>2, <3>1
  <2>5. FiredOnce' /\ DueIsUnsent' /\ FireTypes'
    BY <1>1, <2>1 DEF FireInv, FireTypes, FiredOnce, DueIsUnsent
  <2> QED
    BY <2>3, <2>4, <2>5 DEF FireInv
<1> QED
  BY <1>2, <1>3

\* What the minutes of a process that stops leave behind came by again.
LEMMA StopFires == ASSUME FireInv, Stop PROVE FireInv'
<1>1. /\ UNCHANGED <<minute, fired, again>> /\ lastFired' = None /\ stage' = "starting"
      /\ reopened' = reopened \cup ({lastFired} \cap Minute)
  BY DEF Stop
<1>2. FiredBefore'
  BY <1>1 DEF FireInv, FireTypes, FiredBefore, Minute, None
<1> QED
  BY <1>1, <1>2 DEF FireInv, FireTypes, FiredOnce, LastBefore, DueIsUnsent, Minute, None

LEMMA FireStep == ASSUME FireInv, Next PROVE FireInv'
<1>1. CASE LoopStep
  <2>1. CASE Start \/ Sent \/ Measure
    BY <2>1 DEF Start, Sent, Measure, clockVars,
                FireInv, FireTypes, FiredOnce, FiredBefore, LastBefore, DueIsUnsent
  <2> QED
    BY <1>1, <2>1, CycleFires, SendFires DEF LoopStep
<1>2. CASE UNCHANGED <<minute, reopened, loopVars>>
  BY <1>2 DEF loopVars, FireInv, FireTypes, FiredOnce, FiredBefore, LastBefore, DueIsUnsent
<1>3. LoopStep \/ Stop \/ MinutePasses \/ ClockSetBack \/ UNCHANGED <<minute, reopened, loopVars>>
  BY DEF Next, Save, Ask, Snapshot, Answer, ReadFails, Poll, PersonSwitches, clockVars
<1> QED
  BY <1>1, <1>2, <1>3, StopFires, ClockFires

\* However long a dispatch takes, however many rows meet in a minute and however the
\* clock is set, the schedules of a minute send a target a second command only if the
\* clock was set back to the minute or past it, or the process restarted within it.
THEOREM FiresOnce == ASSUME MaxMinute \in Nat PROVE Spec => []FiredOnce
<1>1. Init => FireInv
  BY DEF Init, FireInv, FireTypes, FiredOnce, FiredBefore, LastBefore, DueIsUnsent, Minute, None
<1>2. FireInv /\ [Next]_scheduler_vars => FireInv'
  <2> SUFFICES ASSUME FireInv, [Next]_scheduler_vars PROVE FireInv'
    OBVIOUS
  <2>1. CASE UNCHANGED scheduler_vars
    BY <2>1 DEF scheduler_vars, clockVars, loopVars, FireInv, FireTypes, FiredOnce, FiredBefore,
                LastBefore, DueIsUnsent
  <2> QED
    BY <2>1, FireStep
<1>3. FireInv => FiredOnce
  BY DEF FireInv
<1> QED
  BY <1>1, <1>2, <1>3, PTL DEF Spec

-----------------------------------------------------------------------------
(***************************************************************************)
(* The configuration.                                                      *)
(***************************************************************************)
\* Nothing is known that was not saved.
SavedFirst ==
  /\ saved \in Version /\ mem \in Version \cup {None} /\ kept \in Version \cup {None}
  /\ mem <= saved /\ kept <= saved
  /\ \A t \in Timer : read[t] \in Version => read[t] <= saved

\* A process that starts has read nothing.
StartsEmpty == stage = "starting" => mem = None /\ \A t \in Timer : read[t] = NoRead

\* A read that no other one has overtaken brings nothing older than memory.
NotOlder == \A t \in Timer \ late : read[t] \in Version => mem <= read[t]

ReadType == read \in [Timer -> Version \cup {NoRead, Asked}]

ConfigInv == ReadType /\ SavedFirst /\ StartsEmpty /\ NotOlder

\* Versions are counted from 0.
Counted == Version \subseteq Nat /\ 0 \in Version

LEMMA Codes == ASSUME Counted PROVE NoRead \notin Version /\ Asked \notin Version /\ None \notin Version
BY DEF Counted, NoRead, Asked, None

LEMMA VersionIsInt == ASSUME Counted, NEW v \in Version PROVE v \in Int
<1>1. v \in Nat
  BY DEF Counted
<1> QED
  BY <1>1

LEMMA ConfigInit == ASSUME Counted, Init PROVE ConfigInv
BY DEF Counted, Init, ConfigInv, ReadType, SavedFirst, StartsEmpty, NotOlder, None, NoRead, Asked, Timer

LEMMA ReadStep ==
  ASSUME Counted, ConfigInv, NEW t \in Timer, Ask(t) \/ Snapshot(t) \/ Answer(t) \/ ReadFails(t)
  PROVE  ConfigInv'
<1>1. /\ ReadType /\ SavedFirst /\ StartsEmpty /\ NotOlder
      /\ saved \in Int /\ mem \in Int /\ mem <= saved
  BY DEF Counted, ConfigInv, SavedFirst, None
<1>2. CASE Ask(t)
  <2>1. /\ read' = [read EXCEPT ![t] = Asked] /\ UNCHANGED <<saved, mem, kept, late, stage>>
        /\ stage # "starting"
    BY <1>2 DEF Ask, loopVars
  <2>2. \A u \in Timer : read'[u] = IF u = t THEN Asked ELSE read[u]
    BY <1>1, <2>1 DEF ReadType
  <2>3. ReadType'
    BY <1>1, <2>1 DEF ReadType
  <2> QED
    BY <1>1, <2>1, <2>2, <2>3, Codes DEF ConfigInv, SavedFirst, StartsEmpty, NotOlder
<1>3. CASE Snapshot(t)
  <2>1. /\ read' = [read EXCEPT ![t] = saved] /\ UNCHANGED <<saved, mem, kept, late, stage>>
        /\ stage # "starting"
    BY <1>1, <1>3 DEF Snapshot, loopVars, StartsEmpty, NoRead, Asked
  <2>2. \A u \in Timer : read'[u] = IF u = t THEN saved ELSE read[u]
    BY <1>1, <2>1 DEF ReadType
  <2>3. ReadType'
    BY <1>1, <2>1 DEF ReadType, SavedFirst
  <2> QED
    BY <1>1, <2>1, <2>2, <2>3 DEF ConfigInv, SavedFirst, StartsEmpty, NotOlder
<1>4. CASE Answer(t)
  <2>1. /\ read[t] \in Version /\ mem' = read[t] /\ UNCHANGED <<saved, stage>>
        /\ (kept' = read[t] \/ kept' = kept)
        /\ read' = [read EXCEPT ![t] = NoRead] /\ late' = {u \in Timer \ {t} : read[u] # NoRead}
    BY <1>4 DEF Answer, Answered, Keep, loopVars
  <2>2. \A u \in Timer : read'[u] = IF u = t THEN NoRead ELSE read[u]
    BY <1>1, <2>1 DEF ReadType
  <2>3. ReadType'
    BY <1>1, <2>1 DEF ReadType
  <2>4. stage # "starting"
    BY <1>1, <2>1, Codes DEF StartsEmpty
  <2>5. \A u \in Timer \ late' : read'[u] = NoRead
    BY <2>1, <2>2
  <2>6. NotOlder'
    BY <2>5, Codes DEF NotOlder
  <2>7. SavedFirst'
    BY <1>1, <2>1, <2>2, Codes DEF SavedFirst
  <2> QED
    BY <2>1, <2>3, <2>4, <2>6, <2>7 DEF ConfigInv, StartsEmpty
<1>5. CASE ReadFails(t)
  <2>1. /\ read' = [read EXCEPT ![t] = NoRead] /\ UNCHANGED <<saved, mem, kept, stage>>
        /\ late' = late \ {t}
    BY <1>5 DEF ReadFails, AfterFailure, loopVars
  <2>2. \A u \in Timer : read'[u] = IF u = t THEN NoRead ELSE read[u]
    BY <1>1, <2>1 DEF ReadType
  <2>3. ReadType'
    BY <1>1, <2>1 DEF ReadType
  <2> QED
    BY <1>1, <2>1, <2>2, <2>3, Codes DEF ConfigInv, SavedFirst, StartsEmpty, NotOlder
<1> QED
  BY <1>2, <1>3, <1>4, <1>5

LEMMA ConfigStep == ASSUME Counted, ConfigInv, Next PROVE ConfigInv'
<1>1. CASE \E t \in Timer : Ask(t) \/ Snapshot(t) \/ Answer(t) \/ ReadFails(t)
  BY <1>1, ReadStep
<1>2. CASE Start
  <2>1. /\ UNCHANGED <<saved, read, late>> /\ stage = "starting" /\ stage' = "idle"
        /\ \/ mem' = saved /\ kept' \in {saved, kept}
           \/ mem' = kept /\ kept' = kept
    BY <1>2 DEF Start, Keep
  <2>2. \A t \in Timer : read[t] = NoRead
    BY <2>1 DEF ConfigInv, StartsEmpty
  <2>3. SavedFirst'
    BY <2>1 DEF Counted, ConfigInv, SavedFirst
  <2> QED
    BY <2>1, <2>2, <2>3, Codes DEF ConfigInv, ReadType, StartsEmpty, NotOlder
<1>3. CASE Stop
  <2>1. UNCHANGED <<saved, kept>> /\ mem' = None /\ read' = [t \in Timer |-> NoRead]
    BY <1>3 DEF Stop
  <2>2. \A t \in Timer : read'[t] = NoRead
    BY <2>1
  <2>3. SavedFirst'
    BY <2>1, <2>2, Codes DEF Counted, ConfigInv, SavedFirst, None
  <2> QED
    BY <2>1, <2>2, <2>3, Codes DEF ConfigInv, ReadType, StartsEmpty, NotOlder
<1>4. CASE Save
  <2>1. saved' = saved + 1 /\ saved' \in Version /\ UNCHANGED <<mem, kept, read, late, stage>>
    BY <1>4 DEF Save, loopVars
  <2>2. /\ saved \in Int /\ mem \in Int /\ kept \in Int /\ mem <= saved /\ kept <= saved
        /\ mem \in Version \cup {None} /\ kept \in Version \cup {None}
    BY DEF Counted, ConfigInv, SavedFirst, None
  <2>3. mem <= saved' /\ kept <= saved'
    BY <2>1, <2>2
  <2>4. \A t \in Timer : read[t] \in Version => read[t] <= saved'
    <3> SUFFICES ASSUME NEW t \in Timer, read[t] \in Version PROVE read[t] <= saved'
      OBVIOUS
    <3>1. read[t] \in Int
      BY VersionIsInt
    <3>2. read[t] <= saved
      BY DEF ConfigInv, SavedFirst
    <3> QED
      BY <2>1, <2>2, <3>1, <3>2
  <2>5. SavedFirst'
    BY <2>1, <2>2, <2>3, <2>4 DEF SavedFirst
  <2> QED
    BY <2>1, <2>5 DEF ConfigInv, ReadType, StartsEmpty, NotOlder
<1>5. CASE UNCHANGED configVars /\ (stage # "starting" => stage' # "starting") /\ stage # "starting"
  BY <1>5 DEF configVars, ConfigInv, ReadType, SavedFirst, StartsEmpty, NotOlder
<1>6. CASE UNCHANGED configVars /\ UNCHANGED stage
  BY <1>6 DEF configVars, ConfigInv, ReadType, SavedFirst, StartsEmpty, NotOlder
<1>7. ASSUME Cycle \/ Sent \/ Measure \/ \E t \in Target : Send(t)
      PROVE  UNCHANGED configVars /\ stage # "starting" /\ stage' # "starting"
  BY <1>7 DEF Cycle, Sent, Measure, Send
<1>8. ASSUME MinutePasses \/ ClockSetBack \/ Poll \/ \E t \in Target : PersonSwitches(t)
      PROVE  UNCHANGED configVars /\ UNCHANGED stage
  BY <1>8 DEF MinutePasses, ClockSetBack, Poll, PersonSwitches, loopVars
<1> QED
  BY <1>1, <1>2, <1>3, <1>4, <1>5, <1>6, <1>7, <1>8 DEF Next, LoopStep

LEMMA ConfigAlways == ASSUME Counted PROVE Spec => []ConfigInv
<1>1. ConfigInv /\ [Next]_scheduler_vars => ConfigInv'
  <2> SUFFICES ASSUME ConfigInv, [Next]_scheduler_vars PROVE ConfigInv'
    OBVIOUS
  <2>1. CASE UNCHANGED scheduler_vars
    BY <2>1 DEF scheduler_vars, configVars, loopVars, ConfigInv, ReadType, SavedFirst, StartsEmpty, NotOlder
  <2> QED
    BY <2>1, ConfigStep
<1> QED
  BY ConfigInit, <1>1, PTL DEF Spec

-----------------------------------------------------------------------------
\* Only an answer to an overtaken read takes memory back, other than a restart.
LEMMA BackByOvertaken ==
  ASSUME Counted, ConfigInv, Next, mem' < mem, stage' # "starting"
  PROVE  \E t \in late : read[t] = mem' /\ read'[t] = NoRead
<1>1. mem \in Int /\ saved \in Int /\ kept \in Int /\ mem <= saved /\ kept <= saved
  BY DEF Counted, ConfigInv, SavedFirst, None
<1>2. mem' # mem
  BY <1>1
<1>3. CASE \E t \in Timer : Answer(t)
  <2>1. PICK t \in Timer : Answer(t)
    BY <1>3
  <2>2. read[t] \in Version /\ mem' = read[t] /\ read'[t] = NoRead
    BY <2>1 DEF Answer, Answered, ConfigInv, ReadType
  <2>3. read[t] \in Int
    BY <2>2, VersionIsInt
  <2>4. ~(mem <= read[t])
    BY <1>1, <2>2, <2>3
  <2>5. t \in late
    BY <2>2, <2>4 DEF ConfigInv, NotOlder
  <2> QED
    BY <2>2, <2>5
<1>4. ~Start
  BY <1>1 DEF Start, Keep, Counted, ConfigInv, SavedFirst, StartsEmpty, None
<1>5. ~Stop
  BY DEF Stop
<1> QED
  BY <1>2, <1>3, <1>4, <1>5
     DEF Next, LoopStep, Cycle, Send, Sent, Measure, Save, Ask, Snapshot, ReadFails, AfterFailure,
         MinutePasses, ClockSetBack, Poll, PersonSwitches, configVars

\* The configuration in memory never goes back, but by an answer that another read has
\* overtaken: for any history of saved versions, lost signals, failed reads and restarts.
THEOREM OlderOnlyOvertaken == ASSUME Counted PROVE Spec => OlderOnlyWhenOvertaken
<1>1. ConfigInv /\ [Next]_scheduler_vars
        => [mem' < mem /\ stage' # "starting" => \E t \in late : read[t] = mem' /\ read'[t] = NoRead]_scheduler_vars
  BY BackByOvertaken
<1> QED
  BY <1>1, ConfigAlways, PTL DEF Spec, OlderOnlyWhenOvertaken
-----------------------------------------------------------------------------
(***************************************************************************)
(* Types.                                                                  *)
(***************************************************************************)
\* Rows are of relays.
RowsOfTargets ==
  /\ \A v \in Version : \A r \in Config[v].rows : r.targets \subseteq Target
  /\ MaxMinute \in Nat /\ MaxFailures \in Nat /\ MaxUpsets \in Nat

\* The part that ConfigInv says nothing of.
PlainTypes ==
  /\ minute \in Minute /\ reopened \subseteq Minute /\ relay \subseteq Target /\ seen \subseteq Target
  /\ told \in BOOLEAN /\ late \subseteq Timer
  /\ stage \in {"starting", "idle", "firing", "measuring", "shedding"}
  /\ lastFired \in Minute \cup {None}
  /\ fired \subseteq Target \X Minute /\ again \subseteq Target \X Minute
  /\ (stage = "firing" => lastFired \in Minute)
  /\ failures \in 0..MaxFailures /\ upsets \in 0..MaxUpsets
DueTyped == DOMAIN due \subseteq Target /\ \A t \in DOMAIN due : due[t] \in {"on", "off"}

TypeInv == ConfigInv /\ PlainTypes /\ DueTyped

LEMMA RunningRows ==
  ASSUME RowsOfTargets, ConfigInv
  PROVE  \A r \in Running.rows : r.targets \subseteq Target
BY DEF Running, Empty, RowsOfTargets, ConfigInv, SavedFirst

LEMMA FailureTyped ==
  ASSUME RowsOfTargets, failures \in 0..MaxFailures, Failure \/ UNCHANGED failures
  PROVE  failures' \in 0..MaxFailures
BY DEF Failure, RowsOfTargets

LEMMA LoopDue ==
  ASSUME RowsOfTargets, ConfigInv, PlainTypes, DueTyped, LoopStep
  PROVE  DueTyped'
<1>1. CASE Start \/ Sent
  BY <1>1 DEF Start, Sent, DueTyped
<1>2. CASE Cycle
  <2>1. CASE due' = ResolveDue(Running.rows, minute)
    BY <2>1, RunningRows DEF ResolveDue, DueTyped
  <2> QED
    BY <1>2, <2>1 DEF Cycle, DueTyped
<1>3. CASE \E t \in Target : Send(t)
  BY <1>3 DEF Send, Without, DueTyped
<1>4. CASE Measure
  <2>1. CASE due' = [t \in PlanShed(Running, seen) |-> "off"]
    <3>1. PlanShed(Running, seen) \subseteq Target
      BY DEF PlanShed, PlainTypes
    <3> QED
      BY <2>1, <3>1 DEF DueTyped
  <2> QED
    BY <1>4, <2>1 DEF Measure, DueTyped
<1> QED
  BY <1>1, <1>2, <1>3, <1>4 DEF LoopStep

LEMMA DueStep ==
  ASSUME RowsOfTargets, ConfigInv, PlainTypes, DueTyped, Next
  PROVE  DueTyped'
<1>1. CASE LoopStep
  BY <1>1, LoopDue
<1>2. CASE UNCHANGED due
  BY <1>2 DEF DueTyped
<1>3. CASE Stop
  BY <1>3 DEF Stop, NoCommand, DueTyped
<1>4. LoopStep \/ UNCHANGED due \/ Stop
  BY DEF Next, Save, Ask, Snapshot, Answer, ReadFails, MinutePasses, ClockSetBack, Poll, PersonSwitches, loopVars
<1> QED
  BY <1>1, <1>2, <1>3, <1>4

LEMMA LoopPlain ==
  ASSUME RowsOfTargets, PlainTypes, LoopStep
  PROVE  PlainTypes'
<1>1. CASE Start \/ Measure
  <2>1. Failure \/ UNCHANGED failures
    BY <1>1 DEF Start, Keep, Measure
  <2>2. failures' \in 0..MaxFailures
    BY <2>1, FailureTyped DEF PlainTypes
  <2> QED
    BY <1>1, <2>2 DEF Start, Measure, clockVars, configVars, PlainTypes
<1>2. CASE Cycle \/ Sent
  BY <1>2 DEF Cycle, Sent, clockVars, configVars, PlainTypes
<1>3. CASE \E t \in Target : Send(t)
  <2>1. PICK t \in Target : Send(t)
    BY <1>3
  <2>2. failures' \in 0..MaxFailures
    BY <2>1, FailureTyped DEF Send, PlainTypes
  <2>3. relay' \subseteq Target /\ fired' \subseteq Target \X Minute /\ again' \subseteq Target \X Minute
    BY <2>1 DEF Send, PlainTypes
  <2> QED
    BY <2>1, <2>2, <2>3 DEF Send, configVars, PlainTypes
<1> QED
  BY <1>1, <1>2, <1>3 DEF LoopStep

LEMMA ReadPlain ==
  ASSUME RowsOfTargets, PlainTypes, NEW t \in Timer, Ask(t) \/ Snapshot(t) \/ Answer(t) \/ ReadFails(t)
  PROVE  PlainTypes'
<1>1. failures' \in 0..MaxFailures
  BY FailureTyped DEF Ask, Snapshot, Answer, Keep, ReadFails, PlainTypes
<1> QED
  BY <1>1 DEF Ask, Snapshot, Answer, Answered, ReadFails, clockVars, loopVars, PlainTypes

LEMMA UpsetTyped ==
  ASSUME RowsOfTargets, upsets \in 0..MaxUpsets, Upset
  PROVE  upsets' \in 0..MaxUpsets
BY DEF Upset, RowsOfTargets

LEMMA WorldPlain ==
  ASSUME RowsOfTargets, PlainTypes,
         Stop \/ Save \/ MinutePasses \/ ClockSetBack \/ Poll \/ \E t \in Target : PersonSwitches(t)
  PROVE  PlainTypes'
<1>1. CASE Stop
  <2>1. upsets' \in 0..MaxUpsets
    BY <1>1, UpsetTyped DEF Stop, PlainTypes
  <2> QED
    BY <1>1, <2>1 DEF Stop, PlainTypes
<1>2. CASE Save \/ Poll
  BY <1>2 DEF Save, Poll, clockVars, configVars, loopVars, PlainTypes
<1>3. CASE MinutePasses
  <2>1. minute' \in Minute
    BY <1>3 DEF MinutePasses, Minute, PlainTypes, RowsOfTargets
  <2> QED
    BY <1>3, <2>1 DEF MinutePasses, configVars, loopVars, PlainTypes
<1>4. CASE \E t \in Target : PersonSwitches(t)
  <2>1. upsets' \in 0..MaxUpsets
    BY <1>4, UpsetTyped DEF PersonSwitches, PlainTypes
  <2> QED
    BY <1>4, <2>1 DEF PersonSwitches, configVars, loopVars, PlainTypes
<1>5. CASE ClockSetBack
  <2>1. upsets' \in 0..MaxUpsets
    BY <1>5, UpsetTyped DEF ClockSetBack, PlainTypes
  <2>2. PICK m \in Minute : minute' = m /\ reopened' = reopened \cup m..minute
    BY <1>5 DEF ClockSetBack
  <2>3. m..minute \subseteq Minute
    BY DEF Minute, PlainTypes, RowsOfTargets
  <2> QED
    BY <1>5, <2>1, <2>2, <2>3 DEF ClockSetBack, configVars, loopVars, PlainTypes
<1> QED
  BY <1>1, <1>2, <1>3, <1>4, <1>5

\* The scheduler's variables keep their types, for any configurations whose rows are of
\* relays: in particular only relays are ever commanded.
THEOREM TypeCorrect == ASSUME Counted, RowsOfTargets PROVE Spec => []TypeOK
<1>1. Init => TypeInv
  <2> SUFFICES ASSUME Init PROVE TypeInv
    OBVIOUS
  <2>1. 0 \in Minute /\ 0 \in 0..MaxFailures /\ 0 \in 0..MaxUpsets
    BY DEF Minute, RowsOfTargets
  <2>2. PlainTypes
    BY <2>1 DEF Init, PlainTypes
  <2>3. DueTyped
    BY DEF Init, NoCommand, DueTyped
  <2> QED
    BY <2>2, <2>3, ConfigInit DEF TypeInv
<1>2. TypeInv /\ [Next]_scheduler_vars => TypeInv'
  <2> SUFFICES ASSUME TypeInv, [Next]_scheduler_vars PROVE TypeInv'
    OBVIOUS
  <2>1. CASE UNCHANGED scheduler_vars
    BY <2>1 DEF scheduler_vars, clockVars, configVars, loopVars, TypeInv, PlainTypes, DueTyped,
                ConfigInv, ReadType, SavedFirst, StartsEmpty, NotOlder
  <2>2. CASE Next
    <3>1. ConfigInv'
      BY <2>2, ConfigStep DEF TypeInv
    <3>2. PlainTypes'
      BY <2>2, LoopPlain, ReadPlain, WorldPlain DEF Next, TypeInv
    <3>3. DueTyped'
      BY <2>2, DueStep DEF TypeInv
    <3> QED
      BY <3>1, <3>2, <3>3 DEF TypeInv
  <2> QED
    BY <2>1, <2>2
<1>3. TypeInv => TypeOK
  BY DEF TypeInv, PlainTypes, DueTyped, ConfigInv, ReadType, SavedFirst, TypeOK
<1> QED
  BY <1>1, <1>2, <1>3, PTL DEF Spec
=============================================================================
