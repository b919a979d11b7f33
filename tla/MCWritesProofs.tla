--------------------------- MODULE MCWritesProofs ---------------------------
(***************************************************************************)
(* The machines that keep two places in step do keep them so, for any      *)
(* bounds: the aircon loop and its row, a page of schedules and its table, *)
(* the clock and the stamps of the archive. A behavior of the composition  *)
(* is one of every machine's own specification, so what is proved of a     *)
(* machine, of enrolment in EnrolmentProofs, is proved of it.              *)
(***************************************************************************)
EXTENDS MCWrites, EnrolmentProofs, SequenceTheorems

-----------------------------------------------------------------------------
(***************************************************************************)
(* A behavior of the composition, seen from one machine.                   *)
(***************************************************************************)
LEMMA OfAircon == AnySpec => A!Spec
<1>1. AnyInit => A!Init
  BY DEF AnyInit
<1>2. [AnyNext]_<<machine, airconVars, enrolment_vars, scheduleVars, clockVars>> => [A!Next]_A!aircon_vars
  BY DEF AnyNext, AirconSteps, EnrolmentSteps, ScheduleSteps, ClockSteps, airconVars, scheduleVars, clockVars,
     A!aircon_vars, A!history, A!memory, A!cloud, A!building
<1> QED
  BY <1>1, <1>2, PTL DEF AnySpec, A!Spec

LEMMA OfEnrolment == AnySpec => Spec
<1>1. AnyInit => Init
  BY DEF AnyInit
<1>2. [AnyNext]_<<machine, airconVars, enrolment_vars, scheduleVars, clockVars>> => [Next]_enrolment_vars
  BY DEF AnyNext, AirconSteps, EnrolmentSteps, ScheduleSteps, ClockSteps, airconVars, scheduleVars, clockVars,
     enrolment_vars, places
<1> QED
  BY <1>1, <1>2, PTL DEF AnySpec, Spec

LEMMA OfSchedules == AnySpec => S!Spec
<1>1. AnyInit => S!Init
  BY DEF AnyInit
<1>2. [AnyNext]_<<machine, airconVars, enrolment_vars, scheduleVars, clockVars>> => [S!Next]_S!schedulestore_vars
  BY DEF AnyNext, AirconSteps, EnrolmentSteps, ScheduleSteps, ClockSteps, airconVars, scheduleVars, clockVars,
     S!schedulestore_vars
<1> QED
  BY <1>1, <1>2, PTL DEF AnySpec, S!Spec

LEMMA OfClock == AnySpec => C!Spec
<1>1. AnyInit => C!Init
  BY DEF AnyInit
<1>2. [AnyNext]_<<machine, airconVars, enrolment_vars, scheduleVars, clockVars>> => [C!Next]_C!clock_vars
  BY DEF AnyNext, AirconSteps, EnrolmentSteps, ScheduleSteps, ClockSteps, airconVars, scheduleVars, clockVars,
     C!clock_vars
<1> QED
  BY <1>1, <1>2, PTL DEF AnySpec, C!Spec

-----------------------------------------------------------------------------
(***************************************************************************)
(* The aircon loop.                                                        *)
(***************************************************************************)

Temp == A!Setpoint \cup {A!NoC}
Times == A!None..now

RowOK(r) ==
  DOMAIN r = {"row", "c", "at", "dir", "alert"} /\ r.row \in BOOLEAN /\ r.c \in Temp /\ r.at \in Times
PatchOK(p) ==
  /\ DOMAIN p \subseteq {"c", "at", "dir", "alert"}
  /\ "c" \in DOMAIN p => p.c \in Temp
  /\ "at" \in DOMAIN p => p.at \in Times

AirTypes ==
  /\ now \in 0..MaxNow
  /\ DOMAIN unit = {"on", "c"} /\ unit.on \in BOOLEAN /\ unit.c \in A!Setpoint /\ reading.c \in A!Setpoint
  /\ RowOK(saved) /\ RowOK(read.row)
  /\ DOMAIN mem = {"c", "at", "dir", "alert", "writable"}
  /\ mem.c \in Temp /\ mem.at \in Times /\ mem.writable \in BOOLEAN
  /\ request.open \in BOOLEAN /\ PatchOK(request.patch)
  /\ pending.open \in BOOLEAN /\ PatchOK(pending.patch)
  /\ commands.at \in Times /\ unsent.at \in Times /\ recent.at \in Times /\ read.newest.at \in Times
  /\ lastStep \in Times /\ behind \subseteq {"read", "crash"}

\* What is not under way says nothing, what is goes over what waits, and nothing is
\* read of a row that is not there.
Waiting ==
  /\ ~request.open => DOMAIN request.patch = {}
  /\ ~pending.open => DOMAIN pending.patch = {}
  /\ request.open => DOMAIN pending.patch \subseteq DOMAIN request.patch
  /\ ~saved.row => saved.c = A!NoC /\ saved.at = A!None /\ saved.dir = "none" /\ saved.alert = "none" /\ ~read.row.row

\* The i-th job writes the field.
Writes(i, field) == jobs[i].kind = "write" /\ field \in DOMAIN jobs[i].patch

\* A pass takes no time; it writes an alert before it tells it, tells one at most, and
\* its command or reason is the last it does.
JobOK(i) ==
  /\ jobs[i].kind = "write" => PatchOK(jobs[i].patch)
  /\ Writes(i, "at") => jobs[i].patch.at = now
  /\ Writes(i, "alert") => /\ i + 1 \in DOMAIN jobs /\ jobs[i + 1].kind = "tell"
                           /\ jobs[i + 1].alert = jobs[i].patch.alert
  /\ jobs[i].kind = "tell" => /\ i = 1 \/ Writes(i - 1, "alert")
                              /\ \A j \in DOMAIN jobs : jobs[j].kind = "tell" => j = i
  /\ jobs[i].kind = "fire" => jobs[i].to \in Temp
  /\ jobs[i].kind = "fire" /\ jobs[i].source = "acu_loop" => i = Len(jobs) /\ jobs[i].at = now
  /\ jobs[i].kind \in {"plan", "reason"} => i = Len(jobs)

IsSeq(s) == \E T : s \in Seq(T)

JobsOK == IsSeq(jobs) /\ \A i \in DOMAIN jobs : JobOK(i)

\* A field of the row, once all that is under way and waits is saved.
Due(field) ==
  IF field \in DOMAIN request.patch THEN request.patch[field]
  ELSE IF field \in DOMAIN pending.patch THEN pending.patch[field] ELSE saved[field]

InStep ==
  "read" \notin behind \/ ~saved.row =>
    /\ mem.c = Due("c") /\ mem.dir = Due("dir") /\ mem.alert = Due("alert")
    /\ mem.at = Due("at") \/ Due("at") = A!None

\* The last step is saved, or is what is written next.
StepDue ==
  "crash" \notin behind /\ lastStep # A!None =>
    lastStep <= Due("at") \/ (1 \in DOMAIN jobs /\ Writes(1, "at"))

NoTell == \A i \in DOMAIN jobs : jobs[i].kind # "tell"

\* The alert the phone was told of is saved; one it is to be told of is another.
ToldDue ==
  /\ "crash" \notin behind =>
       /\ NoTell => told = Due("alert")
       /\ 1 \in DOMAIN jobs /\ jobs[1].kind = "tell" => jobs[1].alert = Due("alert")
  /\ behind = {} => \A i \in DOMAIN jobs : jobs[i].kind = "tell" => jobs[i].alert # told

AirInv == AirTypes /\ Waiting /\ JobsOK /\ InStep /\ StepDue /\ ToldDue

\* The jobs are a sequence, and the rest of them is.
LEMMA SeqFacts ==
  ASSUME NEW s, IsSeq(s)
  PROVE  /\ Len(s) \in Nat /\ DOMAIN s = 1..Len(s)
         /\ s # <<>> => /\ 1 \in DOMAIN s /\ Head(s) = s[1]
                        /\ IsSeq(Tail(s)) /\ Len(Tail(s)) = Len(s) - 1
                        /\ \A i \in 1..(Len(s) - 1) : Tail(s)[i] = s[i + 1]
<1>1. PICK T : s \in Seq(T)
  BY DEF IsSeq
<1>2. Len(s) \in Nat /\ DOMAIN s = 1..Len(s)
  BY <1>1
<1>3. ASSUME s # <<>>
      PROVE  /\ 1 \in DOMAIN s /\ Head(s) = s[1]
             /\ Tail(s) \in Seq(T) /\ Len(Tail(s)) = Len(s) - 1
             /\ \A i \in 1..(Len(s) - 1) : Tail(s)[i] = s[i + 1]
  BY <1>1, <1>3
<1> QED
  BY <1>2, <1>3 DEF IsSeq

LEMMA NoJobs == ASSUME jobs' = <<>> PROVE JobsOK' /\ NoTell' /\ DOMAIN jobs' = {}
<1>1. DOMAIN jobs' = {} /\ jobs' \in Seq({})
  OBVIOUS
<1> QED
  BY <1>1 DEF JobsOK, NoTell, IsSeq

\* The jobs after the first.
LEMMA JobsAfter ==
  ASSUME JobsOK, jobs # <<>>, jobs' = Tail(jobs), now' = now
  PROVE  /\ JobsOK' /\ Head(jobs) = jobs[1] /\ 1 \in DOMAIN jobs
         /\ \A i \in DOMAIN jobs' : i + 1 \in DOMAIN jobs /\ i + 1 # 1 /\ jobs'[i] = jobs[i + 1]
         /\ \A i \in DOMAIN jobs : i = 1 \/ (i - 1 \in DOMAIN jobs' /\ jobs'[i - 1] = jobs[i])
<1>1. /\ Len(jobs) \in Nat /\ DOMAIN jobs = 1..Len(jobs) /\ 1 \in DOMAIN jobs /\ Head(jobs) = jobs[1]
      /\ IsSeq(jobs') /\ Len(jobs') = Len(jobs) - 1
      /\ \A i \in 1..(Len(jobs) - 1) : jobs'[i] = jobs[i + 1]
  BY SeqFacts DEF JobsOK
<1>2. DOMAIN jobs' = 1..(Len(jobs) - 1)
  BY <1>1, SeqFacts
<1>3. \A i \in DOMAIN jobs' : i \in Nat /\ i + 1 \in DOMAIN jobs /\ i + 1 # 1 /\ jobs'[i] = jobs[i + 1]
  BY <1>1, <1>2
<1>4. \A i \in DOMAIN jobs : i = 1 \/ (i - 1 \in DOMAIN jobs' /\ jobs'[i - 1] = jobs[i])
  <2> SUFFICES ASSUME NEW i \in DOMAIN jobs, i # 1
               PROVE  i - 1 \in DOMAIN jobs' /\ jobs'[i - 1] = jobs[i]
    OBVIOUS
  <2>1. i - 1 \in 1..(Len(jobs) - 1) /\ (i - 1) + 1 = i
    BY <1>1
  <2> QED
    BY <1>1, <1>2, <2>1
<1>5. ASSUME NEW i \in DOMAIN jobs' PROVE JobOK(i)'
  <2>1. JobOK(i + 1) /\ jobs'[i] = jobs[i + 1] /\ i \in Nat
    BY <1>3 DEF JobsOK
  <2>2. \A p : PatchOK(p)' <=> PatchOK(p)
    BY DEF PatchOK, Times
  <2>3. Writes(i, "alert")' =>
          i + 1 \in DOMAIN jobs' /\ jobs'[i + 1].kind = "tell" /\ jobs'[i + 1].alert = jobs'[i].patch.alert
    <3>1. Writes(i, "alert")' =>
            (i + 1) + 1 \in DOMAIN jobs /\ jobs[(i + 1) + 1].kind = "tell"
            /\ jobs[(i + 1) + 1].alert = jobs[i + 1].patch.alert
      BY <2>1 DEF JobOK, Writes
    <3>2. (i + 1) + 1 \in DOMAIN jobs => i + 1 \in DOMAIN jobs' /\ jobs'[i + 1] = jobs[(i + 1) + 1]
      BY <1>1, <1>2, <2>1
    <3> QED
      BY <2>1, <3>1, <3>2
  <2>4. jobs'[i].kind = "tell" => i = 1 \/ Writes(i - 1, "alert")'
    <3> SUFFICES ASSUME jobs'[i].kind = "tell", i # 1 PROVE Writes(i - 1, "alert")'
      OBVIOUS
    <3>1. Writes((i + 1) - 1, "alert")
      <4>1. i + 1 # 1
        BY <2>1
      <4> QED
        BY <2>1, <4>1 DEF JobOK
    <3>2. (i + 1) - 1 = i /\ i - 1 \in DOMAIN jobs' /\ jobs'[i - 1] = jobs[i]
      <4>1. i \in DOMAIN jobs
        BY <1>1, <1>2
      <4> QED
        BY <1>4, <2>1, <4>1
    <3> QED
      BY <3>1, <3>2 DEF Writes
  <2>5. jobs'[i].kind = "tell" => \A j \in DOMAIN jobs' : jobs'[j].kind = "tell" => j = i
    <3> SUFFICES ASSUME jobs'[i].kind = "tell", NEW j \in DOMAIN jobs', jobs'[j].kind = "tell" PROVE j = i
      OBVIOUS
    <3>1. j + 1 = i + 1
      BY <1>3, <2>1 DEF JobOK
    <3> QED
      BY <1>3, <2>1, <3>1
  <2>6. i + 1 = Len(jobs) => i = Len(jobs')
    BY <1>1, <2>1
  <2> QED
    BY <2>1, <2>2, <2>3, <2>4, <2>5, <2>6 DEF JobOK, Writes
<1> QED
  BY <1>1, <1>3, <1>4, <1>5 DEF JobsOK

\* What keeps what is saved, waits and is to be done keeps the invariant.
LEMMA Elsewhere ==
  ASSUME AirInv, AirTypes', UNCHANGED <<now, saved, request, pending, jobs, mem, lastStep, told, behind>>,
         ~saved.row => ~read'.row.row
  PROVE  AirInv'
<1>1. Due("c")' = Due("c") /\ Due("at")' = Due("at") /\ Due("dir")' = Due("dir") /\ Due("alert")' = Due("alert")
  BY DEF Due
<1>2. Waiting'
  BY DEF Waiting, AirInv
<1>3. JobsOK'
  BY DEF JobsOK, JobOK, Writes, PatchOK, Times, AirInv
<1>4. InStep' /\ StepDue' /\ ToldDue'
  BY <1>1 DEF InStep, StepDue, ToldDue, NoTell, Writes, AirInv
<1> QED
  BY <1>2, <1>3, <1>4 DEF AirInv

\* A job that writes and tells nothing is done.
LEMMA JobDone ==
  ASSUME AirInv, AirTypes', UNCHANGED <<now, saved, request, pending, mem, lastStep, told, behind, read>>,
         jobs # <<>>, jobs[1].kind \notin {"write", "tell"}, jobs' = Tail(jobs)
  PROVE  AirInv'
<1>1. Due("c")' = Due("c") /\ Due("at")' = Due("at") /\ Due("dir")' = Due("dir") /\ Due("alert")' = Due("alert")
  BY DEF Due
<1>2. /\ JobsOK' /\ 1 \in DOMAIN jobs
      /\ \A i \in DOMAIN jobs' : i + 1 \in DOMAIN jobs /\ i + 1 # 1 /\ jobs'[i] = jobs[i + 1]
      /\ \A i \in DOMAIN jobs : i = 1 \/ (i - 1 \in DOMAIN jobs' /\ jobs'[i - 1] = jobs[i])
  BY JobsAfter DEF AirInv
<1>3. Waiting' /\ InStep'
  BY <1>1 DEF Waiting, InStep, AirInv
<1>4. StepDue'
  BY <1>1 DEF StepDue, Writes, AirInv
<1>5. ToldDue'
  <2>1. NoTell' => NoTell
    BY <1>2 DEF NoTell
  <2>2. 1 \in DOMAIN jobs' => jobs'[1].kind # "tell"
    <3>1. 1 + 1 \in DOMAIN jobs /\ jobs[1 + 1].kind = "tell" => Writes((1 + 1) - 1, "alert")
      BY DEF AirInv, JobsOK, JobOK
    <3>2. (1 + 1) - 1 = 1
      OBVIOUS
    <3> QED
      BY <1>2, <3>1, <3>2 DEF Writes
  <2> QED
    BY <1>1, <1>2, <2>1, <2>2 DEF ToldDue, AirInv
<1> QED
  BY <1>2, <1>3, <1>4, <1>5 DEF AirInv

\* A list of jobs that was empty, or had but one, that neither wrote nor told.
Simple == ~(\E i \in DOMAIN jobs : jobs[i].kind \in {"write", "tell"})

LEMMA SimpleDue ==
  ASSUME AirInv, Simple
  PROVE  "crash" \notin behind => (lastStep # A!None => lastStep <= Due("at")) /\ told = Due("alert")
BY DEF AirInv, Simple, StepDue, ToldDue, NoTell, Writes

\* Each step keeps the invariant, from here on.
LEMMA TickInv == ASSUME AirBounds, AirInv, A!Tick PROVE AirInv'
<1>1. /\ jobs = <<>>
      /\ UNCHANGED <<now, unit, reading, saved, commands, unsent, mem, pending, recent, request, read, lastStep,
                     told, behind>>
  BY DEF A!Tick, A!building, A!cloud, A!memory, A!history
<1>2. AirTypes'
  BY <1>1 DEF AirInv, AirTypes, RowOK, PatchOK, Times
<1>3. Due("c")' = Due("c") /\ Due("at")' = Due("at") /\ Due("dir")' = Due("dir") /\ Due("alert")' = Due("alert")
  BY <1>1 DEF Due
<1> DEFINE OfTick(s) ==
             /\ IsSeq(s) /\ DOMAIN s = 1..Len(s) /\ Len(s) \in {2, 3}
             /\ \A i \in DOMAIN s : \/ s[i].kind = "retry"
                                    \/ s[i].kind = "plan" /\ i = Len(s)
                                    \/ s[i].kind = "fire" /\ s[i].source = "schedule" /\ s[i].to \in Temp
<1>4. OfTick(jobs')
  <2>1. CASE jobs' = <<A!Retry, A!Plan>>
    <3>1. jobs' \in Seq({A!Retry, A!Plan}) /\ Len(jobs') = 2 /\ jobs'[1] = A!Retry /\ jobs'[2] = A!Plan
      BY <2>1
    <3>2. DOMAIN jobs' = 1..2 /\ \A i \in 1..2 : i = 1 \/ i = 2
      BY <3>1
    <3> QED
      BY <3>1, <3>2 DEF A!Retry, A!Plan, IsSeq
  <2>2. ASSUME NEW to \in {A!NoC, MaxC}, jobs' = <<A!Fire("schedule", to, "none", now), A!Retry, A!Plan>>
        PROVE  OfTick(jobs')
    <3>1. to \in Temp
      BY DEF AirBounds, Temp, A!Setpoint
    <3> DEFINE fire == A!Fire("schedule", to, "none", now)
    <3>2. /\ jobs' \in Seq({fire, A!Retry, A!Plan}) /\ Len(jobs') = 3
          /\ jobs'[1] = fire /\ jobs'[2] = A!Retry /\ jobs'[3] = A!Plan
      BY <2>2
    <3>3. DOMAIN jobs' = 1..3 /\ \A i \in 1..3 : i = 1 \/ i = 2 \/ i = 3
      BY <3>2
    <3>4. fire.kind = "fire" /\ fire.source = "schedule" /\ fire.to = to
      BY DEF A!Fire
    <3> HIDE DEF fire
    <3> QED
      BY <3>1, <3>2, <3>3, <3>4 DEF A!Retry, A!Plan, IsSeq
  <2> QED
    BY <2>1, <2>2 DEF A!Tick
<1>5. JobsOK' /\ NoTell' /\ Simple
  BY <1>1, <1>4 DEF JobsOK, JobOK, Writes, NoTell, Simple
<1>6. Waiting' /\ InStep'
  BY <1>1, <1>3 DEF AirInv, Waiting, InStep
<1>7. StepDue' /\ ToldDue'
  <2>1. 1 \in DOMAIN jobs' => jobs'[1].kind # "tell"
    BY <1>5 DEF NoTell
  <2> QED
    BY <1>1, <1>3, <1>5, <2>1, SimpleDue DEF StepDue, ToldDue, NoTell
<1> QED
  BY <1>2, <1>5, <1>6, <1>7 DEF AirInv

\* The only job left is the plan.
LEMMA PlanAlone == ASSUME JobsOK, jobs # <<>>, Head(jobs).kind = "plan" PROVE Simple /\ DOMAIN jobs = {1} /\ jobs[1].kind = "plan"
<1>1. jobs[1].kind = "plan" /\ 1 \in DOMAIN jobs /\ DOMAIN jobs = 1..Len(jobs) /\ Len(jobs) \in Nat
  BY SeqFacts DEF JobsOK
<1>2. Len(jobs) = 1
  BY <1>1 DEF JobsOK, JobOK
<1>3. DOMAIN jobs = 1..1
  BY <1>1, <1>2
<1>4. DOMAIN jobs = {1}
  BY <1>3
<1> QED
  BY <1>1, <1>4 DEF Simple

LEMMA ReadingFailsInv == ASSUME AirBounds, AirInv, A!ReadingFails PROVE AirInv'
<1>1. /\ jobs # <<>> /\ Head(jobs).kind = "plan" /\ jobs' = <<>>
      /\ UNCHANGED <<now, unit, reading, saved, commands, unsent, mem, pending, recent, request, read, lastStep,
                     told, behind>>
  BY DEF A!ReadingFails, A!Job, A!building, A!cloud, A!memory, A!history
<1>2. AirTypes'
  BY <1>1 DEF AirInv, AirTypes, RowOK, PatchOK, Times
<1>3. Due("c")' = Due("c") /\ Due("at")' = Due("at") /\ Due("dir")' = Due("dir") /\ Due("alert")' = Due("alert")
  BY <1>1 DEF Due
<1>4. JobsOK' /\ NoTell' /\ DOMAIN jobs' = {}
  BY <1>1, NoJobs
<1>5. Simple
  BY <1>1, PlanAlone DEF AirInv
<1>6. Waiting' /\ InStep'
  BY <1>1, <1>3 DEF AirInv, Waiting, InStep
<1>7. StepDue' /\ ToldDue'
  BY <1>1, <1>3, <1>4, <1>5, SimpleDue DEF StepDue, ToldDue, NoTell
<1> QED
  BY <1>2, <1>4, <1>6, <1>7 DEF AirInv

LEMMA TellPhoneInv == ASSUME AirBounds, AirInv, A!TellPhone PROVE AirInv'
<1>1. /\ jobs # <<>> /\ Head(jobs).kind = "tell" /\ told' = Head(jobs).alert /\ jobs' = Tail(jobs)
      /\ UNCHANGED <<now, unit, reading, saved, commands, unsent, mem, pending, recent, request, read, lastStep,
                     behind>>
  BY DEF A!TellPhone, A!Job, A!building, A!cloud, A!memory
<1>2. AirTypes'
  BY <1>1 DEF AirInv, AirTypes, RowOK, PatchOK, Times
<1>3. Due("c")' = Due("c") /\ Due("at")' = Due("at") /\ Due("dir")' = Due("dir") /\ Due("alert")' = Due("alert")
  BY <1>1 DEF Due
<1>4. /\ JobsOK' /\ 1 \in DOMAIN jobs /\ Head(jobs) = jobs[1]
      /\ \A i \in DOMAIN jobs' : i + 1 \in DOMAIN jobs /\ i + 1 # 1 /\ jobs'[i] = jobs[i + 1]
  BY <1>1, JobsAfter DEF AirInv
<1>5. \A i \in DOMAIN jobs' : jobs'[i].kind # "tell"
  BY <1>1, <1>4 DEF AirInv, JobsOK, JobOK
<1>6. Waiting' /\ InStep'
  BY <1>1, <1>3 DEF AirInv, Waiting, InStep
<1>7. StepDue'
  BY <1>1, <1>3, <1>4 DEF AirInv, StepDue, Writes
<1>8. "crash" \notin behind => told' = Due("alert")
  BY <1>1, <1>4 DEF AirInv, ToldDue
<1>9. ToldDue'
  BY <1>1, <1>3, <1>5, <1>8 DEF ToldDue
<1> QED
  BY <1>2, <1>4, <1>6, <1>7, <1>9 DEF AirInv

LEMMA NothingToRetryInv == ASSUME AirBounds, AirInv, A!NothingToRetry PROVE AirInv'
<1>1. /\ jobs # <<>> /\ Head(jobs).kind = "retry" /\ jobs' = Tail(jobs)
      /\ UNCHANGED <<now, unit, reading, saved, commands, unsent, mem, pending, recent, request, read, lastStep,
                     told, behind>>
  BY DEF A!NothingToRetry, A!Job, A!building, A!cloud, A!memory, A!history
<1>2. AirTypes'
  BY <1>1 DEF AirInv, AirTypes, RowOK, PatchOK, Times
<1>3. jobs[1].kind = "retry"
  BY <1>1, SeqFacts DEF AirInv, JobsOK
<1> QED
  BY <1>1, <1>2, <1>3, JobDone

LEMMA OneJob ==
  ASSUME NEW j
  PROVE  <<j>> \in Seq({j}) /\ Len(<<j>>) = 1 /\ <<j>>[1] = j /\ DOMAIN <<j>> = {1}
<1>1. <<j>> \in Seq({j}) /\ Len(<<j>>) = 1 /\ <<j>>[1] = j
  OBVIOUS
<1>2. DOMAIN <<j>> = 1..1
  BY <1>1
<1> QED
  BY <1>1, <1>2

\* The one job left becomes a write.
LEMMA LastWrite ==
  ASSUME IsSeq(jobs), jobs # <<>>, Len(jobs) = 1, NEW patch, jobs' = <<A!Write(patch)>> \o Tail(jobs),
         PatchOK(patch)', "alert" \notin DOMAIN patch, "at" \in DOMAIN patch => patch.at = now'
  PROVE  /\ JobsOK' /\ NoTell' /\ DOMAIN jobs' = {1} /\ jobs'[1].kind = "write" /\ jobs'[1].patch = patch
<1>1. Tail(jobs) = <<>>
  <2>1. IsSeq(Tail(jobs)) /\ Len(Tail(jobs)) = 0
    BY SeqFacts
  <2>2. PICK T : Tail(jobs) \in Seq(T)
    BY <2>1 DEF IsSeq
  <2> QED
    BY <2>1, <2>2, EmptySeq
<1>2. jobs' = <<A!Write(patch)>>
  <2>1. <<A!Write(patch)>> \in Seq({A!Write(patch)})
    OBVIOUS
  <2> QED
    BY <1>1, <2>1, ConcatEmptySeq
<1>3. IsSeq(jobs') /\ DOMAIN jobs' = {1} /\ Len(jobs') = 1 /\ jobs'[1] = A!Write(patch)
  <2> PICK w : w = A!Write(patch)
    OBVIOUS
  <2>1. jobs' = <<w>>
    BY <1>2
  <2>2. jobs' \in Seq({w}) /\ Len(jobs') = 1 /\ jobs'[1] = w /\ DOMAIN jobs' = {1}
    BY <2>1, OneJob
  <2> QED
    BY <2>2 DEF IsSeq
<1>4. jobs'[1].kind = "write" /\ jobs'[1].patch = patch
  BY <1>3 DEF A!Write
<1> QED
  BY <1>3, <1>4 DEF JobsOK, JobOK, Writes, NoTell

LEMMA SayReasonInv == ASSUME AirBounds, AirInv, A!SayReason PROVE AirInv'
<1>1. /\ jobs # <<>> /\ Head(jobs).kind = "reason"
      /\ jobs' = Tail(jobs) \/ jobs' = <<A!Write(A!Nothing)>> \o Tail(jobs)
      /\ UNCHANGED <<now, unit, reading, saved, commands, unsent, mem, pending, recent, request, read, lastStep,
                     told, behind>>
  BY DEF A!SayReason, A!Job, A!building, A!cloud, A!memory, A!history
<1>2. AirTypes'
  BY <1>1 DEF AirInv, AirTypes, RowOK, PatchOK, Times
<1>3. jobs[1].kind = "reason" /\ IsSeq(jobs) /\ Len(jobs) \in Nat /\ DOMAIN jobs = 1..Len(jobs) /\ 1 \in DOMAIN jobs
  BY <1>1, SeqFacts DEF AirInv, JobsOK
<1>4. CASE jobs' = Tail(jobs)
  BY <1>1, <1>2, <1>3, <1>4, JobDone
<1>5. CASE jobs' = <<A!Write(A!Nothing)>> \o Tail(jobs)
  <2>1. Due("c")' = Due("c") /\ Due("at")' = Due("at") /\ Due("dir")' = Due("dir") /\ Due("alert")' = Due("alert")
    BY <1>1 DEF Due
  <2>2. Len(jobs) = 1 /\ DOMAIN jobs = {1}
    <3>1. Len(jobs) = 1
      BY <1>3 DEF AirInv, JobsOK, JobOK
    <3> QED
      BY <1>3, <3>1
  <2>3. DOMAIN A!Nothing = {}
    BY DEF A!Nothing
  <2>4. PatchOK(A!Nothing)'
    BY <2>3 DEF PatchOK, A!Nothing
  <2>5. JobsOK' /\ NoTell' /\ DOMAIN jobs' = {1} /\ jobs'[1].kind = "write" /\ jobs'[1].patch = A!Nothing
    BY <1>1, <1>3, <1>5, <2>2, <2>3, <2>4, LastWrite
  <2>6. Simple
    BY <1>3, <2>2 DEF Simple
  <2>7. Waiting' /\ InStep'
    BY <1>1, <2>1 DEF AirInv, Waiting, InStep
  <2>8. StepDue' /\ ToldDue'
    BY <1>1, <2>1, <2>5, <2>6, SimpleDue DEF StepDue, ToldDue, NoTell
  <2> QED
    BY <1>2, <2>5, <2>7, <2>8 DEF AirInv
<1> QED
  BY <1>1, <1>4, <1>5

LEMMA FireCommandInv == ASSUME AirBounds, AirInv, A!FireCommand PROVE AirInv'
<1> DEFINE job == Head(jobs)
           cmd == [source |-> job.source, at |-> now]
           moved == [on |-> job.to # A!NoC, c |-> IF job.to # A!NoC THEN job.to ELSE unit.c]
           step == [c |-> job.to, at |-> job.at, dir |-> job.dir]
<1>1. /\ jobs # <<>> /\ job.kind = "fire"
      /\ UNCHANGED <<now, reading, saved, mem, pending, request, read, told, behind>>
  BY DEF A!FireCommand, A!Job
<1>2. /\ unit' = moved \/ unit' = unit
      /\ commands' = cmd \/ commands' = commands
      /\ unsent' = cmd \/ unsent' = unsent
      /\ recent' = cmd \/ recent' = recent
      /\ \/ job.source = "acu_loop" /\ jobs' = <<A!Write(step)>> \o Tail(jobs) /\ lastStep' = job.at
         \/ jobs' = Tail(jobs) /\ UNCHANGED lastStep
  BY DEF A!FireCommand
<1>3. job = jobs[1] /\ IsSeq(jobs) /\ Len(jobs) \in Nat /\ DOMAIN jobs = 1..Len(jobs) /\ 1 \in DOMAIN jobs
  BY <1>1, SeqFacts DEF AirInv, JobsOK
<1>4. job.to \in Temp
  BY <1>1, <1>3 DEF AirInv, JobsOK, JobOK
<1>5. cmd.at \in Times /\ now \in Times
  BY DEF AirInv, AirTypes, Times, A!None
<1>6. DOMAIN unit' = {"on", "c"} /\ unit'.on \in BOOLEAN /\ unit'.c \in A!Setpoint
  <2>1. DOMAIN moved = {"on", "c"} /\ moved.on \in BOOLEAN /\ moved.c \in A!Setpoint
    BY <1>4 DEF AirInv, AirTypes, Temp
  <2> HIDE DEF moved
  <2> QED
    BY <1>2, <2>1 DEF AirInv, AirTypes
<1> HIDE DEF job, cmd, moved
<1>7. ASSUME lastStep' \in Times PROVE AirTypes'
  BY <1>1, <1>2, <1>5, <1>6, <1>7 DEF AirInv, AirTypes, RowOK, PatchOK, Times
<1>8. CASE jobs' = Tail(jobs) /\ UNCHANGED lastStep
  <2>1. lastStep' \in Times
    BY <1>8 DEF AirInv, AirTypes
  <2> QED
    BY <1>1, <1>3, <1>7, <1>8, <2>1, JobDone
<1>9. CASE job.source = "acu_loop" /\ jobs' = <<A!Write(step)>> \o Tail(jobs) /\ lastStep' = job.at
  <2>1. Due("c")' = Due("c") /\ Due("at")' = Due("at") /\ Due("dir")' = Due("dir") /\ Due("alert")' = Due("alert")
    BY <1>1 DEF Due
  <2>2. Len(jobs) = 1 /\ DOMAIN jobs = {1} /\ job.at = now
    <3>1. Len(jobs) = 1 /\ job.at = now
      BY <1>1, <1>3, <1>9 DEF AirInv, JobsOK, JobOK
    <3> QED
      BY <1>3, <3>1
  <2>3. DOMAIN step = {"c", "at", "dir"} /\ step.c = job.to /\ step.at = now
    BY <2>2
  <2> PICK p : p = step
    OBVIOUS
  <2> HIDE DEF step
  <2>4. PatchOK(p)'
    BY <1>1, <1>4, <1>5, <2>3 DEF PatchOK, Times
  <2>5. JobsOK' /\ NoTell' /\ DOMAIN jobs' = {1} /\ jobs'[1].kind = "write" /\ jobs'[1].patch = p
    BY <1>1, <1>3, <1>9, <2>2, <2>3, <2>4, LastWrite
  <2>6. Simple
    BY <1>1, <1>3, <2>2 DEF Simple
  <2>7. Waiting' /\ InStep'
    BY <1>1, <2>1 DEF AirInv, Waiting, InStep
  <2>8. StepDue' /\ ToldDue'
    BY <1>1, <2>1, <2>3, <2>5, <2>6, SimpleDue DEF StepDue, ToldDue, NoTell, Writes
  <2> QED
    BY <1>5, <1>7, <1>9, <2>2, <2>5, <2>7, <2>8 DEF AirInv
<1> QED
  BY <1>2, <1>8, <1>9

LEMMA SnapshotInv == ASSUME AirBounds, AirInv, A!Snapshot PROVE AirInv'
<1>1. /\ read' = [open |-> TRUE, row |-> saved, newest |-> commands]
      /\ UNCHANGED <<now, unit, reading, saved, commands, unsent, mem, pending, recent, jobs, request, lastStep,
                     told, behind>>
  BY DEF A!Snapshot, A!building, A!cloud, A!memory, A!history
<1>2. AirTypes'
  BY <1>1 DEF AirInv, AirTypes, RowOK, PatchOK, Times
<1> QED
  BY <1>1, <1>2, Elsewhere

LEMMA PollInv == ASSUME AirBounds, AirInv, A!Poll PROVE AirInv'
<1>1. /\ reading' = unit
      /\ UNCHANGED <<now, unit, saved, commands, unsent, mem, pending, recent, jobs, request, read, lastStep, told,
                     behind>>
  BY DEF A!Poll, A!cloud, A!memory, A!history
<1>2. AirTypes'
  BY <1>1 DEF AirInv, AirTypes, RowOK, PatchOK, Times
<1> QED
  BY <1>1, <1>2, Elsewhere DEF AirInv, Waiting

LEMMA FlushInv == ASSUME AirBounds, AirInv, A!Flush PROVE AirInv'
<1>1. /\ commands' = commands \/ commands' = unsent
      /\ unsent' = A!NoCommand
      /\ UNCHANGED <<now, unit, reading, saved, mem, pending, recent, jobs, request, read, lastStep, told, behind>>
  BY DEF A!Flush, A!Newer, A!building, A!memory, A!history
<1>2. A!NoCommand.at \in Times
  BY DEF AirInv, AirTypes, Times, A!None, A!NoCommand
<1>3. AirTypes'
  BY <1>1, <1>2 DEF AirInv, AirTypes, RowOK, PatchOK, Times
<1> QED
  BY <1>1, <1>3, Elsewhere DEF AirInv, Waiting

LEMMA SomebodyElseInv == ASSUME AirBounds, AirInv, A!SomebodyElse PROVE AirInv'
<1> DEFINE app == [source |-> "app", at |-> now]
<1>1. /\ \/ unit' = [unit EXCEPT !.on = ~unit.on]
         \/ \E c \in A!Setpoint : unit' = [unit EXCEPT !.c = c]
      /\ commands' \in {commands, app}
      /\ UNCHANGED <<now, reading, saved, unsent, mem, pending, recent, jobs, request, read, lastStep, told, behind>>
  BY DEF A!SomebodyElse, A!memory, A!history
<1>2. DOMAIN unit' = {"on", "c"} /\ unit'.on \in BOOLEAN /\ unit'.c \in A!Setpoint
  BY <1>1 DEF AirInv, AirTypes
<1>3. app.at \in Times
  BY DEF AirInv, AirTypes, Times, A!None
<1> HIDE DEF app
<1>4. commands'.at \in Times
  BY <1>1, <1>3 DEF AirInv, AirTypes
<1>5. AirTypes'
  BY <1>1, <1>2, <1>4 DEF AirInv, AirTypes, RowOK, PatchOK, Times
<1> QED
  BY <1>1, <1>5, Elsewhere DEF AirInv, Waiting

LEMMA TimePassesInv == ASSUME AirBounds, AirInv, A!TimePasses PROVE AirInv'
<1>1. /\ jobs = <<>> /\ now < MaxNow /\ now' = now + 1
      /\ UNCHANGED <<unit, reading, saved, commands, unsent, mem, pending, recent, jobs, request, read, lastStep,
                     told, behind>>
  BY DEF A!TimePasses, A!cloud, A!memory, A!history
<1>2. now' \in 0..MaxNow /\ Times \subseteq Times'
  BY <1>1 DEF AirInv, AirTypes, AirBounds, Times, A!None
<1>3. AirTypes'
  BY <1>1, <1>2 DEF AirInv, AirTypes, RowOK, PatchOK
<1>4. Due("c")' = Due("c") /\ Due("at")' = Due("at") /\ Due("dir")' = Due("dir") /\ Due("alert")' = Due("alert")
  BY <1>1 DEF Due
<1>5. JobsOK' /\ NoTell' /\ DOMAIN jobs' = {}
  BY <1>1, NoJobs
<1>6. Waiting' /\ InStep'
  BY <1>1, <1>4 DEF AirInv, Waiting, InStep
<1>7. StepDue' /\ ToldDue'
  BY <1>1, <1>4, <1>5 DEF AirInv, StepDue, ToldDue, NoTell
<1> QED
  BY <1>3, <1>5, <1>6, <1>7 DEF AirInv

\* What was written and what waits again differ in nothing that is due.
LEMMA WroteInv == ASSUME AirBounds, AirInv, A!Wrote PROVE AirInv'
<1>1. /\ request.open /\ request' = A!NoPatch
      /\ saved' = saved \/ saved' = A!Save(request.patch)
      /\ \/ saved' = A!Save(request.patch) /\ pending' = A!NoPatch
         \/ pending' = [open |-> TRUE, patch |-> request.patch]
      /\ \E ok \in BOOLEAN : mem' = [mem EXCEPT !.writable = ok]
      /\ UNCHANGED <<now, unit, reading, commands, unsent, recent, jobs, read, lastStep, told, behind>>
  BY DEF A!Wrote, A!building, A!history
<1>2. /\ DOMAIN mem' = {"c", "at", "dir", "alert", "writable"} /\ mem'.writable \in BOOLEAN
      /\ mem'.c = mem.c /\ mem'.at = mem.at /\ mem'.dir = mem.dir /\ mem'.alert = mem.alert
  BY <1>1 DEF AirInv, AirTypes
<1>3. DOMAIN saved = {"row", "c", "at", "dir", "alert"} /\ DOMAIN request.patch \subseteq {"c", "at", "dir", "alert"}
  BY DEF AirInv, AirTypes, RowOK, PatchOK
<1> DEFINE out == request.patch
           row == A!Save(out)
<1>4. /\ DOMAIN row = DOMAIN saved /\ row.row = TRUE
      /\ \A f \in {"c", "at", "dir", "alert"} : row[f] = IF f \in DOMAIN out THEN out[f] ELSE saved[f]
  BY <1>3 DEF A!Save, A!Patched
<1>5. DOMAIN A!NoPatch.patch = {} /\ A!NoPatch.open = FALSE
  BY DEF A!NoPatch, A!Nothing
<1>6. request'.open = FALSE /\ DOMAIN request'.patch = {}
  BY <1>1, <1>5
<1>7. \/ saved' = row /\ pending'.open = FALSE /\ DOMAIN pending'.patch = {}
      \/ (saved' = saved \/ saved' = row) /\ pending'.open = TRUE /\ pending'.patch = out
  BY <1>1, <1>5
<1> HIDE DEF row
<1>8. RowOK(row)
  BY <1>3, <1>4 DEF AirInv, AirTypes, RowOK, PatchOK
<1>9. AirTypes'
  <2>1. RowOK(saved')
    BY <1>7, <1>8 DEF AirInv, AirTypes
  <2>3. request'.open \in BOOLEAN /\ pending'.open \in BOOLEAN /\ PatchOK(request'.patch) /\ PatchOK(pending'.patch)
    BY <1>6, <1>7 DEF AirInv, AirTypes, PatchOK
  <2> QED
    BY <1>1, <1>2, <2>1, <2>3 DEF AirInv, AirTypes, RowOK, PatchOK, Times
<1>10. \A f \in {"c", "at", "dir", "alert"} : Due(f)' = Due(f)
  <2> SUFFICES ASSUME NEW f \in {"c", "at", "dir", "alert"} PROVE Due(f)' = Due(f)
    OBVIOUS
  <2>1. Due(f) = IF f \in DOMAIN out THEN out[f] ELSE saved[f]
    BY <1>1 DEF AirInv, Waiting, Due
  <2>2. Due(f)' = IF f \in DOMAIN pending'.patch THEN pending'.patch[f] ELSE saved'[f]
    BY <1>6 DEF Due
  <2> QED
    BY <1>4, <1>7, <2>1, <2>2
<1>11. Waiting'
  <2>1. saved'.row = FALSE => saved' = saved
    BY <1>4, <1>7
  <2>2. saved'.row \in BOOLEAN
    BY <1>9 DEF AirTypes, RowOK
  <2> QED
    BY <1>1, <1>6, <1>7, <2>1, <2>2 DEF AirInv, Waiting
<1>12. JobsOK'
  BY <1>1 DEF AirInv, JobsOK, JobOK, Writes, PatchOK, Times
<1>13. InStep'
  <2>1. ~saved'.row => ~saved.row
    BY <1>4, <1>7
  <2> QED
    BY <1>1, <1>2, <1>10, <2>1 DEF AirInv, InStep
<1>14. StepDue' /\ ToldDue'
  BY <1>1, <1>10 DEF AirInv, StepDue, ToldDue, NoTell, Writes
<1> QED
  BY <1>9, <1>11, <1>12, <1>13, <1>14 DEF AirInv

LEMMA ReadNothing ==
  ASSUME AirTypes
  PROVE  /\ A!NoRead.row.row = FALSE /\ RowOK(A!NoRead.row) /\ A!NoRead.newest.at \in Times /\ A!NoCommand.at \in Times
<1>1. A!None \in Times /\ A!NoC \in Temp
  BY DEF AirTypes, Times, A!None, Temp
<1>2. RowOK(A!NoRow) /\ A!NoRow.row = FALSE /\ A!NoCommand.at \in Times
  BY <1>1 DEF RowOK, A!NoRow, A!NoCommand
<1>3. A!NoRead.row = A!NoRow /\ A!NoRead.newest = A!NoCommand
  BY DEF A!NoRead
<1> QED
  BY <1>2, <1>3

LEMMA ApplyInv == ASSUME AirBounds, AirInv, A!Apply PROVE AirInv'
<1>1. /\ read' = A!NoRead /\ mem' = A!Rebuilt(read.row) /\ recent' = read.newest
      /\ behind' = IF A!Overtaken THEN behind \cup {"read"}
                   ELSE IF jobs = <<>> THEN behind \ {"read"} ELSE behind
      /\ UNCHANGED <<now, unit, reading, saved, commands, unsent, pending, jobs, request, lastStep, told>>
  BY DEF A!Apply, A!building, A!cloud
<1> DEFINE row == read.row
           waits == pending.patch
<1>2. /\ DOMAIN mem = {"c", "at", "dir", "alert", "writable"}
      /\ DOMAIN row = {"row", "c", "at", "dir", "alert"} /\ row.row \in BOOLEAN
      /\ DOMAIN waits \subseteq {"c", "at", "dir", "alert"}
  BY DEF AirInv, AirTypes, RowOK, PatchOK
<1>3. ASSUME row.row
      PROVE  /\ DOMAIN mem' = DOMAIN mem /\ mem'.writable = mem.writable
             /\ \A f \in {"c", "at", "dir", "alert"} : mem'[f] = IF f \in DOMAIN waits THEN waits[f] ELSE row[f]
  <2> DEFINE base == A!Patched(mem, row)
  <2>1. /\ DOMAIN base = DOMAIN mem /\ base.writable = mem.writable
        /\ \A f \in {"c", "at", "dir", "alert"} : base[f] = row[f]
    BY <1>2 DEF A!Patched
  <2>2. mem' = A!Patched(base, waits)
    BY <1>1, <1>3 DEF A!Rebuilt
  <2> HIDE DEF base
  <2> QED
    BY <1>2, <2>1, <2>2 DEF A!Patched
<1>4. ~row.row => mem' = mem
  BY <1>1 DEF A!Rebuilt
<1>5. A!NoRead.row.row = FALSE /\ RowOK(A!NoRead.row) /\ A!NoRead.newest.at \in Times
  BY ReadNothing DEF AirInv
<1>6. AirTypes'
  <2>1. /\ DOMAIN mem' = {"c", "at", "dir", "alert", "writable"}
        /\ mem'.c \in Temp /\ mem'.at \in Times /\ mem'.writable \in BOOLEAN
    BY <1>2, <1>3, <1>4 DEF AirInv, AirTypes, RowOK, PatchOK
  <2>2. RowOK(read'.row) /\ read'.newest.at \in Times /\ recent'.at \in Times /\ behind' \subseteq {"read", "crash"}
    BY <1>1, <1>5 DEF AirInv, AirTypes
  <2> QED
    BY <1>1, <2>1, <2>2 DEF AirInv, AirTypes, RowOK, PatchOK, Times
<1>7. \A f \in {"c", "at", "dir", "alert"} : Due(f)' = Due(f)
  BY <1>1 DEF Due
<1>8. Waiting'
  BY <1>1, <1>5 DEF AirInv, Waiting
<1>9. JobsOK'
  BY <1>1 DEF AirInv, JobsOK, JobOK, Writes, PatchOK, Times
<1>10. InStep'
  <2>1. CASE ~row.row
    <3>1. "read" \notin behind' => "read" \notin behind \/ (saved = row /\ ~request.open)
      BY <1>1 DEF A!Overtaken
    <3> QED
      BY <1>1, <1>4, <1>7, <2>1, <3>1 DEF AirInv, InStep
  <2>2. CASE row.row /\ A!Overtaken
    <3>1. "read" \in behind' /\ saved.row
      BY <1>1, <2>2 DEF AirInv, Waiting
    <3> QED
      BY <1>1, <3>1 DEF InStep
  <2>3. CASE row.row /\ ~A!Overtaken
    <3>1. row = saved /\ ~request.open
      BY <2>3 DEF A!Overtaken
    <3>2. \A f \in {"c", "at", "dir", "alert"} : Due(f) = IF f \in DOMAIN waits THEN waits[f] ELSE row[f]
      BY <3>1 DEF AirInv, Waiting, Due
    <3> QED
      BY <1>3, <1>7, <2>3, <3>2 DEF InStep
  <2> QED
    BY <1>2, <2>1, <2>2, <2>3
<1>11. "crash" \in behind <=> "crash" \in behind'
  BY <1>1
<1>12. behind' = {} => behind = {} \/ jobs = <<>>
  BY <1>1
<1>13. StepDue' /\ ToldDue'
  <2>1. jobs = <<>> => DOMAIN jobs = {}
    OBVIOUS
  <2> QED
    BY <1>1, <1>7, <1>11, <1>12, <2>1 DEF AirInv, StepDue, ToldDue, NoTell, Writes
<1> QED
  BY <1>6, <1>8, <1>9, <1>10, <1>13 DEF AirInv

LEMMA AirRestartInv == ASSUME AirBounds, AirInv, A!Restart PROVE AirInv'
<1>1. /\ jobs' = <<>> /\ request' = A!NoPatch /\ pending' = A!NoPatch /\ read' = A!NoRead
      /\ \/ /\ mem' = IF saved.row THEN A!Patched(A!Fresh(now), saved) ELSE A!Fresh(now)
            /\ recent' = commands
            /\ behind' = (behind \ {"read"}) \cup (IF A!Unsaved THEN {"crash"} ELSE {})
         \/ /\ mem' = A!Fresh(now) /\ recent' = A!NoCommand
            /\ behind' = behind \cup {"read"} \cup (IF A!Unsaved THEN {"crash"} ELSE {})
      /\ UNCHANGED <<now, unit, reading, saved, commands, unsent, lastStep, told>>
  BY DEF A!Restart, A!building, A!cloud
<1>2. /\ DOMAIN request'.patch = {} /\ request'.open = FALSE /\ DOMAIN pending'.patch = {} /\ pending'.open = FALSE
  BY <1>1 DEF A!NoPatch, A!Nothing
<1>3. /\ read'.row.row = FALSE /\ RowOK(read'.row) /\ read'.newest.at \in Times /\ A!NoCommand.at \in Times
  <2>1. RowOK(A!NoRead.row) /\ A!NoRead.row.row = FALSE /\ A!NoRead.newest.at \in Times /\ A!NoCommand.at \in Times
    BY ReadNothing DEF AirInv
  <2> QED
    BY <1>1, <2>1 DEF RowOK, Times
<1> DEFINE fresh == A!Fresh(now)
<1>4. /\ DOMAIN fresh = {"c", "at", "dir", "alert", "writable"}
      /\ fresh.c = A!NoC /\ fresh.at = now /\ fresh.dir = "none" /\ fresh.alert = "none" /\ fresh.writable = TRUE
  BY DEF A!Fresh
<1>5. DOMAIN saved = {"row", "c", "at", "dir", "alert"}
  BY DEF AirInv, AirTypes, RowOK
<1> DEFINE again == A!Patched(fresh, saved)
<1>6. /\ DOMAIN again = DOMAIN fresh /\ again.writable = TRUE
      /\ again.c = saved.c /\ again.at = saved.at /\ again.dir = saved.dir /\ again.alert = saved.alert
  <2> HIDE DEF fresh
  <2> QED
    BY <1>4, <1>5 DEF A!Patched
<1>7. mem' = fresh \/ (saved.row /\ mem' = again)
  BY <1>1
<1>8. ~saved.row => mem' = fresh
  BY <1>1
<1>9. "read" \notin behind' /\ saved.row => mem' = again
  BY <1>1
<1> HIDE DEF fresh, again
<1>10. AirTypes'
  <2>1. A!NoC \in Temp /\ now \in Times
    BY DEF Temp, AirInv, AirTypes, Times, A!None
  <2>2. /\ DOMAIN mem' = {"c", "at", "dir", "alert", "writable"}
        /\ mem'.c \in Temp /\ mem'.at \in Times /\ mem'.writable \in BOOLEAN
    BY <1>4, <1>6, <1>7, <2>1 DEF AirInv, AirTypes, RowOK
  <2>3. recent'.at \in Times /\ behind' \subseteq {"read", "crash"}
    BY <1>1, <1>3 DEF AirInv, AirTypes
  <2> QED
    BY <1>1, <1>2, <1>3, <2>2, <2>3 DEF AirInv, AirTypes, RowOK, PatchOK, Times
<1>11. \A f \in {"c", "at", "dir", "alert"} : Due(f)' = saved[f]
  BY <1>1, <1>2 DEF Due
<1>12. Waiting'
  BY <1>1, <1>2, <1>3 DEF AirInv, Waiting
<1>13. JobsOK' /\ NoTell' /\ DOMAIN jobs' = {}
  BY <1>1, NoJobs
<1>14. InStep'
  BY <1>1, <1>4, <1>6, <1>8, <1>9, <1>11 DEF AirInv, InStep, Waiting
<1>15. ASSUME "crash" \notin behind'
       PROVE  /\ "crash" \notin behind /\ \A f \in {"c", "at", "dir", "alert"} : Due(f) = saved[f]
              /\ \A i \in DOMAIN jobs : jobs[i].kind \notin {"write", "tell"}
  <2>1. ~A!Unsaved /\ "crash" \notin behind
    BY <1>1, <1>15
  <2> QED
    BY <2>1 DEF A!Unsaved, AirInv, Waiting, Due
<1>16. StepDue' /\ ToldDue'
  BY <1>1, <1>11, <1>13, <1>15 DEF AirInv, StepDue, ToldDue, NoTell, Writes
<1> QED
  BY <1>10, <1>12, <1>13, <1>14, <1>16 DEF AirInv

\* What is decided goes over what is due and over what memory holds alike.
LEMMA StartWriteInv ==
  ASSUME AirBounds, AirInv, NEW due \in BOOLEAN, A!StartWrite(due)
  PROVE  AirInv'
<1> DEFINE patch == IF A!Job("write") THEN Head(jobs).patch ELSE A!Nothing
           merged == A!Joined(patch, pending.patch)
<1>1. /\ A!Job("write") \/ A!Job("retry")
      /\ \/ request' = [open |-> TRUE, patch |-> merged] /\ mem' = A!Patched(mem, patch) /\ pending' = pending
         \/ /\ pending' = [open |-> TRUE, patch |-> merged] /\ mem' = [A!Patched(mem, patch) EXCEPT !.writable = FALSE]
            /\ request' = request
      /\ jobs' = Tail(jobs)
      /\ UNCHANGED <<now, unit, reading, saved, commands, unsent, recent, read, lastStep, told, behind>>
  BY DEF A!StartWrite, A!TakenUp, A!building, A!cloud, A!history
<1>2. /\ jobs # <<>> /\ ~request.open /\ DOMAIN request.patch = {}
  BY <1>1 DEF A!Job, AirInv, Waiting
<1>3. /\ JobsOK' /\ Head(jobs) = jobs[1] /\ 1 \in DOMAIN jobs
      /\ \A i \in DOMAIN jobs' : i + 1 \in DOMAIN jobs /\ i + 1 # 1 /\ jobs'[i] = jobs[i + 1]
      /\ \A i \in DOMAIN jobs : i = 1 \/ (i - 1 \in DOMAIN jobs' /\ jobs'[i - 1] = jobs[i])
  BY <1>1, <1>2, JobsAfter DEF AirInv
<1>4. jobs[1].kind \in {"write", "retry"}
  BY <1>1, <1>3 DEF A!Job
<1>5. IF jobs[1].kind = "write" THEN patch = jobs[1].patch ELSE DOMAIN patch = {}
  BY <1>2, <1>3 DEF A!Job, A!Nothing
<1> HIDE DEF patch
<1>6. /\ PatchOK(patch) /\ ("at" \in DOMAIN patch => patch.at = now)
      /\ \A f : f \in DOMAIN patch <=> Writes(1, f)
  <2>1. CASE jobs[1].kind = "write"
    BY <1>3, <1>5, <2>1 DEF AirInv, JobsOK, JobOK, Writes
  <2>2. CASE jobs[1].kind # "write"
    BY <1>5, <2>2 DEF Writes, PatchOK
  <2> QED
    BY <2>1, <2>2
<1>7. /\ DOMAIN merged = DOMAIN patch \cup DOMAIN pending.patch
      /\ \A f \in DOMAIN merged : merged[f] = IF f \in DOMAIN patch THEN patch[f] ELSE pending.patch[f]
  BY DEF A!Joined
<1> HIDE DEF merged
<1>8. PatchOK(merged)
  BY <1>6, <1>7 DEF AirInv, AirTypes, PatchOK
<1>9. /\ DOMAIN mem' = {"c", "at", "dir", "alert", "writable"} /\ mem'.writable \in BOOLEAN
      /\ \A f \in {"c", "at", "dir", "alert"} : mem'[f] = IF f \in DOMAIN patch THEN patch[f] ELSE mem[f]
  <2> DEFINE base == A!Patched(mem, patch)
  <2>1. /\ DOMAIN base = {"c", "at", "dir", "alert", "writable"} /\ base.writable \in BOOLEAN
        /\ \A f \in {"c", "at", "dir", "alert"} : base[f] = IF f \in DOMAIN patch THEN patch[f] ELSE mem[f]
    BY <1>6 DEF AirInv, AirTypes, PatchOK, A!Patched
  <2> HIDE DEF base
  <2>2. mem' = base \/ mem' = [base EXCEPT !.writable = FALSE]
    BY <1>1 DEF base
  <2> QED
    BY <2>1, <2>2
<1>10. /\ mem'.c = (IF "c" \in DOMAIN patch THEN patch.c ELSE mem.c)
       /\ mem'.at = (IF "at" \in DOMAIN patch THEN patch.at ELSE mem.at)
       /\ mem'.dir = (IF "dir" \in DOMAIN patch THEN patch.dir ELSE mem.dir)
       /\ mem'.alert = (IF "alert" \in DOMAIN patch THEN patch.alert ELSE mem.alert)
  BY <1>9
<1>11. \/ request'.open = TRUE /\ request'.patch = merged /\ pending' = pending
       \/ pending'.open = TRUE /\ pending'.patch = merged /\ request' = request
  BY <1>1
<1>12. AirTypes'
  <2>1. mem'.c \in Temp /\ mem'.at \in Times
    BY <1>6, <1>10 DEF AirInv, AirTypes, PatchOK
  <2> QED
    BY <1>1, <1>8, <1>9, <1>11, <2>1 DEF AirInv, AirTypes, RowOK, PatchOK, Times
<1>13. \A f \in {"c", "at", "dir", "alert"} : Due(f)' = IF f \in DOMAIN patch THEN patch[f] ELSE Due(f)
  BY <1>1, <1>2, <1>7, <1>11 DEF Due
<1>14. /\ Due("c")' = (IF "c" \in DOMAIN patch THEN patch.c ELSE Due("c"))
       /\ Due("at")' = (IF "at" \in DOMAIN patch THEN patch.at ELSE Due("at"))
       /\ Due("dir")' = (IF "dir" \in DOMAIN patch THEN patch.dir ELSE Due("dir"))
       /\ Due("alert")' = (IF "alert" \in DOMAIN patch THEN patch.alert ELSE Due("alert"))
  BY <1>13
<1>15. Waiting'
  BY <1>1, <1>2, <1>7, <1>11 DEF AirInv, Waiting
<1>16. InStep'
  BY <1>1, <1>10, <1>14 DEF AirInv, InStep
<1>17. StepDue'
  <2>1. lastStep \in Times /\ now \in Nat
    BY DEF AirInv, AirTypes
  <2>2. lastStep <= now
    BY <2>1 DEF Times, A!None
  <2> QED
    BY <1>1, <1>6, <1>14, <2>2 DEF AirInv, StepDue
<1>18. ToldDue'
  <2>1. CASE "alert" \in DOMAIN patch
    <3>1. 1 + 1 \in DOMAIN jobs /\ jobs[1 + 1].kind = "tell" /\ jobs[1 + 1].alert = patch.alert
      BY <1>3, <1>5, <1>6, <2>1 DEF AirInv, JobsOK, JobOK, Writes
    <3>2. 1 \in DOMAIN jobs' /\ jobs'[1] = jobs[1 + 1]
      BY <1>3, <3>1
    <3>3. ~NoTell' /\ jobs'[1].alert = Due("alert")'
      BY <1>14, <2>1, <3>1, <3>2 DEF NoTell
    <3>4. behind' = {} => \A i \in DOMAIN jobs' : jobs'[i].kind = "tell" => jobs'[i].alert # told'
      BY <1>1, <1>3 DEF AirInv, ToldDue
    <3> QED
      BY <3>3, <3>4 DEF ToldDue
  <2>2. CASE "alert" \notin DOMAIN patch
    <3>1. NoTell' => NoTell
      BY <1>3, <1>4 DEF NoTell
    <3>2. 1 \in DOMAIN jobs' => jobs'[1].kind # "tell"
      <4>1. 1 + 1 \in DOMAIN jobs /\ jobs[1 + 1].kind = "tell" => Writes((1 + 1) - 1, "alert")
        BY DEF AirInv, JobsOK, JobOK
      <4>2. (1 + 1) - 1 = 1
        OBVIOUS
      <4> QED
        BY <1>3, <1>6, <2>2, <4>1, <4>2
    <3> QED
      BY <1>1, <1>3, <1>14, <2>2, <3>1, <3>2 DEF AirInv, ToldDue
  <2> QED
    BY <2>1, <2>2
<1> QED
  BY <1>3, <1>12, <1>15, <1>16, <1>17, <1>18 DEF AirInv

\* A step stays within the range of the unit.
LEMMA SteppedWithin ==
  ASSUME AirBounds, NEW base \in A!Setpoint, NEW dir, ~A!AtLimit(base, dir)
  PROVE  A!Stepped(base, dir) \in A!Setpoint
<1>1. base \in Int /\ MinC <= base /\ base <= MaxC /\ MinC \in Int /\ MaxC \in Int /\ StepC \in Nat
  BY DEF A!Setpoint, AirBounds
<1>2. CASE dir = "down"
  <2>1. A!Stepped(base, dir) = IF base - StepC < MinC THEN MinC ELSE base - StepC
    BY <1>2 DEF A!Stepped
  <2> QED
    BY <1>1, <2>1 DEF A!Setpoint
<1>3. CASE dir # "down"
  <2>1. A!Stepped(base, dir) = IF base + StepC > MaxC THEN MaxC ELSE base + StepC
    BY <1>3 DEF A!Stepped
  <2> QED
    BY <1>1, <2>1 DEF A!Setpoint
<1> QED
  BY <1>2, <1>3

\* A step stays within the unit's range and comes an interval after the last one.
LEMMA Decided ==
  ASSUME AirBounds, AirTypes, NEW room \in Room
  PROVE  /\ A!Decide(room).to \in Temp
         /\ A!Decide(room).to # A!NoC => A!SinceStep >= Interval
<1> DEFINE base == IF mem.c # A!NoC THEN mem.c ELSE reading.c
           dir == IF room = "hot" THEN "down" ELSE "up"
           stepped == [A!Idle("step") EXCEPT !.to = A!Stepped(base, dir), !.dir = dir]
<1>1. base \in A!Setpoint
  BY DEF AirTypes, Temp
<1>2. A!SinceStep \in Int
  BY DEF AirTypes, AirBounds, A!SinceStep, Times, A!None
<1>3. \A reason, alert : A!Idle(reason).to = A!NoC /\ A!Alerted(reason, alert).to = A!NoC
  BY DEF A!Idle, A!Alerted
<1>4. stepped.to = A!Stepped(base, dir)
  BY DEF A!Idle
<1> HIDE DEF base, dir
<1>5. \/ A!Decide(room).to = A!NoC
      \/ /\ A!Decide(room).to = A!Stepped(base, dir)
         /\ ~A!AtLimit(base, dir)
         /\ ~(A!SinceStep < Interval)
  <2> HIDE DEF stepped
  <2> QED
    BY <1>3, <1>4 DEF A!Decide, base, dir, stepped
<1>6. CASE A!Decide(room).to = A!NoC
  BY <1>6 DEF Temp
<1>7. CASE /\ A!Decide(room).to = A!Stepped(base, dir)
           /\ ~A!AtLimit(base, dir)
           /\ ~(A!SinceStep < Interval)
  <2>1. A!Decide(room).to \in A!Setpoint
    BY <1>1, <1>7, SteppedWithin
  <2> QED
    BY <1>2, <1>7, <2>1 DEF Temp, AirBounds
<1> QED
  BY <1>5, <1>6, <1>7

\* Three lists one after another.
LEMMA InTurn ==
  ASSUME NEW T, NEW X \in Seq(T), NEW Y \in Seq(T), NEW Z \in Seq(T)
  PROVE  LET s == (X \o Y) \o Z IN
         /\ s \in Seq(T) /\ Len(s) = Len(X) + Len(Y) + Len(Z)
         /\ \A i \in 1..Len(s) :
              s[i] = IF i <= Len(X) THEN X[i]
                     ELSE IF i <= Len(X) + Len(Y) THEN Y[i - Len(X)] ELSE Z[i - (Len(X) + Len(Y))]
<1> DEFINE u == X \o Y
<1>1. /\ u \in Seq(T) /\ Len(u) = Len(X) + Len(Y) /\ Len(X) \in Nat /\ Len(Y) \in Nat /\ Len(Z) \in Nat
      /\ \A i \in 1..(Len(X) + Len(Y)) : u[i] = IF i <= Len(X) THEN X[i] ELSE Y[i - Len(X)]
  BY ConcatProperties, LenProperties
<1> HIDE DEF u
<1> DEFINE s == u \o Z
<1>2. /\ s \in Seq(T) /\ Len(s) = Len(u) + Len(Z)
      /\ \A i \in 1..(Len(u) + Len(Z)) : s[i] = IF i <= Len(u) THEN u[i] ELSE Z[i - Len(u)]
  <2>1. u \in Seq(T) /\ Z \in Seq(T)
    BY <1>1
  <2> QED
    BY <2>1, ConcatProperties
<1> HIDE DEF s
<1>3. \A i \in 1..Len(s) : i <= Len(u) => i \in 1..(Len(X) + Len(Y))
  BY <1>1, <1>2
<1>4. /\ s \in Seq(T) /\ Len(s) = Len(X) + Len(Y) + Len(Z)
      /\ \A i \in 1..Len(s) :
           s[i] = IF i <= Len(X) THEN X[i]
                  ELSE IF i <= Len(X) + Len(Y) THEN Y[i - Len(X)] ELSE Z[i - (Len(X) + Len(Y))]
  BY <1>1, <1>2, <1>3
<1> QED
  BY <1>4 DEF s, u

\* What a plan leaves to be done.
LEMMA PlannedJobs ==
  ASSUME AirBounds, AirInv, NEW room \in Room, A!PlanSetpoint(room)
  PROVE  /\ JobsOK'
         /\ 1 \in DOMAIN jobs' => jobs'[1].kind # "tell"
         /\ \A i \in DOMAIN jobs' :
              /\ jobs'[i].kind = "tell" => jobs'[i].alert # mem.alert
              /\ jobs'[i].kind = "fire" => A!Decide(room).to # A!NoC
<1> DEFINE d == A!Decide(room)
           seen == [c |-> reading.c, at |-> now, dir |-> "none"]
           raised == [alert |-> d.alert]
           w == A!Write(seen)
           a == A!Write(raised)
           t == A!Tell(d.alert)
           z == IF d.to # A!NoC THEN A!Fire("acu_loop", d.to, d.dir, now) ELSE A!Reason
           X == IF d.reason = "setpoint_changed_externally" THEN <<w>> ELSE <<>>
           Y == IF d.reason = "state_unwritable" \/ d.alert = mem.alert THEN <<>> ELSE <<a, t>>
           Z == <<z>>
<1>1. jobs' = (X \o Y) \o Z /\ now' = now
  BY DEF A!PlanSetpoint, A!AlertJobs, A!building
<1>2. d.to \in Temp
  BY Decided DEF AirInv
<1> HIDE DEF d
<1>3. w.kind = "write" /\ w.patch = seen /\ DOMAIN seen = {"c", "at", "dir"} /\ seen.c = reading.c /\ seen.at = now
  BY DEF A!Write
<1>4. /\ a.kind = "write" /\ a.patch = raised /\ DOMAIN raised = {"alert"} /\ raised.alert = d.alert
      /\ t.kind = "tell" /\ t.alert = d.alert
  BY DEF A!Write, A!Tell
<1>5. \/ z.kind = "reason"
      \/ z.kind = "fire" /\ z.source = "acu_loop" /\ z.to \in Temp /\ z.at = now /\ d.to # A!NoC
  BY <1>2 DEF A!Fire, A!Reason
<1>6. reading.c \in Temp /\ now \in A!None..now
  BY DEF AirInv, AirTypes, Temp, A!None
<1> HIDE DEF seen, raised, w, a, t, z
<1>7. /\ X \in Seq({w, a, t, z}) /\ Y \in Seq({w, a, t, z}) /\ Z \in Seq({w, a, t, z})
      /\ Len(X) = 0 \/ (Len(X) = 1 /\ X[1] = w)
      /\ Len(Y) = 0 \/ (Len(Y) = 2 /\ Y[1] = a /\ Y[2] = t /\ d.alert # mem.alert)
      /\ Len(Z) = 1 /\ Z[1] = z
  <2>1. <<w>> \in Seq({w, a, t, z}) /\ Len(<<w>>) = 1 /\ <<w>>[1] = w
    OBVIOUS
  <2>2. <<z>> \in Seq({w, a, t, z}) /\ Len(<<z>>) = 1 /\ <<z>>[1] = z
    OBVIOUS
  <2>3. /\ <<a, t>> \in Seq({w, a, t, z}) /\ Len(<<a, t>>) = 2
        /\ <<a, t>>[1] = a /\ <<a, t>>[2] = t
    OBVIOUS
  <2>4. <<>> \in Seq({w, a, t, z}) /\ Len(<<>>) = 0
    OBVIOUS
  <2>5. X \in Seq({w, a, t, z}) /\ (Len(X) = 0 \/ (Len(X) = 1 /\ X[1] = w))
    BY <2>1, <2>4
  <2>6. /\ Y \in Seq({w, a, t, z})
        /\ Len(Y) = 0 \/ (Len(Y) = 2 /\ Y[1] = a /\ Y[2] = t /\ d.alert # mem.alert)
    BY <2>3, <2>4
  <2> QED
    BY <2>2, <2>5, <2>6
<1> HIDE DEF X, Y, Z
<1>8. /\ jobs' \in Seq({w, a, t, z}) /\ Len(jobs') = Len(X) + Len(Y) + Len(Z)
      /\ \A i \in 1..Len(jobs') :
           jobs'[i] = IF i <= Len(X) THEN X[i]
                      ELSE IF i <= Len(X) + Len(Y) THEN Y[i - Len(X)] ELSE Z[i - (Len(X) + Len(Y))]
  <2>1. X \in Seq({w, a, t, z}) /\ Y \in Seq({w, a, t, z}) /\ Z \in Seq({w, a, t, z})
    BY <1>7
  <2> QED
    BY <1>1, <2>1, InTurn
<1> DEFINE n == Len(X)
           m == Len(Y)
<1>9. /\ n = 0 \/ n = 1
      /\ m = 0 \/ m = 2
      /\ Len(jobs') = n + m + 1 /\ DOMAIN jobs' = 1..(n + m + 1)
  BY <1>7, <1>8
<1>10. /\ n = 1 => jobs'[1] = w
       /\ m = 2 => jobs'[n + 1] = a /\ jobs'[n + 2] = t /\ d.alert # mem.alert
       /\ jobs'[n + m + 1] = z
  <2>1. n = 1 => jobs'[1] = w
    BY <1>7, <1>8, <1>9
  <2>2. m = 2 => jobs'[n + 1] = a /\ jobs'[n + 2] = t /\ d.alert # mem.alert
    <3>1. m = 2 => n + 1 \in 1..Len(jobs') /\ ~(n + 1 <= n) /\ n + 1 <= n + m /\ (n + 1) - n = 1
      BY <1>9
    <3>2. m = 2 => n + 2 \in 1..Len(jobs') /\ ~(n + 2 <= n) /\ n + 2 <= n + m /\ (n + 2) - n = 2
      BY <1>9
    <3> QED
      BY <1>7, <1>8, <3>1, <3>2
  <2>3. jobs'[n + m + 1] = z
    <3>1. /\ n + m + 1 \in 1..Len(jobs') /\ ~(n + m + 1 <= n) /\ ~(n + m + 1 <= n + m)
          /\ (n + m + 1) - (n + m) = 1
      BY <1>9
    <3> QED
      BY <1>7, <1>8, <3>1
  <2> QED
    BY <2>1, <2>2, <2>3
<1>11. IsSeq(jobs')
  BY <1>8 DEF IsSeq
<1> HIDE DEF n, m
<1>12. \A i \in DOMAIN jobs' : \/ n = 1 /\ i = 1
                               \/ m = 2 /\ (i = n + 1 \/ i = n + 2)
                               \/ i = n + m + 1
  BY <1>9
<1>13. \A i \in DOMAIN jobs' : jobs'[i].kind = "tell" => m = 2 /\ i = n + 2 /\ jobs'[i] = t
  BY <1>3, <1>4, <1>5, <1>10, <1>12
<1>14. ASSUME NEW i \in DOMAIN jobs' PROVE JobOK(i)'
  <2>1. CASE n = 1 /\ i = 1
    <3>1. PICK p : p = seen
      OBVIOUS
    <3>2. jobs'[i].kind = "write" /\ jobs'[i].patch = p
      BY <1>3, <1>10, <2>1, <3>1
    <3>3. DOMAIN p = {"c", "at", "dir"} /\ p.c \in Temp /\ p.at = now'
      BY <1>1, <1>3, <1>6, <3>1
    <3>4. p.c \in Temp' /\ p.at \in Times'
      BY <1>1, <1>6, <3>3 DEF Temp, A!Setpoint, A!NoC, Times
    <3>5. PatchOK(p)'
      BY <3>3, <3>4 DEF PatchOK
    <3> QED
      BY <3>2, <3>3, <3>5 DEF JobOK, Writes
  <2>2. CASE m = 2 /\ i = n + 1
    <3>1. i + 1 = n + 2 /\ n + 2 \in DOMAIN jobs'
      BY <1>9, <2>2
    <3> QED
      BY <1>4, <1>10, <2>2, <3>1 DEF JobOK, Writes, PatchOK
  <2>3. CASE m = 2 /\ i = n + 2
    <3>1. i - 1 = n + 1
      BY <1>9, <2>3
    <3> QED
      BY <1>4, <1>10, <1>13, <2>3, <3>1 DEF JobOK, Writes
  <2>4. CASE i = n + m + 1
    BY <1>1, <1>5, <1>9, <1>10, <2>4 DEF JobOK, Writes, Temp, A!Setpoint, A!NoC
  <2> QED
    BY <1>12, <2>1, <2>2, <2>3, <2>4
<1>15. 1 \in DOMAIN jobs' => jobs'[1].kind # "tell"
  BY <1>9, <1>13
<1>16. ASSUME NEW i \in DOMAIN jobs'
       PROVE  /\ jobs'[i].kind = "tell" => jobs'[i].alert # mem.alert
              /\ jobs'[i].kind = "fire" => d.to # A!NoC
  BY <1>3, <1>4, <1>5, <1>10, <1>12
<1> QED
  BY <1>11, <1>14, <1>15, <1>16 DEF JobsOK, d

LEMMA PlanSetpointInv ==
  ASSUME AirBounds, AirInv, NEW room \in Room, A!PlanSetpoint(room)
  PROVE  AirInv'
<1>1. /\ jobs # <<>> /\ Head(jobs).kind = "plan"
      /\ UNCHANGED <<now, unit, reading, saved, commands, unsent, mem, pending, recent, request, read, lastStep,
                     told, behind>>
  BY DEF A!PlanSetpoint, A!Job, A!building, A!cloud, A!memory, A!history
<1>2. AirTypes'
  BY <1>1 DEF AirInv, AirTypes, RowOK, PatchOK, Times
<1>3. Due("c")' = Due("c") /\ Due("at")' = Due("at") /\ Due("dir")' = Due("dir") /\ Due("alert")' = Due("alert")
  BY <1>1 DEF Due
<1>4. /\ JobsOK'
      /\ 1 \in DOMAIN jobs' => jobs'[1].kind # "tell"
      /\ \A i \in DOMAIN jobs' : jobs'[i].kind = "tell" => jobs'[i].alert # mem.alert
  BY PlannedJobs
<1>5. Simple
  BY <1>1, PlanAlone DEF AirInv
<1>6. Waiting' /\ InStep'
  BY <1>1, <1>3 DEF AirInv, Waiting, InStep
<1>7. StepDue'
  BY <1>1, <1>3, <1>5, SimpleDue DEF StepDue
<1>8. ToldDue'
  <2>1. "crash" \notin behind => told = Due("alert")
    BY <1>5, SimpleDue
  <2>2. behind = {} => mem.alert = told
    BY <2>1 DEF AirInv, InStep
  <2> QED
    BY <1>1, <1>3, <1>4, <2>1, <2>2 DEF ToldDue
<1> QED
  BY <1>2, <1>4, <1>6, <1>7, <1>8 DEF AirInv

\* The invariant holds from the beginning.
LEMMA AirInit == ASSUME AirBounds, A!Init PROVE AirInv
<1>1. /\ now = 0 /\ unit = [on |-> TRUE, c |-> MaxC] /\ reading = unit /\ saved = A!NoRow /\ commands = A!NoCommand
      /\ unsent = A!NoCommand /\ mem = A!Fresh(0) /\ pending = A!NoPatch /\ recent = A!NoCommand /\ jobs = <<>>
      /\ request = A!NoPatch /\ read = A!NoRead /\ lastStep = A!None /\ told = "none" /\ behind = {}
  BY DEF A!Init
<1>2. A!NoC \in Temp /\ MaxC \in A!Setpoint /\ 0 \in Times /\ A!None \in Times /\ now \in 0..MaxNow
  BY <1>1 DEF AirBounds, Temp, A!Setpoint, Times, A!None
<1>3. /\ RowOK(A!NoRow) /\ A!NoRow.row = FALSE /\ A!NoRow.c = A!NoC /\ A!NoRow.at = A!None /\ A!NoRow.dir = "none"
      /\ A!NoRow.alert = "none" /\ A!NoCommand.at \in Times
  BY <1>2 DEF A!NoRow, A!NoCommand, RowOK
<1>4. read.row = A!NoRow /\ read.newest = A!NoCommand
  BY <1>1 DEF A!NoRead
<1>5. /\ request.open = FALSE /\ DOMAIN request.patch = {} /\ pending.open = FALSE /\ DOMAIN pending.patch = {}
  BY <1>1 DEF A!NoPatch, A!Nothing
<1>6. /\ DOMAIN mem = {"c", "at", "dir", "alert", "writable"} /\ mem.c = A!NoC /\ mem.at = 0 /\ mem.dir = "none"
      /\ mem.alert = "none" /\ mem.writable = TRUE
  BY <1>1 DEF A!Fresh
<1>7. AirTypes
  <2>1. DOMAIN unit = {"on", "c"} /\ unit.on \in BOOLEAN /\ unit.c \in A!Setpoint /\ reading.c \in A!Setpoint
    BY <1>1, <1>2
  <2> QED
    BY <1>1, <1>2, <1>3, <1>4, <1>5, <1>6, <2>1 DEF AirTypes, PatchOK
<1>8. DOMAIN jobs = {} /\ jobs \in Seq({})
  BY <1>1
<1>9. Waiting /\ JobsOK
  BY <1>1, <1>3, <1>4, <1>5, <1>8 DEF Waiting, JobsOK, IsSeq
<1>10. \A f : Due(f) = A!NoRow[f]
  BY <1>1, <1>5 DEF Due
<1>11. InStep /\ StepDue /\ ToldDue
  BY <1>1, <1>3, <1>6, <1>8, <1>10 DEF InStep, StepDue, ToldDue, NoTell
<1> QED
  BY <1>7, <1>9, <1>11 DEF AirInv

LEMMA AirNext == ASSUME AirBounds, AirInv, [A!Next]_A!aircon_vars PROVE AirInv'
<1>1. CASE A!Next
  BY <1>1, TickInv, PlanSetpointInv, FireCommandInv, TellPhoneInv, SayReasonInv, WroteInv, ReadingFailsInv,
     StartWriteInv, NothingToRetryInv, SnapshotInv, ApplyInv, AirRestartInv, TimePassesInv, PollInv, FlushInv,
     SomebodyElseInv, Zenon DEF A!Next, A!LoopStep
<1>2. CASE UNCHANGED A!aircon_vars
  <2>1. UNCHANGED <<now, unit, reading, saved, commands, unsent, mem, pending, recent, jobs, request, read, lastStep,
                    told, behind>>
    BY <1>2 DEF A!aircon_vars, A!building, A!cloud, A!memory, A!history
  <2>2. AirTypes'
    BY <2>1 DEF AirInv, AirTypes, RowOK, PatchOK, Times
  <2> QED
    BY <2>1, <2>2, Elsewhere DEF AirInv, Waiting
<1> QED
  BY <1>1, <1>2

LEMMA AirTyped == ASSUME AirTypes PROVE A!TypeOK
BY DEF AirTypes, A!TypeOK, RowOK, Temp, Times

\* What the invariant of the loop is for.
LEMMA AirSaved == ASSUME AirInv PROVE A!MemoryIsSaved
<1> DEFINE waits == A!Joined(request.patch, pending.patch)
           row == A!Patched(saved, waits)
<1>1. \A f \in {"c", "at", "dir", "alert"} : row[f] = Due(f)
  <2>1. DOMAIN saved = {"row", "c", "at", "dir", "alert"}
    BY DEF AirInv, AirTypes, RowOK
  <2>2. /\ DOMAIN waits = DOMAIN request.patch \cup DOMAIN pending.patch
        /\ \A f \in DOMAIN waits : waits[f] = IF f \in DOMAIN request.patch THEN request.patch[f] ELSE pending.patch[f]
    BY DEF A!Joined
  <2> HIDE DEF waits
  <2> QED
    BY <2>1, <2>2 DEF A!Patched, Due
<1> HIDE DEF row
<1>2. "read" \notin behind => A!Agrees(mem, row)
  BY <1>1 DEF AirInv, InStep, A!Agrees
<1> QED
  BY <1>2 DEF A!MemoryIsSaved, row

LEMMA AirTold == ASSUME AirInv PROVE A!ToldOnce
<1>1. ASSUME behind = {}, A!Job("tell") PROVE Head(jobs).alert # told
  BY <1>1, SeqFacts DEF A!Job, AirInv, JobsOK, ToldDue
<1>2. ASSUME behind = {}, jobs = <<>> PROVE told = mem.alert
  <2>1. NoTell
    BY <1>2 DEF NoTell
  <2> QED
    BY <1>2, <2>1 DEF AirInv, ToldDue, InStep
<1> QED
  BY <1>1, <1>2 DEF A!ToldOnce

\* Only a plan makes a step, from what memory holds of the last one.
LEMMA AirSpaced ==
  ASSUME AirBounds, AirInv, [A!Next]_A!aircon_vars, NEW i \in DOMAIN jobs',
         jobs'[i].kind = "fire", A!Job("plan"), behind = {}, lastStep # A!None
  PROVE  now - lastStep >= Interval
<1>1. jobs # <<>> /\ Head(jobs) = jobs[1] /\ Head(jobs).kind = "plan"
  BY SeqFacts DEF A!Job, AirInv, JobsOK
<1>2. DOMAIN jobs = {1} /\ jobs[1].kind = "plan"
  BY <1>1, PlanAlone DEF AirInv
<1>3. jobs' # jobs /\ jobs' # <<>>
  BY <1>2
<1>4. PICK room \in Room : A!PlanSetpoint(room)
  BY <1>1, <1>3
     DEF A!Next, A!LoopStep, A!Tick, A!FireCommand, A!TellPhone, A!SayReason, A!Wrote, A!ReadingFails, A!StartWrite, A!NothingToRetry,
         A!Snapshot, A!Apply, A!Restart, A!TimePasses, A!Poll, A!Flush, A!SomebodyElse, A!Job, A!aircon_vars, A!building, A!cloud, A!memory
<1>5. A!SinceStep >= Interval
  BY <1>4, PlannedJobs, Decided DEF AirInv
<1>6. lastStep <= Due("at")
  BY <1>2 DEF AirInv, StepDue, Writes
<1>7. mem.at = Due("at") /\ mem.at # A!None
  <2>1. lastStep \in Int /\ lastStep >= A!None /\ lastStep # A!None /\ mem.at \in Times
    BY DEF AirInv, AirTypes, Times, A!None
  <2>2. mem.at = Due("at") \/ Due("at") = A!None
    BY DEF AirInv, InStep
  <2>3. Due("at") # A!None
    BY <1>6, <2>1 DEF A!None
  <2> QED
    BY <2>2, <2>3 DEF A!None
<1>8. now \in Int /\ lastStep \in Int /\ mem.at \in Int
  BY DEF AirInv, AirTypes, Times, A!None
<1> QED
  BY <1>5, <1>6, <1>7, <1>8 DEF A!SinceStep, AirBounds

LEMMA AirKept == AnySpec => []AirInv
<1>1. A!Spec => []AirInv
  BY AirInit, AirNext, WritesAssumption, PTL DEF A!Spec
<1> QED
  BY <1>1, OfAircon, PTL

\* What the loop remembers of setpoint, step and alert is in its row, under the write that
\* waits or is under way: a failed write, a newer one that joins it and a restart do not
\* part the two, only an answer that a write had overtaken.
THEOREM AirconMemorySaved == AnySpec => []MemoryIsSaved
<1>1. AirInv => MemoryIsSaved
  BY AirSaved DEF MemoryIsSaved
<1> QED
  BY <1>1, AirKept, PTL

\* As long as memory was not put back - by an answer that a write had overtaken, a start
\* from the kept configuration or a restart before the alert was saved, and then it may be
\* told again - the phone is told of an alert once, however often the write of it fails,
\* and over every restart that found it saved.
THEOREM AlertsToldOnce == AnySpec => []ToldOnce
<1>1. AirInv => ToldOnce
  BY AirTold DEF ToldOnce
<1> QED
  BY <1>1, AirKept, PTL

\* Two steps of the setpoint are an interval apart, over failed writes and restarts, unless
\* a crash lost the last one before it was saved or an overtaken answer replaced it.
THEOREM AirconStepsSpaced == AnySpec => StepsSpaced
<1>1. AirInv /\ [A!Next]_A!aircon_vars =>
        [(\E i \in DOMAIN jobs' : jobs'[i].kind = "fire" /\ jobs'[i].source = "acu_loop" /\ A!Job("plan"))
          /\ behind = {} /\ lastStep # A!None => now - lastStep >= Interval]_A!aircon_vars
  BY AirSpaced, WritesAssumption
<1>2. A!Spec /\ []AirInv => A!StepsSpaced
  BY <1>1, PTL DEF A!Spec, A!StepsSpaced
<1> QED
  BY <1>2, AirKept, OfAircon DEF StepsSpaced

-----------------------------------------------------------------------------
(***************************************************************************)
(* The schedules of a page and their table.                                *)
(***************************************************************************)

RuleRow == [Field -> 0..MaxRequests]
Requests == [n : S!Rule, kind : {"insert", "update", "delete"}, rule : S!Rule, row : RuleRow,
             outcome : {"asked", "done", "failed"}]

\* No rule has the number of a request that is still to be made.
StoreTypes ==
  /\ DOMAIN table \subseteq 1..sent /\ table \in [DOMAIN table -> RuleRow]
  /\ DOMAIN schedules \subseteq 1..sent /\ schedules \in [DOMAIN schedules -> RuleRow]
  /\ list = S!NotRead \/ (DOMAIN list \subseteq 1..sent /\ list \in [DOMAIN list -> RuleRow])
  /\ status \in {"loading", "ready"}
  /\ writes \subseteq Requests /\ \A q \in writes : q.n \in 1..sent /\ q.rule \in 1..sent
  /\ busy \in [S!Rule \cup {S!CREATING} -> BOOLEAN] /\ rowError \in [S!Rule \cup {S!CREATING} -> BOOLEAN]
  /\ sent \in S!Rule /\ faults \in 0..MaxFaults
  /\ hasty \subseteq S!Rule /\ unheard \subseteq S!Rule

\* Nobody knows of a rule that is not in the table yet.
InsertedOnce ==
  \A q \in writes : q.kind = "insert" /\ q.outcome = "asked" =>
    /\ q.rule \notin DOMAIN table \cup DOMAIN schedules \cup DOMAIN list
    /\ \A p \in writes : p.rule = q.rule => p = q

\* A rule that is removed does not come back.
DeletedGone ==
  \A q \in writes : q.kind = "delete" /\ q.outcome = "done" => q.rule \notin DOMAIN table

\* Rules of the table whose insertion the page has still to hear of.
Coming == {q.rule : q \in {q \in writes : q.kind = "insert" /\ q.outcome = "done"}}

Followed ==
  /\ status = "ready" => list = S!NotRead /\ DOMAIN table \subseteq DOMAIN schedules \cup unheard \cup Coming
  /\ list # S!NotRead => DOMAIN table \subseteq DOMAIN list \cup DOMAIN schedules \cup unheard \cup Coming

\* Writes to a rule that nobody hurried come one at a time.
Unhurried ==
  /\ status = "loading" => \A q \in writes : q.rule \in hasty
  /\ \A p, q \in writes : p.rule = q.rule => p = q \/ p.rule \in hasty
  /\ \A q \in writes : q.rule \notin hasty =>
       /\ q.kind = "insert" => q.rule \notin DOMAIN schedules
       /\ q.kind # "delete" /\ q.outcome = "done" => q.rule \in DOMAIN table /\ table[q.rule] = q.row
  /\ list # S!NotRead => \A r \in DOMAIN list \ hasty : r \in DOMAIN table /\ table[r] = list[r]

StoreInv == StoreTypes /\ InsertedOnce /\ DeletedGone /\ Followed /\ Unhurried /\ S!ShownIsStored

\* What a request is made of.
LEMMA RequestFields ==
  ASSUME NEW q \in Requests
  PROVE  /\ q.n \in S!Rule /\ q.kind \in {"insert", "update", "delete"} /\ q.rule \in S!Rule
         /\ q.row \in RuleRow /\ q.outcome \in {"asked", "done", "failed"}
BY DEF Requests

LEMMA Unread == ASSUME StoreBounds, StoreTypes PROVE table # S!NotRead /\ DOMAIN S!NotRead = {0} /\ 0 \notin 1..sent
<1>1. 0 \notin 1..sent /\ DOMAIN S!NotRead = {0}
  BY DEF StoreTypes, S!Rule, S!NotRead
<1> QED
  BY <1>1 DEF StoreTypes

\* Each step keeps the invariant, from here on.
LEMMA FetchInv == ASSUME StoreBounds, StoreInv, S!Fetch PROVE StoreInv'
<1> USE DEF StoreInv
<1>1. /\ status = "loading" /\ list' = table
      /\ UNCHANGED <<table, schedules, status, writes, busy, rowError, sent, faults, hasty, unheard>>
  BY DEF S!Fetch
<1>2. StoreTypes'
  BY <1>1 DEF StoreTypes
<1>3. InsertedOnce' /\ DeletedGone' /\ S!ShownIsStored'
  BY <1>1 DEF InsertedOnce, DeletedGone, S!ShownIsStored, S!UnderWay
<1>4. Followed' /\ Unhurried'
  BY <1>1 DEF Followed, Unhurried, Coming
<1> QED
  BY <1>2, <1>3, <1>4

LEMMA LoadedInv == ASSUME StoreBounds, StoreInv, S!Loaded PROVE StoreInv'
<1> USE DEF StoreInv
<1>1. /\ list # S!NotRead /\ schedules' = list /\ list' = S!NotRead /\ status' = "ready"
      /\ unheard' = unheard \cup (DOMAIN schedules \ DOMAIN list)
      /\ UNCHANGED <<table, writes, busy, rowError, sent, faults, hasty>>
  BY DEF S!Loaded
<1>2. status = "loading" /\ \A q \in writes : q.rule \in hasty
  BY <1>1 DEF StoreTypes, Followed, Unhurried
<1>3. \A q \in writes : q.rule \in 1..sent
  BY DEF StoreTypes
<1>4. StoreTypes'
  <2>1. unheard' \subseteq S!Rule
    <3>1. 1..sent \subseteq S!Rule
      BY DEF StoreTypes, S!Rule, StoreBounds
    <3> QED
      BY <1>1, <3>1 DEF StoreTypes
  <2> QED
    BY <1>1, <2>1 DEF StoreTypes
<1>5. InsertedOnce'
  BY <1>1, <1>3, Unread DEF InsertedOnce
<1>6. DeletedGone' /\ Followed'
  BY <1>1 DEF DeletedGone, Followed, Coming
<1>7. Unhurried'
  BY <1>1, <1>2 DEF Unhurried
<1>8. S!ShownIsStored'
  BY <1>1 DEF Unhurried, S!ShownIsStored
<1> QED
  BY <1>4, <1>5, <1>6, <1>7, <1>8

LEMMA LoadFailsInv == ASSUME StoreBounds, StoreInv, S!LoadFails PROVE StoreInv'
<1> USE DEF StoreInv
<1>1. /\ list # S!NotRead /\ list' = S!NotRead /\ faults' \in 0..MaxFaults
      /\ UNCHANGED <<table, schedules, status, writes, busy, rowError, sent, hasty, unheard>>
  BY DEF S!LoadFails, S!Fault, StoreTypes, StoreBounds
<1>2. \A q \in writes : q.rule \in 1..sent
  BY DEF StoreTypes
<1>3. StoreTypes'
  BY <1>1 DEF StoreTypes
<1>4. InsertedOnce'
  BY <1>1, <1>2, Unread DEF InsertedOnce
<1>5. DeletedGone' /\ Followed' /\ Unhurried'
  BY <1>1 DEF DeletedGone, Followed, Unhurried, Coming
<1>6. S!ShownIsStored'
  BY <1>1 DEF S!ShownIsStored, S!UnderWay
<1> QED
  BY <1>3, <1>4, <1>5, <1>6

LEMMA RequestInv ==
  ASSUME StoreBounds, StoreInv,
         NEW kind \in {"insert", "update", "delete"}, NEW r, NEW row \in RuleRow, S!Request(kind, r, row),
         IF kind = "insert" THEN r = sent + 1 ELSE r \in DOMAIN schedules
  PROVE  StoreInv'
<1> USE DEF StoreInv
<1> DEFINE q == [n |-> sent + 1, kind |-> kind, rule |-> r, row |-> row, outcome |-> "asked"]
<1>1. /\ sent < MaxRequests /\ sent' = sent + 1 /\ writes' = writes \cup {q}
      /\ busy' = [busy EXCEPT ![S!Key(q)] = TRUE] /\ rowError' = [rowError EXCEPT ![S!Key(q)] = FALSE]
      /\ hasty' = IF status = "loading" \/ S!UnderWay(r) THEN hasty \cup {r} ELSE hasty
      /\ UNCHANGED <<table, schedules, list, status, faults, unheard>>
  BY DEF S!Request
<1>2. sent \in Nat /\ sent + 1 \in S!Rule /\ 1..sent \subseteq 1..(sent + 1) /\ 1..sent \subseteq S!Rule
  BY <1>1 DEF StoreTypes, S!Rule, StoreBounds
<1>3. r \in 1..(sent + 1) /\ r \in S!Rule
  BY <1>2 DEF StoreTypes, S!Rule
<1>4. q \in Requests /\ q.n = sent + 1 /\ q.kind = kind /\ q.rule = r /\ q.row = row /\ q.outcome = "asked"
  BY <1>2, <1>3 DEF Requests
<1>5. S!Key(q) \in S!Rule \cup {S!CREATING} /\ (S!Key(q) = r \/ S!Key(q) = S!CREATING)
  BY <1>3, <1>4 DEF S!Key
<1> HIDE DEF q
<1>6. StoreTypes'
  <2>1. hasty' \subseteq S!Rule
    BY <1>1, <1>3 DEF StoreTypes
  <2>2. busy' \in [S!Rule \cup {S!CREATING} -> BOOLEAN] /\ rowError' \in [S!Rule \cup {S!CREATING} -> BOOLEAN]
    BY <1>1, <1>5 DEF StoreTypes
  <2>3. writes' \subseteq Requests /\ \A p \in writes' : p.n \in 1..sent' /\ p.rule \in 1..sent'
    <3>1. sent + 1 \in 1..(sent + 1)
      BY <1>2
    <3> QED
      BY <1>1, <1>2, <1>3, <1>4, <3>1 DEF StoreTypes
  <2> QED
    BY <1>1, <1>2, <2>1, <2>2, <2>3 DEF StoreTypes
<1>7. \A p \in writes : p.rule \in 1..sent
  BY DEF StoreTypes
<1>8. sent + 1 \notin 1..sent /\ sent + 1 # 0
  BY <1>2
<1>9. InsertedOnce'
  <2>1. kind = "insert" => r \notin DOMAIN table \cup DOMAIN schedules \cup DOMAIN list
    BY <1>8, Unread DEF StoreTypes
  <2>2. kind = "insert" => \A p \in writes : p.rule # r
    BY <1>7, <1>8
  <2>3. \A p \in writes : p.kind = "insert" /\ p.outcome = "asked" => p.rule # r
    BY <1>7, <1>8 DEF InsertedOnce
  <2> QED
    BY <1>1, <1>4, <2>1, <2>2, <2>3 DEF InsertedOnce
<1>10. DeletedGone'
  BY <1>1, <1>4 DEF DeletedGone
<1>11. Coming' = Coming
  BY <1>1, <1>4 DEF Coming
<1>12. Followed'
  BY <1>1, <1>11 DEF Followed
<1>13. hasty \subseteq hasty' /\ (status = "loading" => r \in hasty')
       /\ (r \notin hasty' => \A p \in writes : p.rule # r)
  BY <1>1 DEF S!UnderWay
<1>14. Unhurried'
  <2>1. status' = "loading" => \A p \in writes' : p.rule \in hasty'
    BY <1>1, <1>4, <1>13 DEF Unhurried
  <2>2. \A p, o \in writes' : p.rule = o.rule => p = o \/ p.rule \in hasty'
    BY <1>1, <1>4, <1>13 DEF Unhurried
  <2>3. kind = "insert" => r \notin DOMAIN schedules
    BY <1>8 DEF StoreTypes
  <2>4. \A p \in writes' : p.rule \notin hasty' =>
          /\ p.kind = "insert" => p.rule \notin DOMAIN schedules
          /\ p.kind # "delete" /\ p.outcome = "done" => p.rule \in DOMAIN table /\ table[p.rule] = p.row
    BY <1>1, <1>4, <1>13, <2>3 DEF Unhurried
  <2> QED
    BY <1>1, <1>13, <2>1, <2>2, <2>4 DEF Unhurried
<1>15. S!ShownIsStored'
  <2> SUFFICES ASSUME status = "ready", NEW s \in DOMAIN schedules
               PROVE  S!UnderWay(s)' \/ rowError'[s] \/ s \in hasty' \/ (s \in DOMAIN table /\ table[s] = schedules[s])
    BY <1>1 DEF S!ShownIsStored
  <2>1. CASE s = r
    BY <1>1, <1>4, <2>1 DEF S!UnderWay
  <2>2. CASE s # r
    <3>1. s \in S!Rule \cup {S!CREATING} /\ s # S!CREATING
      BY <1>2, Unread DEF StoreTypes, S!CREATING
    <3>2. rowError'[s] = rowError[s]
      BY <1>1, <1>5, <2>2, <3>1 DEF StoreTypes
    <3>3. S!UnderWay(s) => S!UnderWay(s)'
      BY <1>1 DEF S!UnderWay
    <3> QED
      BY <1>1, <1>13, <3>2, <3>3 DEF S!ShownIsStored
  <2> QED
    BY <2>1, <2>2
<1> QED
  BY <1>6, <1>9, <1>10, <1>12, <1>14, <1>15

\* A request whose outcome becomes known stays under way.
LEMMA Becoming ==
  ASSUME StoreTypes, UNCHANGED sent, NEW q \in writes, NEW o \in {"done", "failed"}, S!Became(q, o)
  PROVE  LET p == [q EXCEPT !.outcome = o] IN
         /\ writes' \subseteq Requests /\ \A x \in writes' : x.n \in 1..sent' /\ x.rule \in 1..sent'
         /\ p \in writes' /\ p.outcome = o /\ p.kind = q.kind /\ p.rule = q.rule /\ p.row = q.row
         /\ \A x \in writes' : x = p \/ (x \in writes /\ x # q)
         /\ \A x \in writes : x = q \/ x \in writes'
         /\ \A s : S!UnderWay(s) => S!UnderWay(s)'
<1> DEFINE p == [q EXCEPT !.outcome = o]
<1>1. q \in Requests /\ q.n \in 1..sent /\ q.rule \in 1..sent
  BY DEF StoreTypes
<1>2. p \in Requests /\ p.outcome = o /\ p.n = q.n /\ p.kind = q.kind /\ p.rule = q.rule /\ p.row = q.row
  BY <1>1 DEF Requests
<1>3. writes' = (writes \ {q}) \cup {p}
  BY DEF S!Became
<1> HIDE DEF p
<1>4. writes' \subseteq Requests /\ \A x \in writes' : x.n \in 1..sent' /\ x.rule \in 1..sent'
  BY <1>1, <1>2, <1>3 DEF StoreTypes
<1>5. ASSUME NEW s, S!UnderWay(s) PROVE S!UnderWay(s)'
  BY <1>2, <1>3, <1>5 DEF S!UnderWay
<1>6. /\ p \in writes' /\ \A x \in writes' : x = p \/ (x \in writes /\ x # q)
      /\ \A x \in writes : x = q \/ x \in writes'
  BY <1>3
<1> QED
  BY <1>2, <1>4, <1>5, <1>6 DEF p

LEMMA WrittenRows ==
  ASSUME StoreTypes, NEW q \in writes
  PROVE  LET t == S!Written(q) IN
         /\ DOMAIN t \subseteq 1..sent /\ t \in [DOMAIN t -> RuleRow]
         /\ \A s : s # q.rule => (s \in DOMAIN t <=> s \in DOMAIN table) /\ (s \in DOMAIN table => t[s] = table[s])
         /\ IF q.kind = "delete" THEN q.rule \notin DOMAIN t ELSE q.rule \in DOMAIN t /\ t[q.rule] = q.row
<1>1. q \in Requests /\ q.rule \in 1..sent /\ DOMAIN table \subseteq 1..sent /\ table \in [DOMAIN table -> RuleRow]
  BY DEF StoreTypes
<1>2. q.row \in RuleRow
  BY <1>1, RequestFields
<1>3. CASE q.kind = "delete"
  BY <1>1, <1>3 DEF S!Written, S!Restrict
<1>4. CASE q.kind # "delete"
  BY <1>1, <1>2, <1>4 DEF S!Written
<1> QED
  BY <1>3, <1>4

LEMMA StoreStep == ASSUME StoreBounds, StoreInv, NEW q \in writes, S!Store(q) PROVE StoreInv'
<1> USE DEF StoreInv
<1>1. /\ q.outcome = "asked"
      /\ UNCHANGED <<schedules, list, status, busy, rowError, sent, faults, hasty, unheard>>
  BY DEF S!Store
<1>2. PICK o \in {"done", "failed"} :
        S!Became(q, o) /\ IF o = "done" THEN S!Accepts(q) /\ table' = S!Written(q) ELSE UNCHANGED table
  BY DEF S!Store
<1> DEFINE p == [q EXCEPT !.outcome = o]
<1>3. /\ writes' \subseteq Requests /\ \A x \in writes' : x.n \in 1..sent' /\ x.rule \in 1..sent'
      /\ p \in writes' /\ p.outcome = o /\ p.kind = q.kind /\ p.rule = q.rule /\ p.row = q.row
      /\ \A x \in writes' : x = p \/ (x \in writes /\ x # q)
      /\ \A x \in writes : x = q \/ x \in writes'
      /\ \A s : S!UnderWay(s) => S!UnderWay(s)'
  BY <1>1, <1>2, Becoming
<1> HIDE DEF p
<1>4. q.kind \in {"insert", "update", "delete"}
  BY RequestFields DEF StoreTypes
<1>5. /\ DOMAIN table' \subseteq 1..sent /\ table' \in [DOMAIN table' -> RuleRow]
      /\ \A s : s # q.rule => (s \in DOMAIN table' <=> s \in DOMAIN table) /\ (s \in DOMAIN table => table'[s] = table[s])
  BY <1>2, WrittenRows DEF StoreTypes
<1>6. o = "done" => /\ S!Accepts(q)
                    /\ IF q.kind = "delete" THEN q.rule \notin DOMAIN table'
                       ELSE q.rule \in DOMAIN table' /\ table'[q.rule] = q.row
  BY <1>2, WrittenRows
<1>7. o # "done" => table' = table
  BY <1>2
<1>8. StoreTypes'
  BY <1>1, <1>3, <1>5 DEF StoreTypes
<1>9. InsertedOnce'
  <2> SUFFICES ASSUME NEW x \in writes', x.kind = "insert", x.outcome = "asked"
               PROVE  /\ x.rule \notin DOMAIN table' \cup DOMAIN schedules \cup DOMAIN list
                      /\ \A y \in writes' : y.rule = x.rule => y = x
    BY <1>1 DEF InsertedOnce
  <2>1. x \in writes /\ x # q
    BY <1>2, <1>3
  <2>2. x.rule # q.rule
    BY <2>1 DEF InsertedOnce
  <2> QED
    BY <1>3, <1>5, <2>1, <2>2 DEF InsertedOnce
<1>10. DeletedGone'
  <2> SUFFICES ASSUME NEW x \in writes', x.kind = "delete", x.outcome = "done" PROVE x.rule \notin DOMAIN table'
    BY DEF DeletedGone
  <2>1. CASE x = p
    BY <1>3, <1>6, <2>1
  <2>2. CASE x \in writes /\ x # q /\ x.rule # q.rule
    BY <1>5, <2>2 DEF DeletedGone
  <2>3. CASE x \in writes /\ x # q /\ x.rule = q.rule
    <3>1. x.rule \notin DOMAIN table /\ q.kind # "insert"
      BY <1>1, <2>3 DEF DeletedGone, InsertedOnce
    <3> QED
      BY <1>4, <1>6, <1>7, <2>3, <3>1 DEF S!Accepts
  <2> QED
    BY <1>3, <2>1, <2>2, <2>3
<1>11. DOMAIN table' \subseteq DOMAIN table \cup Coming' /\ Coming \subseteq Coming'
  <2>1. Coming \subseteq Coming'
    BY <1>1, <1>3 DEF Coming
  <2>2. q.rule \in DOMAIN table' => q.rule \in DOMAIN table \cup Coming'
    BY <1>3, <1>4, <1>6, <1>7 DEF S!Accepts, Coming
  <2> QED
    BY <1>5, <2>1, <2>2
<1>12. Followed'
  BY <1>1, <1>11 DEF Followed
<1>13. Unhurried'
  <2>1. status' = "loading" => \A x \in writes' : x.rule \in hasty'
    BY <1>1, <1>3 DEF Unhurried
  <2>2. \A x, y \in writes' : x.rule = y.rule => x = y \/ x.rule \in hasty'
    BY <1>1, <1>3 DEF Unhurried
  <2>3. ASSUME NEW x \in writes', x.rule \notin hasty
        PROVE  /\ x.kind = "insert" => x.rule \notin DOMAIN schedules
               /\ x.kind # "delete" /\ x.outcome = "done" => x.rule \in DOMAIN table' /\ table'[x.rule] = x.row
    <3>1. CASE x = p
      BY <1>3, <1>6, <2>3, <3>1 DEF Unhurried
    <3>2. CASE x \in writes /\ x # q
      <4>1. x.rule # q.rule
        BY <2>3, <3>2 DEF Unhurried
      <4> QED
        BY <1>5, <2>3, <3>2, <4>1 DEF Unhurried
    <3> QED
      BY <1>3, <3>1, <3>2
  <2>4. list # S!NotRead => \A r \in DOMAIN list \ hasty : r \in DOMAIN table' /\ table'[r] = list[r]
    <3>1. list # S!NotRead => q.rule \in hasty
      BY DEF StoreTypes, Followed, Unhurried
    <3> QED
      BY <1>5, <3>1 DEF Unhurried
  <2> QED
    BY <1>1, <2>1, <2>2, <2>3, <2>4 DEF Unhurried
<1>14. S!ShownIsStored'
  <2> SUFFICES ASSUME status = "ready", NEW s \in DOMAIN schedules
               PROVE  S!UnderWay(s)' \/ rowError[s] \/ s \in hasty \/ (s \in DOMAIN table' /\ table'[s] = schedules[s])
    BY <1>1 DEF S!ShownIsStored
  <2>1. s = q.rule => S!UnderWay(s)'
    BY <1>3 DEF S!UnderWay
  <2> QED
    BY <1>3, <1>5, <2>1 DEF S!ShownIsStored
<1> QED
  BY <1>8, <1>9, <1>10, <1>12, <1>13, <1>14

LEMMA FailInv == ASSUME StoreBounds, StoreInv, NEW q \in writes, S!Fail(q) PROVE StoreInv'
<1> USE DEF StoreInv
<1>1. /\ S!Became(q, "failed") /\ faults' \in 0..MaxFaults
      /\ unheard' = IF q.kind = "insert" /\ q.outcome = "done" THEN unheard \cup {q.rule} ELSE unheard
      /\ UNCHANGED <<table, schedules, list, status, busy, rowError, sent, hasty>>
  BY DEF S!Fail, S!Fault, StoreTypes, StoreBounds
<1> DEFINE p == [q EXCEPT !.outcome = "failed"]
<1>2. /\ writes' \subseteq Requests /\ \A x \in writes' : x.n \in 1..sent' /\ x.rule \in 1..sent'
      /\ p \in writes' /\ p.outcome = "failed" /\ p.kind = q.kind /\ p.rule = q.rule /\ p.row = q.row
      /\ \A x \in writes' : x = p \/ (x \in writes /\ x # q)
      /\ \A x \in writes : x = q \/ x \in writes'
      /\ \A s : S!UnderWay(s) => S!UnderWay(s)'
  BY <1>1, Becoming
<1> HIDE DEF p
<1>3. StoreTypes'
  <2>1. unheard' \subseteq S!Rule
    BY <1>1, RequestFields DEF StoreTypes
  <2> QED
    BY <1>1, <1>2, <2>1 DEF StoreTypes
<1>4. InsertedOnce'
  BY <1>1, <1>2 DEF InsertedOnce
<1>5. DeletedGone'
  BY <1>1, <1>2 DEF DeletedGone
<1>6. Coming \cup unheard \subseteq Coming' \cup unheard'
  BY <1>1, <1>2 DEF Coming
<1>7. Followed'
  BY <1>1, <1>6 DEF Followed
<1>8. Unhurried'
  BY <1>1, <1>2 DEF Unhurried
<1>9. S!ShownIsStored'
  BY <1>1, <1>2 DEF S!ShownIsStored
<1> QED
  BY <1>3, <1>4, <1>5, <1>7, <1>8, <1>9

LEMMA ShownRows ==
  ASSUME StoreTypes, NEW q \in writes
  PROVE  LET t == S!Acknowledged(q) IN
         /\ DOMAIN t \subseteq 1..sent /\ t \in [DOMAIN t -> RuleRow]
         /\ \A s : s # q.rule => (s \in DOMAIN t <=> s \in DOMAIN schedules) /\ (s \in DOMAIN schedules => t[s] = schedules[s])
         /\ q.kind = "delete" => q.rule \notin DOMAIN t
         /\ q.kind = "insert" => q.rule \in DOMAIN t
         /\ q.kind = "update" => DOMAIN t = DOMAIN schedules
         /\ q.rule \in DOMAIN t => t[q.rule] = q.row
<1>1. q \in Requests /\ q.rule \in 1..sent /\ DOMAIN schedules \subseteq 1..sent /\ schedules \in [DOMAIN schedules -> RuleRow]
  BY DEF StoreTypes
<1>2. q.row \in RuleRow /\ q.kind \in {"insert", "update", "delete"}
  BY <1>1, RequestFields
<1>3. CASE q.kind = "delete"
  <2>1. S!Acknowledged(q) = [r \in DOMAIN schedules \ {q.rule} |-> schedules[r]]
    BY <1>3 DEF S!Acknowledged, S!Restrict
  <2> QED
    BY <1>1, <1>3, <2>1
<1>4. CASE q.kind = "insert"
  <2>1. S!Acknowledged(q) = [r \in DOMAIN schedules \cup {q.rule} |-> IF r = q.rule THEN q.row ELSE schedules[r]]
    BY <1>4 DEF S!Acknowledged
  <2> QED
    BY <1>1, <1>2, <1>4, <2>1
<1>5. CASE q.kind = "update"
  <2>1. S!Acknowledged(q) = [r \in DOMAIN schedules |-> IF r = q.rule THEN q.row ELSE schedules[r]]
    BY <1>5 DEF S!Acknowledged
  <2> QED
    BY <1>1, <1>2, <1>5, <2>1
<1> QED
  BY <1>2, <1>3, <1>4, <1>5

LEMMA AnswerInv == ASSUME StoreBounds, StoreInv, NEW q \in writes, S!Answer(q) PROVE StoreInv'
<1> USE DEF StoreInv
<1>1. /\ q.outcome = "done" /\ writes' = writes \ {q}
      /\ schedules' = S!Acknowledged(q) /\ busy' = [busy EXCEPT ![S!Key(q)] = FALSE]
      /\ UNCHANGED <<table, list, status, rowError, sent, faults, hasty, unheard>>
  BY DEF S!Answer
<1>2. /\ DOMAIN schedules' \subseteq 1..sent /\ schedules' \in [DOMAIN schedules' -> RuleRow]
      /\ \A s : s # q.rule => (s \in DOMAIN schedules' <=> s \in DOMAIN schedules)
                              /\ (s \in DOMAIN schedules => schedules'[s] = schedules[s])
      /\ q.kind = "delete" => q.rule \notin DOMAIN schedules'
      /\ q.kind = "insert" => q.rule \in DOMAIN schedules'
      /\ q.kind = "update" => DOMAIN schedules' = DOMAIN schedules
      /\ q.rule \in DOMAIN schedules' => schedules'[q.rule] = q.row
  BY <1>1, ShownRows
<1>3. q.kind \in {"insert", "update", "delete"} /\ q.rule \in S!Rule
  BY RequestFields DEF StoreTypes
<1>4. StoreTypes'
  <2>1. busy' \in [S!Rule \cup {S!CREATING} -> BOOLEAN]
    BY <1>1, <1>3 DEF StoreTypes
  <2> QED
    BY <1>1, <1>2, <2>1 DEF StoreTypes
<1>5. InsertedOnce'
  <2> SUFFICES ASSUME NEW x \in writes', x.kind = "insert", x.outcome = "asked"
               PROVE  /\ x.rule \notin DOMAIN table \cup DOMAIN schedules' \cup DOMAIN list
                      /\ \A y \in writes' : y.rule = x.rule => y = x
    BY <1>1 DEF InsertedOnce
  <2>1. x \in writes /\ x.rule # q.rule
    BY <1>1 DEF InsertedOnce
  <2> QED
    BY <1>1, <1>2, <2>1 DEF InsertedOnce
<1>6. DeletedGone'
  BY <1>1 DEF DeletedGone
<1>7. DOMAIN table \cap (DOMAIN schedules \cup Coming) \subseteq DOMAIN schedules' \cup Coming'
  <2>1. \A r \in Coming : r \in Coming' \/ (r = q.rule /\ q.kind = "insert")
    BY <1>1 DEF Coming
  <2>2. q.rule \in DOMAIN table => q.kind # "delete"
    BY <1>1 DEF DeletedGone
  <2> QED
    BY <1>2, <1>3, <2>1, <2>2
<1>8. Followed'
  BY <1>1, <1>7 DEF Followed
<1>9. Unhurried'
  <2>1. \A x \in writes' : x.rule \notin hasty => x.rule # q.rule
    BY <1>1 DEF Unhurried
  <2>2. \A x \in writes' : x.rule \notin hasty =>
          /\ x.kind = "insert" => x.rule \notin DOMAIN schedules'
          /\ x.kind # "delete" /\ x.outcome = "done" => x.rule \in DOMAIN table /\ table[x.rule] = x.row
    BY <1>1, <1>2, <2>1 DEF Unhurried
  <2> QED
    BY <1>1, <2>2 DEF Unhurried
<1>10. S!ShownIsStored'
  <2> SUFFICES ASSUME status = "ready", NEW s \in DOMAIN schedules', s \notin hasty
               PROVE  S!UnderWay(s)' \/ rowError[s] \/ (s \in DOMAIN table /\ table[s] = schedules'[s])
    BY <1>1 DEF S!ShownIsStored
  <2>1. CASE s = q.rule
    BY <1>1, <1>2, <2>1 DEF Unhurried
  <2>2. CASE s # q.rule
    <3>1. S!UnderWay(s) => S!UnderWay(s)'
      BY <1>1, <2>2 DEF S!UnderWay
    <3> QED
      BY <1>2, <2>2, <3>1 DEF S!ShownIsStored
  <2> QED
    BY <2>1, <2>2
<1> QED
  BY <1>4, <1>5, <1>6, <1>8, <1>9, <1>10

LEMMA AnswerFailedInv == ASSUME StoreBounds, StoreInv, NEW q \in writes, S!AnswerFailed(q) PROVE StoreInv'
<1> USE DEF StoreInv
<1>1. /\ q.outcome = "failed" /\ writes' = writes \ {q} /\ schedules' = schedules
      /\ busy' = [busy EXCEPT ![S!Key(q)] = FALSE] /\ rowError' = [rowError EXCEPT ![S!Key(q)] = TRUE]
      /\ UNCHANGED <<table, list, status, sent, faults, hasty, unheard>>
  BY DEF S!AnswerFailed, S!KeptAfter
<1>2. q.kind \in {"insert", "update", "delete"} /\ q.rule \in S!Rule /\ S!Key(q) \in S!Rule \cup {S!CREATING}
  BY RequestFields DEF StoreTypes, S!Key
<1>3. StoreTypes'
  <2>1. busy' \in [S!Rule \cup {S!CREATING} -> BOOLEAN] /\ rowError' \in [S!Rule \cup {S!CREATING} -> BOOLEAN]
    BY <1>1, <1>2 DEF StoreTypes
  <2> QED
    BY <1>1, <2>1 DEF StoreTypes
<1>4. Coming' = Coming
  BY <1>1 DEF Coming
<1>5. InsertedOnce' /\ DeletedGone' /\ Followed' /\ Unhurried'
  <2>1. InsertedOnce' /\ DeletedGone'
    BY <1>1 DEF InsertedOnce, DeletedGone
  <2>2. Followed'
    BY <1>1, <1>4 DEF Followed
  <2>3. Unhurried'
    BY <1>1 DEF Unhurried
  <2> QED
    BY <2>1, <2>2, <2>3
<1>6. S!ShownIsStored'
  <2> SUFFICES ASSUME status = "ready", NEW s \in DOMAIN schedules, s \notin hasty
               PROVE  S!UnderWay(s)' \/ rowError'[s] \/ (s \in DOMAIN table /\ table[s] = schedules[s])
    BY <1>1 DEF S!ShownIsStored
  <2>1. rowError[s] => rowError'[s]
    BY <1>1, <1>2 DEF StoreTypes
  <2>2. CASE s = q.rule
    <3>1. q.kind # "insert"
      BY <2>2 DEF Unhurried
    <3> QED
      BY <1>1, <1>2, <2>2, <3>1 DEF S!Key, StoreTypes
  <2>3. CASE s # q.rule
    <3>1. S!UnderWay(s) => S!UnderWay(s)'
      BY <1>1, <2>3 DEF S!UnderWay
    <3> QED
      BY <2>1, <3>1 DEF S!ShownIsStored
  <2> QED
    BY <2>2, <2>3
<1> QED
  BY <1>3, <1>5, <1>6

LEMMA StoreInit == ASSUME StoreBounds, S!Init PROVE StoreInv
<1>1. 1 \in S!Rule /\ 0 \in 0..MaxRequests /\ 1 \in 0..MaxRequests /\ 0 \in 0..MaxFaults
  BY DEF StoreBounds, S!Rule
<1>2. S!Blank \in RuleRow /\ [f \in Field |-> 1] \in RuleRow
  BY <1>1 DEF S!Blank, RuleRow
<1>3. /\ DOMAIN table = {1} /\ table \in [{1} -> RuleRow] /\ DOMAIN schedules = {} /\ list = S!NotRead
      /\ status = "loading" /\ writes = {} /\ sent = 1 /\ faults = 0 /\ hasty = {} /\ unheard = {}
      /\ busy \in [S!Rule \cup {S!CREATING} -> BOOLEAN] /\ rowError = busy
  BY <1>2 DEF S!Init
<1>4. schedules \in [{} -> RuleRow]
  BY DEF S!Init
<1>5. StoreTypes
  BY <1>1, <1>3, <1>4 DEF StoreTypes
<1>6. InsertedOnce /\ DeletedGone /\ Followed /\ Unhurried /\ S!ShownIsStored
  BY <1>3 DEF InsertedOnce, DeletedGone, Followed, Unhurried, S!ShownIsStored
<1> QED
  BY <1>5, <1>6 DEF StoreInv

LEMMA AskedInv ==
  ASSUME StoreBounds, StoreInv,
         S!Create \/ \E r \in S!Rule : S!Remove(r) \/ \E f \in Field : S!Patch(r, f)
  PROVE  StoreInv'
<1>1. S!Blank \in RuleRow
  BY DEF S!Blank, RuleRow, StoreBounds
<1>2. CASE S!Create
  <2>1. S!Request("insert", sent + 1, S!Blank)
    BY <1>2 DEF S!Create
  <2> QED
    BY <1>1, <2>1, RequestInv
<1>3. ASSUME NEW r \in S!Rule, S!Remove(r) PROVE StoreInv'
  BY <1>1, <1>3, RequestInv DEF S!Remove
<1>4. ASSUME NEW r \in S!Rule, NEW f \in Field, S!Patch(r, f) PROVE StoreInv'
  <2>1. r \in DOMAIN schedules /\ S!Request("update", r, S!Patched(r, f))
    BY <1>4 DEF S!Patch
  <2>2. sent + 1 \in 0..MaxRequests
    BY <2>1 DEF S!Request, StoreInv, StoreTypes, S!Rule, StoreBounds
  <2>3. S!Patched(r, f) \in RuleRow
    BY <2>1, <2>2 DEF S!Patched, StoreInv, StoreTypes, RuleRow
  <2> QED
    BY <2>1, <2>3, RequestInv
<1> QED
  BY <1>2, <1>3, <1>4

LEMMA StoreNext == ASSUME StoreBounds, StoreInv, [S!Next]_S!schedulestore_vars PROVE StoreInv'
<1>1. CASE S!Next
  BY <1>1, FetchInv, LoadedInv, LoadFailsInv, AskedInv, StoreStep, FailInv, AnswerInv, AnswerFailedInv,
     Zenon DEF S!Next
<1>2. CASE UNCHANGED S!schedulestore_vars
  BY <1>2 DEF S!schedulestore_vars, StoreInv, StoreTypes, InsertedOnce, DeletedGone, Followed, Coming,
     Unhurried,
     S!ShownIsStored, S!UnderWay
<1> QED
  BY <1>1, <1>2

\* What the invariant of the store is for.
LEMMA StoreKept == ASSUME StoreInv PROVE S!NothingVanishes /\ S!ShownIsStored
BY DEF StoreInv, Followed, S!NothingVanishes, Coming, S!UnderWay

LEMMA StoreTyped == ASSUME StoreBounds, StoreTypes PROVE S!TypeOK
<1>1. \A q \in writes :
       /\ q.n \in 1..sent /\ q.kind \in {"insert", "update", "delete"} /\ q.rule \in S!Rule
       /\ q.row \in [Field -> 0..MaxRequests] /\ q.outcome \in {"asked", "done", "failed"}
  BY RequestFields DEF StoreTypes, RuleRow
<1>2. 1..sent \subseteq S!Rule /\ sent \in 0..MaxRequests
  BY DEF StoreTypes, S!Rule, StoreBounds
<1> QED
  BY <1>1, <1>2 DEF StoreTypes, S!TypeOK, RuleRow

LEMMA StoreStays == AnySpec => []StoreInv
<1>1. S!Spec => []StoreInv
  BY StoreInit, StoreNext, WritesAssumption, PTL DEF S!Spec
<1> QED
  BY <1>1, OfSchedules, PTL

\* A rule of the table is on the page once the list is read, or its insertion is under way
\* or was never heard of: no refused, lost or reordered write hides one that goes on
\* switching the building.
THEOREM NoRuleVanishes == AnySpec => []NothingVanishes
<1>1. StoreInv => NothingVanishes
  BY StoreKept DEF NothingVanishes
<1> QED
  BY <1>1, StoreStays, PTL

\* What the page shows of a rule, with no write of it under way and no error beside it, is
\* what the table holds, unless it was changed during another change or a load.
THEOREM PageShowsStored == AnySpec => []ShownIsStored
<1>1. StoreInv => ShownIsStored
  BY StoreKept DEF ShownIsStored
<1> QED
  BY <1>1, StoreStays, PTL

-----------------------------------------------------------------------------
(***************************************************************************)
(* The clock and the stamps of the archive.                                *)
(***************************************************************************)
Row == [at : Int, ts : Int, origin : {"ingest", "buffer"}, right : BOOLEAN, unsynced : BOOLEAN]
Stamp == [at : Int, ts : Int]


\* Types, with what the archive and the bridge hold.
TypeInv ==
  /\ C!TypeOK
  /\ rows \in Seq(Row) /\ buffer \in Seq(Stamp) /\ report \in Stamp
  /\ last \in [error : Int, seen : BOOLEAN]

\* The clock as the ticks of this life have seen it: until it is synchronised it shows
\* the error of the last tick, and the bridge's report bears that error or none.
ClockSeen ==
  /\ off # 0 => report.ts = report.at + off
  /\ last.seen => running
  /\ ticking => last.seen
  /\ last.seen /\ off # 0 => last.error = off
  /\ last.seen /\ last.error # 0 => report.ts \in {report.at, report.at + last.error}

OfThisLife(i) == i > clockMarkIds /\ rows[i].origin = "ingest"

\* A row keeps the stamp it was given, but for those a life with a clock not yet
\* synchronised archived: they bear the error the last tick saw, until it is measured.
StampsKept ==
  /\ clockUnsyncedAtStart => running /\ ~measured
  /\ measured => running
  /\ \A i \in DOMAIN rows :
       /\ ~rows[i].unsynced => (rows[i].right <=> rows[i].ts = rows[i].at)
       /\ clockUnsyncedAtStart /\ i > clockMarkIds => rows[i].unsynced
       /\ running /\ ~last.seen => ~OfThisLife(i)
       /\ clockUnsyncedAtStart /\ last.seen /\ last.error # 0 /\ OfThisLife(i) /\ ~rows[i].right
            => rows[i].ts = rows[i].at + last.error
       /\ measured /\ OfThisLife(i) /\ rows[i].unsynced /\ ~rows[i].right
            => i <= uploaded \/ rows[i].ts = rows[i].at

CInv == TypeInv /\ ClockSeen /\ StampsKept

\* What a row is made of.
LEMMA RowFields ==
  ASSUME NEW s \in Seq(Row), NEW i \in DOMAIN s
  PROVE  /\ s[i].at \in Int /\ s[i].ts \in Int /\ s[i].origin \in {"ingest", "buffer"}
         /\ s[i].right \in BOOLEAN /\ s[i].unsynced \in BOOLEAN /\ i \in 1..Len(s)
<1>1. s[i] \in Row /\ i \in 1..Len(s)
  OBVIOUS
<1> QED
  BY <1>1 DEF Row

\* Insertion adds at most one row, behind all others.
LEMMA InsertedRow ==
  ASSUME rows \in Seq(Row), NEW r \in Stamp, NEW origin \in {"ingest", "buffer"}, NEW unsynced \in BOOLEAN
  PROVE  LET next == C!Inserted(r, origin, unsynced) IN
         /\ next \in Seq(Row) /\ Len(next) >= Len(rows)
         /\ \A i \in DOMAIN rows : i \in DOMAIN next /\ next[i] = rows[i]
         /\ \A i \in DOMAIN next :
              \/ i \in DOMAIN rows
              \/ /\ i = Len(rows) + 1
                 /\ next[i] = [at |-> r.at, ts |-> r.ts, origin |-> origin,
                               right |-> r.ts = r.at, unsynced |-> unsynced]
<1> DEFINE row == [at |-> r.at, ts |-> r.ts, origin |-> origin, right |-> r.ts = r.at, unsynced |-> unsynced]
<1>1. row \in Row
  BY DEF Row, Stamp
<1>2. CASE r.ts \in C!Stamps
  BY <1>2 DEF C!Inserted
<1>3. CASE r.ts \notin C!Stamps
  <2>1. C!Inserted(r, origin, unsynced) = Append(rows, row)
    BY <1>3 DEF C!Inserted
  <2> HIDE DEF row
  <2>2. /\ Append(rows, row) \in Seq(Row) /\ Len(Append(rows, row)) = Len(rows) + 1
        /\ \A i \in 1..Len(rows) : Append(rows, row)[i] = rows[i]
        /\ Append(rows, row)[Len(rows) + 1] = row
    BY <1>1
  <2> QED
    BY <2>1, <2>2 DEF row
<1> QED
  BY <1>2, <1>3

\* A re-timing moves the rows of this life the cloud does not have, and nothing else.
LEMMA ShiftedRow ==
  ASSUME TypeInv, NEW step \in Int
  PROVE  /\ C!Shifted(step) \in Seq(Row) /\ Len(C!Shifted(step)) = Len(rows) /\ DOMAIN C!Shifted(step) = DOMAIN rows
         /\ \A i \in DOMAIN rows :
              /\ C!Shifted(step)[i].at = rows[i].at /\ C!Shifted(step)[i].origin = rows[i].origin
              /\ C!Shifted(step)[i].right = rows[i].right /\ C!Shifted(step)[i].unsynced = rows[i].unsynced
              /\ C!Shifted(step)[i].ts = IF i > clockMarkIds /\ i > cursor THEN rows[i].ts + step ELSE rows[i].ts
<1>1. DOMAIN rows = 1..Len(rows) /\ Len(rows) \in Nat
  BY DEF TypeInv
<1>2. ASSUME NEW i \in DOMAIN rows
      PROVE  /\ C!Shifted(step)[i] \in Row
             /\ C!Shifted(step)[i].at = rows[i].at /\ C!Shifted(step)[i].origin = rows[i].origin
             /\ C!Shifted(step)[i].right = rows[i].right /\ C!Shifted(step)[i].unsynced = rows[i].unsynced
             /\ C!Shifted(step)[i].ts = IF i > clockMarkIds /\ i > cursor THEN rows[i].ts + step ELSE rows[i].ts
  <2>1. rows[i] \in Row
    BY DEF TypeInv
  <2>2. C!Shifted(step)[i] = IF i > clockMarkIds /\ i > cursor THEN [rows[i] EXCEPT !.ts = @ + step] ELSE rows[i]
    BY DEF C!Shifted, C!AfterMark
  <2> QED
    BY <2>1, <2>2 DEF Row
<1>3. C!Shifted(step) = [i \in 1..Len(rows) |-> C!Shifted(step)[i]]
  BY <1>1 DEF C!Shifted
<1>4. C!Shifted(step) \in Seq(Row) /\ Len(C!Shifted(step)) = Len(rows)
  BY <1>1, <1>2, <1>3
<1> QED
  BY <1>1, <1>2, <1>3, <1>4

\* Each step keeps the invariant, from here on.
LEMMA StartInv == ASSUME ClockBounds, CInv, C!Start PROVE CInv'
<1> USE DEF CInv
<1>1. PICK unsynced \in BOOLEAN :
        /\ clockUnsyncedAtStart' = unsynced
        /\ rows' = (IF buffer = <<>> THEN rows ELSE C!Inserted(buffer[1], "buffer", unsynced))
  BY DEF C!Start, TypeInv, C!TypeOK
<1>2. /\ rows' \in Seq(Row) /\ Len(rows') >= Len(rows)
      /\ \A i \in DOMAIN rows : i \in DOMAIN rows' /\ rows'[i] = rows[i]
      /\ \A i \in DOMAIN rows' :
           \/ i \in DOMAIN rows
           \/ /\ i = Len(rows) + 1 /\ rows'[i].origin = "buffer" /\ rows'[i].unsynced = unsynced
              /\ rows'[i].right = (rows'[i].ts = rows'[i].at)
  <2>1. CASE buffer = <<>>
    BY <1>1, <2>1 DEF TypeInv
  <2>2. CASE buffer # <<>>
    <3>1. buffer[1] \in Stamp /\ rows \in Seq(Row)
      BY <2>2 DEF TypeInv
    <3> QED
      BY <1>1, <2>2, <3>1, InsertedRow
  <2> QED
    BY <2>1, <2>2
<1>3. TypeInv'
  <2>1. /\ clockMarkIds' = Len(rows) /\ buffer' = <<>> /\ running' = TRUE /\ lives' \in 0..MaxLives
        /\ UNCHANGED <<time, off, report, cursor, last, ticking, measured, uploaded, failures>>
    BY DEF C!Start, TypeInv, C!TypeOK, ClockBounds
  <2>2. /\ cursor \in 0..Len(rows') /\ uploaded \in 0..Len(rows') /\ Len(rows) \in 0..Len(rows')
    BY <1>2 DEF TypeInv, C!TypeOK
  <2>3. <<>> \in Seq(Stamp)
    OBVIOUS
  <2> QED
    BY <1>1, <1>2, <2>1, <2>2, <2>3, RowFields DEF TypeInv, C!TypeOK
<1>4. ClockSeen'
  BY DEF C!Start, ClockSeen, StampsKept
<1>5. StampsKept'
  <2>1. running' /\ ~last'.seen /\ ~measured' /\ clockMarkIds' = Len(rows)
    BY DEF C!Start, StampsKept, ClockSeen
  <2>2. ASSUME NEW i \in DOMAIN rows'
        PROVE /\ ~rows'[i].unsynced => (rows'[i].right <=> rows'[i].ts = rows'[i].at)
              /\ i > Len(rows) => rows'[i].origin = "buffer" /\ rows'[i].unsynced = unsynced
    <3>1. CASE i \in DOMAIN rows
      BY <1>2, <3>1 DEF StampsKept, TypeInv
    <3>2. CASE i \notin DOMAIN rows
      BY <1>2, <3>2
    <3> QED
      BY <3>1, <3>2
  <2> QED
    BY <1>1, <2>1, <2>2 DEF StampsKept, OfThisLife
<1> QED
  BY <1>3, <1>4, <1>5

LEMMA NoteClockInv == ASSUME ClockBounds, CInv, C!NoteClock PROVE CInv'
<1> USE DEF CInv
<1>1. /\ running /\ ~ticking /\ ticking' /\ last' = [error |-> off, seen |-> TRUE]
      /\ UNCHANGED <<time, off, report, cursor, buffer, running, clockMarkIds, lives>>
  BY DEF C!NoteClock, C!Observed
<1>2. off \in Int
  BY DEF TypeInv, C!TypeOK, C!Errors, ClockBounds
<1>3. ClockSeen'
  BY <1>1, <1>2 DEF ClockSeen, TypeInv, Stamp
<1>4. CASE /\ ~last.seen \/ off - last.error = 0 \/ ~clockUnsyncedAtStart
           /\ UNCHANGED <<rows, clockUnsyncedAtStart, measured, uploaded, failures>>
  <2>1. TypeInv'
    BY <1>1, <1>2, <1>4 DEF TypeInv, C!TypeOK
  <2>2. last.seen /\ clockUnsyncedAtStart => last'.error = last.error
    BY <1>1, <1>2, <1>4 DEF TypeInv
  <2>3. StampsKept'
    BY <1>1, <1>4, <2>2 DEF StampsKept, OfThisLife
  <2> QED
    BY <1>3, <2>1, <2>3
<1>5. CASE /\ last.seen /\ clockUnsyncedAtStart /\ clockUnsyncedAtStart' = FALSE
           /\ UNCHANGED <<rows, measured, uploaded>> /\ failures' \in 0..MaxTrouble
  <2>1. TypeInv'
    BY <1>1, <1>2, <1>5 DEF TypeInv, C!TypeOK
  <2>2. StampsKept'
    BY <1>1, <1>5 DEF StampsKept, OfThisLife
  <2> QED
    BY <1>3, <2>1, <2>2
<1>6. CASE /\ last.seen /\ clockUnsyncedAtStart /\ clockUnsyncedAtStart' = FALSE /\ off - last.error # 0
           /\ rows' = C!Shifted(off - last.error) /\ measured' = TRUE /\ uploaded' = cursor /\ UNCHANGED failures
  <2>1. off = 0 /\ off - last.error = -last.error /\ last.error # 0 /\ last.error \in Int /\ off - last.error \in Int
    BY <1>2, <1>6 DEF ClockSeen, TypeInv
  <2>2. /\ rows' \in Seq(Row) /\ Len(rows') = Len(rows) /\ DOMAIN rows' = DOMAIN rows
        /\ \A i \in DOMAIN rows :
              /\ rows'[i].at = rows[i].at /\ rows'[i].origin = rows[i].origin
              /\ rows'[i].right = rows[i].right /\ rows'[i].unsynced = rows[i].unsynced
              /\ rows'[i].ts = IF i > clockMarkIds /\ i > cursor THEN rows[i].ts - last.error ELSE rows[i].ts
    <3>1. rows' = C!Shifted(-last.error) /\ -last.error \in Int
      BY <1>6, <2>1
    <3>2. \A x \in Int : x + (-last.error) = x - last.error
      BY <2>1
    <3>3. \A i \in DOMAIN rows : rows[i].ts \in Int
      BY RowFields DEF TypeInv
    <3> QED
      BY <3>1, <3>2, <3>3, ShiftedRow
  <2>3. TypeInv'
    BY <1>1, <1>2, <1>6, <2>2, RowFields DEF TypeInv, C!TypeOK
  <2>4. ASSUME NEW i \in DOMAIN rows'
        PROVE  /\ ~rows'[i].unsynced => (rows'[i].right <=> rows'[i].ts = rows'[i].at)
               /\ OfThisLife(i)' /\ rows'[i].unsynced /\ ~rows'[i].right
                    => i <= uploaded' \/ rows'[i].ts = rows'[i].at
    <3>1. i \in DOMAIN rows /\ i \in Int /\ rows[i].ts \in Int /\ rows[i].at \in Int
      BY <2>2, RowFields DEF TypeInv
    <3>2. ~rows[i].unsynced => rows'[i].ts = rows[i].ts
      BY <1>6, <2>2, <3>1 DEF StampsKept
    <3>3. OfThisLife(i)' = OfThisLife(i)
      BY <1>1, <2>2, <3>1 DEF OfThisLife
    <3>4. OfThisLife(i) /\ ~rows[i].right => rows[i].ts = rows[i].at + last.error
      BY <1>6, <2>1, <3>1 DEF StampsKept
    <3>5. cursor \in Int /\ (i <= cursor \/ i > cursor)
      BY <3>1 DEF TypeInv, C!TypeOK
    <3>6. OfThisLife(i) /\ ~rows[i].right /\ i > cursor => rows'[i].ts = rows[i].at
      BY <2>1, <2>2, <3>1, <3>4 DEF OfThisLife
    <3> QED
      BY <1>6, <2>2, <3>1, <3>2, <3>3, <3>5, <3>6 DEF StampsKept
  <2>5. StampsKept'
    BY <1>1, <1>6, <2>4 DEF StampsKept
  <2> QED
    BY <1>3, <2>3, <2>5
<1>7. failures < MaxTrouble => failures + 1 \in 0..MaxTrouble
  BY DEF TypeInv, C!TypeOK, ClockBounds
<1>8. failures \in 0..MaxTrouble
  BY DEF TypeInv, C!TypeOK
<1> QED
  BY <1>4, <1>5, <1>6, <1>7, <1>8 DEF C!NoteClock

LEMMA ArchiveInv == ASSUME ClockBounds, CInv, C!Archive PROVE CInv'
<1> USE DEF CInv
<1>1. /\ running /\ ticking /\ last.seen /\ ticking' = FALSE
      /\ rows' = C!Inserted(report, "ingest", clockUnsyncedAtStart)
      /\ UNCHANGED <<time, off, report, cursor, buffer, running, last, clockUnsyncedAtStart,
                     clockMarkIds, measured, uploaded, lives, failures>>
  BY DEF C!Archive, ClockSeen
<1>2. /\ rows' \in Seq(Row) /\ Len(rows') >= Len(rows)
      /\ \A i \in DOMAIN rows : i \in DOMAIN rows' /\ rows'[i] = rows[i]
      /\ \A i \in DOMAIN rows' :
           \/ i \in DOMAIN rows
           \/ /\ rows'[i].at = report.at /\ rows'[i].ts = report.ts
              /\ rows'[i].right = (report.ts = report.at) /\ rows'[i].unsynced = clockUnsyncedAtStart
  <2>1. rows \in Seq(Row) /\ report \in Stamp /\ clockUnsyncedAtStart \in BOOLEAN
    BY DEF TypeInv, C!TypeOK
  <2> QED
    BY <1>1, <2>1, InsertedRow
<1>3. TypeInv'
  <2>1. cursor \in 0..Len(rows') /\ uploaded \in 0..Len(rows') /\ clockMarkIds \in 0..Len(rows')
    BY <1>2 DEF TypeInv, C!TypeOK
  <2> QED
    BY <1>1, <1>2, <2>1, RowFields DEF TypeInv, C!TypeOK
<1>4. ClockSeen'
  BY <1>1 DEF ClockSeen
<1>5. StampsKept'
  <2>1. ASSUME NEW i \in DOMAIN rows'
        PROVE  /\ ~rows'[i].unsynced => (rows'[i].right <=> rows'[i].ts = rows'[i].at)
               /\ clockUnsyncedAtStart /\ i > clockMarkIds => rows'[i].unsynced
               /\ clockUnsyncedAtStart /\ last.error # 0 /\ OfThisLife(i)' /\ ~rows'[i].right
                    => rows'[i].ts = rows'[i].at + last.error
               /\ measured /\ OfThisLife(i)' /\ rows'[i].unsynced /\ ~rows'[i].right
                    => i <= uploaded \/ rows'[i].ts = rows'[i].at
    <3>1. CASE i \in DOMAIN rows
      <4>1. rows'[i] = rows[i] /\ OfThisLife(i)' = OfThisLife(i)
        BY <1>1, <1>2, <3>1 DEF OfThisLife
      <4> QED
        BY <1>1, <3>1, <4>1 DEF StampsKept
    <3>2. CASE i \notin DOMAIN rows
      BY <1>1, <1>2, <3>2 DEF StampsKept, ClockSeen
    <3> QED
      BY <3>1, <3>2
  <2> QED
    BY <1>1, <2>1 DEF StampsKept
<1> QED
  BY <1>3, <1>4, <1>5

\* The cloud takes rows, ingest stops, time passes, the device reports, the clock is set.
LEMMA OtherInv ==
  ASSUME ClockBounds, CInv, C!Upload \/ C!Stop \/ C!TimePasses \/ C!DeviceReports \/ C!Synchronise \/ UNCHANGED C!clock_vars
  PROVE  CInv'
<1> USE DEF CInv
<1>0. off \in Int /\ -Behind \in Int /\ Ahead \in Int /\ time \in Int
  BY DEF TypeInv, C!TypeOK, C!Errors, ClockBounds
<1>1. CASE C!Upload
  BY <1>1 DEF C!Upload, TypeInv, C!TypeOK, ClockSeen, StampsKept, OfThisLife
<1>2. CASE C!Stop
  <2>1. /\ running' = FALSE /\ last' = [error |-> 0, seen |-> FALSE] /\ ticking' = FALSE /\ measured' = FALSE
        /\ uploaded' = 0 /\ clockUnsyncedAtStart' = FALSE /\ 0 \in 0..Len(rows)
        /\ UNCHANGED <<time, rows, cursor, buffer, clockMarkIds, lives, failures>>
    BY <1>2 DEF C!Stop, C!NotObserved, TypeInv
  <2>2. \/ UNCHANGED <<off, report>>
        \/ off' \in C!Errors /\ off' \in Int /\ report' = [at |-> time, ts |-> time + off']
    BY <1>0, <1>2 DEF C!Stop, C!Errors
  <2>3. TypeInv'
    <3>1. report' \in Stamp /\ off' \in C!Errors \cup {0}
      <4>1. CASE UNCHANGED <<off, report>>
        BY <4>1 DEF TypeInv, C!TypeOK
      <4>2. CASE off' \in C!Errors /\ off' \in Int /\ report' = [at |-> time, ts |-> time + off']
        <5>1. time + off' \in Int
          BY <1>0, <4>2
        <5> QED
          BY <1>0, <4>2, <5>1 DEF Stamp
      <4> QED
        BY <2>2, <4>1, <4>2
    <3>2. last' \in [error : Int, seen : BOOLEAN]
      BY <2>1
    <3> QED
      BY <2>1, <3>1, <3>2 DEF TypeInv, C!TypeOK
  <2>4. ClockSeen'
    BY <2>1, <2>2 DEF ClockSeen
  <2>5. StampsKept'
    BY <2>1 DEF StampsKept
  <2> QED
    BY <2>3, <2>4, <2>5
<1>3. CASE C!TimePasses
  <2>1. time' \in 0..MaxTime
    BY <1>3 DEF C!TimePasses, TypeInv, C!TypeOK, ClockBounds
  <2> QED
    BY <1>3, <2>1 DEF C!TimePasses, TypeInv, C!TypeOK, ClockSeen, StampsKept, OfThisLife
<1>4. CASE C!DeviceReports
  <2>1. /\ report' = [at |-> time, ts |-> time + off] /\ UNCHANGED <<time, off, rows, cursor, buffer, running, last>>
        /\ UNCHANGED <<clockUnsyncedAtStart, clockMarkIds, ticking, measured, uploaded, lives, failures>>
    BY <1>4 DEF C!DeviceReports
  <2>2. TypeInv'
    BY <1>0, <2>1 DEF TypeInv, C!TypeOK, Stamp
  <2>3. ClockSeen'
    BY <1>0, <2>1 DEF ClockSeen
  <2>4. StampsKept'
    BY <2>1 DEF StampsKept, OfThisLife
  <2> QED
    BY <2>2, <2>3, <2>4
<1>5. CASE C!Synchronise
  <2>1. off' = 0 /\ off # 0 /\ UNCHANGED <<time, report, rows, cursor, buffer, running, last>>
        /\ UNCHANGED <<clockUnsyncedAtStart, clockMarkIds, ticking, measured, uploaded, lives, failures>>
    BY <1>5 DEF C!Synchronise
  <2>2. TypeInv'
    BY <2>1 DEF TypeInv, C!TypeOK
  <2>3. ClockSeen'
    BY <2>1 DEF ClockSeen
  <2>4. StampsKept'
    BY <2>1 DEF StampsKept, OfThisLife
  <2> QED
    BY <2>2, <2>3, <2>4
<1>6. CASE UNCHANGED C!clock_vars
  BY <1>6 DEF C!clock_vars, TypeInv, C!TypeOK, ClockSeen, StampsKept, OfThisLife
<1> QED
  BY <1>1, <1>2, <1>3, <1>4, <1>5, <1>6

LEMMA ClockStep == ASSUME ClockBounds, CInv, [C!Next]_C!clock_vars PROVE CInv'
BY StartInv, NoteClockInv, ArchiveInv, OtherInv DEF C!Next

LEMMA ClockInit == ASSUME ClockBounds, C!Init PROVE CInv
<1>1. rows \in Seq(Row) /\ Len(rows) = 1 /\ DOMAIN rows = {1} /\ rows[1].right = TRUE /\ rows[1].ts = rows[1].at
  BY DEF C!Init, Row
<1>2. buffer \in Seq(Stamp)
  <2>1. [at |-> -8, ts |-> -8] \in Stamp
    BY DEF Stamp
  <2>2. <<>> \in Seq(Stamp) /\ <<[at |-> -8, ts |-> -8]>> \in Seq(Stamp)
    BY <2>1
  <2> QED
    BY <2>2 DEF C!Init
<1>3. off \in Int /\ report \in Stamp /\ report.at = 0 /\ report.ts = off
  BY DEF C!Init, Stamp, C!Errors, ClockBounds
<1>4. TypeInv
  <2>1. last \in [error : Int, seen : BOOLEAN] /\ off \in C!Errors
    BY DEF C!Init, C!NotObserved
  <2>2. cursor \in 0..Len(rows) /\ time \in 0..MaxTime /\ lives \in 0..MaxLives /\ failures \in 0..MaxTrouble
    BY <1>1 DEF C!Init, ClockBounds
  <2>3. clockMarkIds \in 0..Len(rows) /\ uploaded \in 0..Len(rows)
    BY <1>1 DEF C!Init
  <2> QED
    BY <1>1, <1>2, <1>3, <2>1, <2>2, <2>3, RowFields DEF C!Init, TypeInv, C!TypeOK
<1>5. ClockSeen
  BY <1>3 DEF C!Init, ClockSeen, C!NotObserved
<1>6. StampsKept
  BY <1>1 DEF C!Init, StampsKept
<1> QED
  BY <1>4, <1>5, <1>6 DEF CInv

\* What the invariant of the clock is for.
LEMMA ClockTrue == ASSUME CInv PROVE C!StampsTrue
<1> SUFFICES ASSUME measured, NEW i \in DOMAIN rows
             PROVE  \/ rows[i].ts = rows[i].at
                    \/ i <= uploaded \/ rows[i].origin = "buffer"
                    \/ i <= clockMarkIds /\ ~rows[i].right
                    \/ rows[i].right = rows[i].unsynced
  BY DEF C!StampsTrue
<1>1. /\ i \in Int /\ clockMarkIds \in Int /\ rows[i].origin \in {"ingest", "buffer"}
      /\ rows[i].right \in BOOLEAN /\ rows[i].unsynced \in BOOLEAN
  BY RowFields DEF CInv, TypeInv, C!TypeOK
<1>2. CASE rows[i].right /\ ~rows[i].unsynced
  BY <1>2 DEF CInv, StampsKept
<1>3. CASE ~rows[i].right /\ rows[i].unsynced
  <2>1. i <= clockMarkIds \/ i > clockMarkIds
    BY <1>1
  <2> QED
    BY <1>1, <1>3, <2>1 DEF CInv, StampsKept, OfThisLife
<1> QED
  BY <1>1, <1>2, <1>3

LEMMA ClockStays == AnySpec => []CInv
<1>1. C!Spec => []CInv
  BY ClockInit, ClockStep, WritesAssumption, PTL DEF C!Spec
<1> QED
  BY <1>1, OfClock, PTL

\* Once the step of the clock is measured, every row bears the time it was, unless it was
\* up, buffered or stamped wrong by an earlier life, or was stamped on one side of the
\* step and archived on the other: for any error of the clock and any number of lives.
THEOREM RowsBearTheirTime == AnySpec => []StampsTrue
<1>1. CInv => StampsTrue
  BY ClockTrue DEF StampsTrue
<1> QED
  BY <1>1, ClockStays, PTL

-----------------------------------------------------------------------------
\* Setpoints stay in the aircon's range, requests and rules are ones that were made, and
\* the marks of the archive lie in it, whatever fails.
THEOREM TypesCorrect == AnySpec => []EveryType
<1>1. AirInv => A!TypeOK
  BY AirTyped DEF AirInv
<1>2. StoreInv => S!TypeOK
  BY StoreTyped, WritesAssumption DEF StoreInv
<1>3. CInv => C!TypeOK
  BY DEF CInv, TypeInv
<1>4. A!TypeOK /\ TypeOK /\ S!TypeOK /\ C!TypeOK => EveryType
  BY DEF EveryType
<1>5. Apartness
  BY WritesAssumption DEF Apartness
<1> QED
  BY <1>1, <1>2, <1>3, <1>4, <1>5, AirKept, StoreStays, ClockStays, OfEnrolment, TypeCorrect, PTL
=============================================================================
