------------------------------ MODULE HotTier ------------------------------
(***************************************************************************)
(* The hot tier: the edge's archive keeps every raw row, the cloud only    *)
(* the last Window hours.  A pass seals complete days into files, copies   *)
(* them off the edge and prunes the cloud step by step, each step behind   *)
(* three gates (hotTier.mjs, archiveSeal.mjs, archiveJanitor.mjs).  Ticks, *)
(* uploads and freezes go on between any two requests of a pass.           *)
(*                                                                         *)
(* One stream of one device: a row is a minute, known by its number.  Time *)
(* is counted in hours, the unit the cloud rolls up; a day has DayLen.     *)
(***************************************************************************)
EXTENDS Integers, FiniteSets

CONSTANTS
  MaxRow,       \* bound: rows recorded in a behaviour
  MaxHour,      \* bound: the last hour
  RecordHours,  \* bound: the hours in which rows are recorded
  DayLen,       \* hours of a day
  Window,       \* hours of raw rows the cloud keeps (hotDays)
  Grace,        \* hours after its end before a day is sealed (SEAL_GRACE_MS)
  DaysPerPass,  \* days sealed in one pass (SEAL_DAYS_PER_PASS)
  Refused,      \* rows the cloud refuses for good
  MaxFaults,    \* bound: failed requests and lost answers
  MaxRestarts,  \* bound: restarts of ingest
  MaxFreezes    \* bound: freezes marked in the archive

Row == 1..MaxRow
Hour == 0..MaxHour
DayOf(h) == h \div DayLen
Day == {DayOf(h) : h \in Hour}

ASSUME CountsAssumption ==
  /\ MaxRow \in Nat /\ MaxHour \in Nat /\ DaysPerPass \in Nat
  /\ MaxFaults \in Nat /\ MaxRestarts \in Nat /\ MaxFreezes \in Nat
ASSUME WindowAssumption ==
  DayLen \in Nat \ {0} /\ Grace \in Nat /\ Window \in Nat /\ Window >= DayLen + Grace
ASSUME RefusedAssumption == Refused \subseteq Row

VARIABLES
  now,        \* the hour
  hour,       \* the hour of each row
  n,          \* rows recorded so far: 1..n
  archived,   \* rows the archive holds
  owed,       \* archived rows the upload cursor has not passed
  frozen,     \* archived rows marked frozen
  buffer,     \* rows in the outage buffer of the direct path
  cloud,      \* raw rows in the cloud
  rolled,     \* hours rolled up
  counted,    \* rows rolled up, then deleted
  uncounted,  \* rows deleted after their hour had been rolled up without them
  missed,     \* rows no gate could see: in the buffer when their hour was rolled up,
              \* or flushed from it behind the gates (history)
  seal,       \* sealed_days: the row count and whether the copy is off the edge
  file,       \* the sealed file of a day: rows and their marks
  storage,    \* its copy in the file storage
  pass,       \* the running pass
  faults, restarts, freezes

tick == <<now, hour, n, archived, owed, frozen, buffer>>
database == <<cloud, rolled, counted, uncounted, missed>>
seals == <<seal, file, storage>>
spent == <<faults, restarts, freezes>>
vars == <<tick, database, seals, pass, spent>>

NoSeal == [count |-> 0, uploaded |-> FALSE]     \* a day without rows is never sealed
Idle == [stage |-> "idle", at |-> 0, since |-> 0, until |-> 0, days |-> {}, short |-> {}]

In(S, h) == {r \in S : hour[r] = h}
Before(S, h) == {r \in S : hour[r] < h}
DayRows(d) == {r \in archived : DayOf(hour[r]) = d}
Content(d) == {<<r, r \in frozen>> : r \in DayRows(d)}
Rows(content) == {x[1] : x \in content}
Pruned == counted \cup uncounted

Init ==
  /\ now = 0 /\ n = 0 /\ hour = [r \in Row |-> 0]
  /\ archived = {} /\ owed = {} /\ frozen = {} /\ buffer = {}
  /\ cloud = {} /\ rolled = {} /\ counted = {} /\ uncounted = {} /\ missed = {}
  /\ seal = [d \in Day |-> NoSeal]
  /\ file = [d \in Day |-> {}] /\ storage = [d \in Day |-> {}]
  /\ pass = Idle
  /\ faults = 0 /\ restarts = 0 /\ freezes = 0

Fault == faults < MaxFaults /\ faults' = faults + 1 /\ UNCHANGED <<restarts, freezes>>

-----------------------------------------------------------------------------
(***************************************************************************)
(* What ingest does meanwhile.                                             *)
(***************************************************************************)
HourPasses ==
  /\ now < MaxHour /\ now' = now + 1
  /\ UNCHANGED <<hour, n, archived, owed, frozen, buffer, database, seals, pass, spent>>

\* A minute to be recorded.
NextRow ==
  /\ n < MaxRow /\ now \in RecordHours
  /\ n' = n + 1 /\ hour' = [hour EXCEPT ![n + 1] = now]
  /\ UNCHANGED <<now, frozen, seals, pass>>

Record ==
  /\ NextRow
  /\ archived' = archived \cup {n + 1} /\ owed' = owed \cup {n + 1}
  /\ UNCHANGED <<buffer, database, spent>>

\* The archive refuses the tick: the buffer is flushed and the row written
\* straight to the cloud. What is not acknowledged stays in or joins the buffer.
RecordDirect ==
  /\ NextRow
  /\ LET sent == buffer \cup {n + 1} IN
       \E stored \in SUBSET (sent \ Refused), kept \in SUBSET sent :
         /\ sent \ stored \subseteq kept
         /\ cloud' = cloud \cup stored /\ buffer' = kept
         /\ missed' = missed \cup Before(buffer \cap stored, IF pass.stage = "pruning" THEN pass.until ELSE pass.since)
  /\ UNCHANGED <<archived, owed, rolled, counted, uncounted, spent>>

\* One row of a drain; its answer may be lost (archiveUpload.mjs).
Upload(r) ==
  /\ r \in owed \ Refused
  /\ cloud' = cloud \cup {r}
  /\ \/ owed' = owed \ {r} /\ UNCHANGED spent
     \/ UNCHANGED owed /\ Fault
  /\ UNCHANGED <<now, hour, n, archived, frozen, buffer, rolled, counted, uncounted, missed, seals, pass>>

SetAside(r) ==
  /\ r \in owed \cap Refused
  /\ owed' = owed \ {r}
  /\ UNCHANGED <<now, hour, n, archived, frozen, buffer, database, seals, pass, spent>>

\* A freeze noticed now marks the archived minutes back to its start; the seals
\* of the days it reaches are left as they are.
FlagFrozen(since) ==
  /\ freezes < MaxFreezes /\ freezes' = freezes + 1
  /\ frozen' = frozen \cup {r \in archived : hour[r] >= since}
  /\ frozen' # frozen
  /\ UNCHANGED <<now, hour, n, archived, owed, buffer, database, seals, pass, faults, restarts>>

\* Ingest stops and starts again: the pass is gone, the buffer goes into the
\* archive, where rows it already holds are ignored (INSERT OR IGNORE); or what is
\* left of it, if the stop came while flushBuffer was rewriting it in place.
Restart ==
  /\ restarts < MaxRestarts /\ restarts' = restarts + 1
  /\ \E left \in SUBSET buffer :
       archived' = archived \cup left /\ owed' = owed \cup (left \ archived)
  /\ buffer' = {} /\ pass' = Idle
  /\ UNCHANGED <<now, hour, n, frozen, database, seals, faults, freezes>>

-----------------------------------------------------------------------------
(***************************************************************************)
(* sealPass.                                                               *)
(***************************************************************************)
Due == {d \in Day : d <= DayOf(now - Grace) - 1}
\* Mutant: a day is sealed once and never again.
NeverSealed == {d \in Due : DayRows(d) # {} /\ seal[d] = NoSeal}
Changed == {d \in Due : DayRows(d) # {} /\ seal[d].count # Cardinality(DayRows(d))}
\* Oldest first, at most DaysPerPass.
Chosen == {d \in Changed : Cardinality({e \in Changed : e < d}) < DaysPerPass}

\* Mutant: a day sealed again still counts as copied.
SealedStillCopied(days) ==
  /\ seal' = [d \in Day |-> IF d \in days THEN [seal[d] EXCEPT !.count = Cardinality(DayRows(d))]
                                          ELSE seal[d]]
  /\ file' = [d \in Day |-> IF d \in days THEN Content(d) ELSE file[d]]

Sealed(days) ==
  /\ seal' = [d \in Day |-> IF d \in days THEN [count |-> Cardinality(DayRows(d)), uploaded |-> FALSE]
                                          ELSE seal[d]]
  /\ file' = [d \in Day |-> IF d \in days THEN Content(d) ELSE file[d]]

\* The days to be sealed are sealed without a pause; then the copies go out.
StartPass ==
  /\ pass.stage = "idle"
  /\ Sealed(Chosen)
  /\ LET unsent == {d \in Day : seal'[d] # NoSeal /\ ~seal'[d].uploaded} IN
       pass' = [Idle EXCEPT !.at = now, !.days = unsent,
                            !.stage = IF unsent = {} THEN "oldest" ELSE "sending"]
  /\ UNCHANGED <<tick, database, storage, spent>>

\* Oldest first.
Turn(d) == pass.stage = "sending" /\ d \in pass.days /\ \A e \in pass.days : d <= e

CopySent(d) ==
  /\ Turn(d)
  /\ storage' = [storage EXCEPT ![d] = file[d]]
  /\ seal' = [seal EXCEPT ![d].uploaded = TRUE]
  /\ pass' = [pass EXCEPT !.days = @ \ {d}, !.stage = IF pass.days = {d} THEN "oldest" ELSE @]
  /\ UNCHANGED <<tick, database, file, spent>>

\* The first failed copy ends the copying, whether or not it arrived.
CopyFails(d) ==
  /\ Turn(d) /\ Fault
  /\ storage' \in {storage, [storage EXCEPT ![d] = file[d]]}
  /\ pass' = [pass EXCEPT !.stage = "oldest", !.days = {}]
  /\ UNCHANGED <<tick, database, seal, file>>

-----------------------------------------------------------------------------
(***************************************************************************)
(* runVerifiedPrune: one step of at most a day, behind its three gates.    *)
(***************************************************************************)
Cutoff == pass.at - Window
StepEnd(h) == IF Cutoff < (DayOf(h) + 1) * DayLen THEN Cutoff ELSE (DayOf(h) + 1) * DayLen

\* Mutant: gate 1 left out.
BeginUnasked(h) ==
  IF h < Cutoff THEN [pass EXCEPT !.stage = "manifest", !.since = h, !.until = StepEnd(h)] ELSE Idle

\* Gate 1, uploaded: read the oldest row in the cloud and see that the archive
\* owes nothing before the end of the step.
BeginStep(h) ==
  IF h < Cutoff /\ Before(owed, StepEnd(h)) = {}
  THEN [pass EXCEPT !.stage = "manifest", !.since = h, !.until = StepEnd(h)]
  ELSE Idle

ReadOldest ==
  /\ pass.stage = "oldest"
  /\ \/ cloud = {} /\ pass' = Idle
     \/ \E r \in cloud : (\A q \in cloud : hour[r] <= hour[q]) /\ pass' = BeginStep(hour[r])
  /\ UNCHANGED <<tick, database, seals, spent>>

\* Mutant: an hour of which the archive has any row counts as covered.
HoursWithout == {h \in pass.since..pass.until - 1 : In(cloud, h) # {} /\ In(archived, h) = {}}
\* Gate 2, covered: hours of which the cloud has more rows than the archive.
Shortfall == {h \in pass.since..pass.until - 1 : Cardinality(In(cloud, h)) > Cardinality(In(archived, h))}

\* Mutant: a sealed day need not be off the edge.
SealedOnly(d) == DayRows(d) = {} \/ seal[d].count = Cardinality(DayRows(d))
\* Gate 3, sealed and off the edge: every day of the step has as many rows as
\* when it was sealed, and its file was copied.
SealedAndCopied(d) == DayRows(d) = {} \/ (seal[d].count = Cardinality(DayRows(d)) /\ seal[d].uploaded)
GateOpen == \A h \in pass.since..pass.until - 1 : SealedAndCopied(DayOf(h))

Manifest ==
  /\ pass.stage = "manifest" /\ Shortfall # {}
  /\ pass' = [pass EXCEPT !.stage = "filling", !.short = Shortfall]
  /\ UNCHANGED <<tick, database, seals, spent>>

\* backfillStream copies one hour down; the rows are not sent up again.
Fill ==
  /\ pass.stage = "filling"
  /\ \E h \in pass.short :
       /\ \A k \in pass.short : h <= k
       /\ archived' = archived \cup In(cloud, h)
       /\ pass' = [pass EXCEPT !.short = @ \ {h}, !.stage = IF pass.short = {h} THEN "filled" ELSE @]
  /\ UNCHANGED <<now, hour, n, owed, frozen, buffer, database, seals, spent>>

\* A shortfall that was not filled stops the pass like a gate that is shut.
Covered ==
  /\ pass.stage = "filled" \/ (pass.stage = "manifest" /\ Shortfall = {})
  /\ pass' = IF Shortfall = {} /\ GateOpen THEN [pass EXCEPT !.stage = "pruning"] ELSE Idle
  /\ UNCHANGED <<tick, database, seals, spent>>

\* roll_up_and_prune_*: an hour already rolled up keeps its totals (`on conflict
\* do nothing`), and everything before the end of the step is deleted.
RollUpAndPrune ==
  LET gone == Before(cloud, pass.until)
      late == {r \in gone : hour[r] \in rolled} IN
  /\ rolled' = rolled \cup {hour[r] : r \in gone}
  /\ counted' = counted \cup (gone \ late)
  /\ uncounted' = uncounted \cup late
  /\ missed' = missed \cup Before(buffer, pass.until)
  /\ cloud' = cloud \ gone

Prune ==
  /\ pass.stage = "pruning" /\ RollUpAndPrune
  /\ \/ pass' = [pass EXCEPT !.stage = "oldest", !.since = 0] /\ UNCHANGED spent
     \/ pass' = Idle /\ Fault
  /\ UNCHANGED <<tick, seals>>

PassFails ==
  /\ pass.stage \notin {"idle", "sending"} /\ Fault
  /\ pass' = Idle
  /\ UNCHANGED <<tick, database, seals>>

PassStep ==
  \/ StartPass \/ (\E d \in Day : CopySent(d)) \/ ReadOldest \/ Manifest \/ Fill \/ Covered \/ Prune

Next ==
  \/ HourPasses \/ Record \/ RecordDirect
  \/ (\E r \in Row : Upload(r) \/ SetAside(r))
  \/ (\E h \in Hour : FlagFrozen(h))
  \/ Restart \/ (\E d \in Day : CopyFails(d)) \/ PassFails \/ PassStep

Spec == Init /\ [][Next]_vars

(***************************************************************************)
(* Passes run every six hours and drains every few minutes. Faults are     *)
(* bounded, so what is promised holds after the last of them.              *)
(***************************************************************************)
Drain == \E r \in Row : (Upload(r) /\ owed' # owed) \/ SetAside(r)

FairSpec == Spec /\ WF_vars(HourPasses) /\ WF_vars(PassStep) /\ WF_vars(Drain)

-----------------------------------------------------------------------------
Stage == {"idle", "sending", "oldest", "manifest", "filling", "filled", "pruning"}

TypeOK ==
  /\ now \in Hour /\ n \in 0..MaxRow /\ hour \in [Row -> Hour]
  /\ archived \subseteq 1..n /\ owed \subseteq archived /\ frozen \subseteq archived
  /\ buffer \subseteq 1..n
  /\ cloud \subseteq 1..n /\ rolled \subseteq Hour
  /\ counted \subseteq 1..n /\ uncounted \subseteq 1..n /\ missed \subseteq 1..n
  /\ seal \in [Day -> [count : Nat, uploaded : BOOLEAN]]
  /\ file \in [Day -> SUBSET (Row \X BOOLEAN)] /\ storage \in [Day -> SUBSET (Row \X BOOLEAN)]
  /\ pass \in [stage : Stage, at : Hour, since : Hour, until : Int, days : SUBSET Day, short : SUBSET Hour]
  /\ faults \in 0..MaxFaults /\ restarts \in 0..MaxRestarts /\ freezes \in 0..MaxFreezes

\* A seal counts the rows of its file, which the archive still holds; a copy
\* never has more than the file, and all of it once it is noted as sent.
SealsTrue ==
  \A d \in Day :
    /\ Rows(file[d]) \subseteq DayRows(d)
    /\ seal[d].count = Cardinality(Rows(file[d]))
    /\ Rows(storage[d]) \subseteq Rows(file[d])
    /\ seal[d].uploaded => Rows(storage[d]) = Rows(file[d])

\* What the gates have established for the step under way still holds, for every
\* row they could see.
InStep == pass.stage \in {"manifest", "filling", "filled", "pruning"}
StepSafe ==
  /\ pass.at <= now
  /\ InStep =>
    /\ pass.until <= pass.at - Window
    /\ \A r \in owed : hour[r] >= pass.until
    /\ \A r \in cloud : hour[r] >= pass.since \/ hour[r] >= pass.until \/ r \in missed
    /\ pass.stage = "pruning" =>
         \A r \in archived : hour[r] >= pass.since /\ hour[r] < pass.until
                               => r \in Rows(storage[DayOf(hour[r])])

\* What was pruned is copied, or is not coming back into the archive.
PrunedSafe ==
  \A r \in Pruned \ missed :
    \/ r \in archived /\ r \in Rows(storage[DayOf(hour[r])])
    \/ r \notin archived \cup buffer \cup cloud

\* A row still to come down to a rolled hour is one no gate could see.
RolledSafe ==
  /\ \A h \in rolled : h < now
  /\ \A r \in cloud \cup owed \cup buffer : hour[r] \in rolled => r \in missed
  /\ uncounted \subseteq missed

IInv == TypeOK /\ SealsTrue /\ StepSafe /\ PrunedSafe /\ RolledSafe

\* A row pruned from the cloud that the archive holds is in the copy of its day
\* off the edge, whatever was recorded, filled in, sealed again or lost while the
\* gates were passed ("so the SD card is never the only copy", archiveJanitor.mjs:14).
\* Rows the archive took from the outage buffer after the prune are not meant.
PrunedIsCopied ==
  \A r \in (Pruned \cap archived) \ missed : r \in Rows(storage[DayOf(hour[r])])

\* Nothing leaves the cloud that the archive does not hold, except a row of the
\* outage buffer that no gate sees, and where the count of gate 2 was made up by a
\* row that the cloud had refused.
PrunedIsHeld ==
  \A r \in Pruned \ (archived \cup missed) : \E q \in archived \cap Refused : hour[q] = hour[r]

\* A row is left out of its hour's total only if it sat in the outage buffer when
\* the hour was rolled up: gate 1 asks the archive, not the buffer.
UncountedWasBuffered == uncounted \subseteq missed

\* A day the gate lets through has exactly its rows in the copy, not only as many.
CopyHoldsDay ==
  \A d \in Day : SealedAndCopied(d) => DayRows(d) \subseteq Rows(storage[d])

\* No gate stays shut for ever: once requests are answered, the rows older than the
\* window leave the cloud.
WindowKept == []<>(\A r \in cloud : hour[r] >= MaxHour - Window)
=============================================================================
