--------------------------- MODULE HotTierProofs ---------------------------
(***************************************************************************)
(* What the three gates of a pruning step guarantee, for any number of     *)
(* rows, hours, faults and restarts, and any length of day and window.     *)
(***************************************************************************)
EXTENDS HotTier, FiniteSetTheorems, TLAPS

PassType == [stage : Stage, at : Hour, since : Hour, until : Int, days : SUBSET Day, short : SUBSET Hour]
Copy == SUBSET (Row \X BOOLEAN)

-----------------------------------------------------------------------------
(***************************************************************************)
(* Rows, hours and days.                                                   *)
(***************************************************************************)
\* What the type invariant says of rows, in small pieces.
LEMMA RowTypes ==
  ASSUME TypeOK
  PROVE  /\ n \in Nat /\ n <= MaxRow /\ MaxRow \in Nat /\ 1..n \subseteq Row
         /\ archived \subseteq 1..n /\ owed \subseteq archived /\ buffer \subseteq 1..n /\ cloud \subseteq 1..n
         /\ counted \subseteq 1..n /\ uncounted \subseteq 1..n /\ missed \subseteq 1..n
BY CountsAssumption DEF TypeOK, Row

LEMMA HourTypes ==
  ASSUME TypeOK
  PROVE  /\ now \in Hour /\ now \in Nat /\ Hour \subseteq Nat
         /\ \A r \in Row : hour[r] \in Hour /\ hour[r] \in Nat
BY CountsAssumption DEF TypeOK, Hour

LEMMA DayOfHour == ASSUME NEW h \in Hour PROVE DayOf(h) \in Day
BY DEF Day

\* Rows keep their hour once recorded, and a new one gets the hour it is.
LEMMA NewRowStep ==
  ASSUME TypeOK, NextRow
  PROVE  /\ n + 1 \in Row /\ n + 1 \notin 1..n /\ n' = n + 1
         /\ hour' \in [Row -> Hour]
         /\ hour'[n + 1] = now /\ \A r \in 1..n : hour'[r] = hour[r]
<1>1. hour \in [Row -> Hour]
  BY DEF TypeOK
<1>2. n + 1 \in Row /\ n + 1 \notin 1..n
  BY RowTypes DEF NextRow, Row
<1> QED
  BY <1>1, <1>2, RowTypes, HourTypes DEF NextRow

\* Sets of rows are finite.
LEMMA RowsFinite == ASSUME NEW S, S \subseteq Row PROVE IsFiniteSet(S) /\ Cardinality(S) \in Nat
<1>1. IsFiniteSet(Row)
  BY CountsAssumption, FS_Interval DEF Row
<1>2. IsFiniteSet(S)
  BY <1>1, FS_Subset
<1> QED
  BY <1>2, FS_CardinalityType

LEMMA DayRowsTyped == ASSUME TypeOK, NEW d PROVE DayRows(d) \subseteq Row
BY RowTypes DEF DayRows

LEMMA ContentRows == ASSUME NEW d PROVE Rows(Content(d)) = DayRows(d)
<1>1. \A r \in DayRows(d) : <<r, r \in frozen>>[1] = r
  OBVIOUS
<1>2. ASSUME NEW r \in DayRows(d) PROVE r \in Rows(Content(d))
  <2>1. <<r, r \in frozen>> \in Content(d)
    BY DEF Content
  <2> QED
    BY <2>1, <1>1 DEF Rows
<1>3. ASSUME NEW r \in Rows(Content(d)) PROVE r \in DayRows(d)
  <2>1. PICK x \in Content(d) : r = x[1]
    BY DEF Rows
  <2>2. PICK q \in DayRows(d) : x = <<q, q \in frozen>>
    BY <2>1 DEF Content
  <2> QED
    BY <2>1, <2>2
<1> QED
  BY <1>2, <1>3

LEMMA ContentTyped == ASSUME TypeOK, NEW d PROVE Content(d) \in Copy
<1>1. ASSUME NEW r \in DayRows(d) PROVE <<r, r \in frozen>> \in Row \X BOOLEAN
  <2>1. r \in Row
    BY DayRowsTyped
  <2>2. (r \in frozen) \in BOOLEAN
    OBVIOUS
  <2> QED
    BY <2>1, <2>2
<1> QED
  BY <1>1, Zenon DEF Content, Copy

-----------------------------------------------------------------------------
(***************************************************************************)
(* Types.                                                                  *)
(***************************************************************************)
\* The initial state satisfies the invariant.
LEMMA InitInv == Init => IInv
<1> SUFFICES ASSUME Init PROVE IInv
  OBVIOUS
<1> USE DEF Init
<1>1. TypeOK
  <2>1. 0 \in Hour /\ 0 \in Nat
    BY CountsAssumption DEF Hour
  <2>2. NoSeal \in [count : Nat, uploaded : BOOLEAN]
    BY DEF NoSeal
  <2>3. pass \in PassType
    BY <2>1 DEF Idle, Stage, PassType
  <2>4. hour \in [Row -> Hour]
    BY <2>1
  <2> QED
    BY <2>1, <2>2, <2>3, <2>4, CountsAssumption DEF TypeOK, PassType
<1>2. SealsTrue
  BY FS_EmptySet DEF SealsTrue, Rows, NoSeal
<1>3. StepSafe /\ PrunedSafe /\ RolledSafe
  BY DEF StepSafe, PrunedSafe, RolledSafe, Idle, Pruned, InStep
<1> QED
  BY <1>1, <1>2, <1>3 DEF IInv

LEMMA IdleTyped == Idle \in PassType
<1>1. 0 \in Hour
  BY CountsAssumption DEF Hour
<1> QED
  BY <1>1 DEF Idle, PassType, Stage

LEMMA StepEndTyped == ASSUME TypeOK, NEW h \in Hour PROVE StepEnd(h) \in Int /\ StepEnd(h) <= Cutoff /\ Cutoff = pass.at - Window
<1>1. pass.at \in Int
  BY CountsAssumption DEF TypeOK, Hour
<1>2. (DayOf(h) + 1) * DayLen \in Int
  <2>1. DayOf(h) \in Int
    BY WindowAssumption, CountsAssumption DEF DayOf, Hour
  <2> QED
    BY <2>1, WindowAssumption
<1>3. Cutoff \in Int
  BY <1>1, WindowAssumption DEF Cutoff
<1> QED
  BY <1>2, <1>3 DEF StepEnd, Cutoff

\* A step keeps every pass well formed.
LEMMA PassTyped ==
  ASSUME TypeOK, StepSafe, Next
  PROVE  pass' \in PassType
<1> USE DEF PassType
<1>0. pass \in PassType /\ now \in Hour
  BY DEF TypeOK
<1>1. CASE pass' = pass
  BY <1>1, <1>0
<1>2. CASE pass' = Idle
  BY <1>2, IdleTyped
<1>3. CASE StartPass
  <2>1. PICK unsent \in SUBSET Day :
          pass' = [Idle EXCEPT !.at = now, !.days = unsent, !.stage = IF unsent = {} THEN "oldest" ELSE "sending"]
    <3>1. {d \in Day : seal'[d] # NoSeal /\ ~seal'[d].uploaded} \in SUBSET Day
      OBVIOUS
    <3> QED
      BY <1>3, <3>1, Zenon DEF StartPass
  <2> QED
    BY <2>1, <1>0, IdleTyped DEF Stage
<1>4. ASSUME NEW d \in Day, CopySent(d) PROVE pass' \in PassType
  BY <1>4, <1>0 DEF CopySent, Stage
<1>5. ASSUME NEW d \in Day, CopyFails(d) PROVE pass' \in PassType
  BY <1>5, <1>0 DEF CopyFails, Stage
<1>6. CASE ReadOldest /\ pass' # Idle
  <2>1. PICK r \in cloud : pass' = BeginStep(hour[r])
    BY <1>6 DEF ReadOldest
  <2>2. hour[r] \in Hour
    BY HourTypes, RowTypes
  <2>3. StepEnd(hour[r]) \in Int
    BY <2>2, StepEndTyped
  <2> QED
    BY <2>1, <2>2, <2>3, <1>0, IdleTyped DEF BeginStep, Stage
<1>7. CASE Manifest
  <2>1. Shortfall \in SUBSET Hour
    <3>1. pass.since \in Hour /\ pass.until \in Int /\ pass.at \in Hour
      BY <1>0
    <3>2. pass.until <= pass.at - Window
      BY <1>7 DEF Manifest, StepSafe, InStep
    <3> QED
      BY <3>1, <3>2, WindowAssumption, CountsAssumption DEF Shortfall, Hour
  <2> QED
    BY <2>1, <1>7, <1>0 DEF Manifest, Stage
<1>8. CASE Fill
  BY <1>8, <1>0 DEF Fill, Stage
<1>9. CASE Covered
  BY <1>9, <1>0, IdleTyped DEF Covered, Stage
<1>10. CASE Prune
  <2>1. 0 \in Hour
    BY CountsAssumption DEF Hour
  <2> QED
    BY <1>10, <1>0, <2>1, IdleTyped DEF Prune, Stage
<1>11. CASE HourPasses \/ Record \/ RecordDirect \/ (\E r \in Row : Upload(r) \/ SetAside(r)) \/ (\E h \in Hour : FlagFrozen(h))
  BY <1>11, <1>1 DEF HourPasses, Record, RecordDirect, NextRow, Upload, SetAside, FlagFrozen
<1>12. CASE Restart \/ PassFails
  BY <1>12, <1>2 DEF Restart, PassFails
<1> QED
  BY <1>2, <1>3, <1>4, <1>5, <1>6, <1>7, <1>8, <1>9, <1>10, <1>11, <1>12 DEF Next, PassStep

\* The types of the rows and the counters survive what ingest does.
LEMMA TickTyped ==
  ASSUME TypeOK, Next
  PROVE  /\ now' \in Hour /\ n' \in 0..MaxRow /\ hour' \in [Row -> Hour]
         /\ archived' \subseteq 1..n' /\ owed' \subseteq archived' /\ frozen' \subseteq archived'
         /\ buffer' \subseteq 1..n' /\ cloud' \subseteq 1..n'
         /\ faults' \in 0..MaxFaults /\ restarts' \in 0..MaxRestarts /\ freezes' \in 0..MaxFreezes
<1>0. /\ now \in Hour /\ n \in 0..MaxRow /\ hour \in [Row -> Hour]
      /\ archived \subseteq 1..n /\ owed \subseteq archived /\ frozen \subseteq archived
      /\ buffer \subseteq 1..n /\ cloud \subseteq 1..n
      /\ faults \in 0..MaxFaults /\ restarts \in 0..MaxRestarts /\ freezes \in 0..MaxFreezes
  BY DEF TypeOK
<1>f. Fault => faults' \in 0..MaxFaults /\ restarts' = restarts /\ freezes' = freezes
  BY <1>0, CountsAssumption DEF Fault
<1>1. CASE HourPasses
  BY <1>1, <1>0, CountsAssumption DEF HourPasses, Hour, database, spent
<1>2. CASE Record
  <2>1. n' = n + 1 /\ n' \in 0..MaxRow /\ n + 1 \in 1..n' /\ 1..n \subseteq 1..n' /\ hour' \in [Row -> Hour]
    BY <1>2, <1>0, NewRowStep, CountsAssumption DEF Record, NextRow
  <2> QED
    BY <1>2, <2>1, <1>0 DEF Record, NextRow, database, spent
<1>3. CASE RecordDirect
  <2>1. n' = n + 1 /\ n' \in 0..MaxRow /\ n + 1 \in 1..n' /\ 1..n \subseteq 1..n' /\ hour' \in [Row -> Hour]
    BY <1>3, <1>0, NewRowStep, CountsAssumption DEF RecordDirect, NextRow
  <2> QED
    BY <1>3, <2>1, <1>0 DEF RecordDirect, NextRow, spent
<1>4. ASSUME NEW r \in Row, Upload(r) \/ SetAside(r) PROVE owed' \subseteq owed /\ cloud' \subseteq 1..n
  BY <1>4, <1>0 DEF Upload, SetAside, database
<1>5. ASSUME NEW r \in Row, Upload(r) \/ SetAside(r)
      PROVE  /\ UNCHANGED <<now, hour, n, archived, frozen, buffer>>
             /\ faults' \in 0..MaxFaults /\ restarts' = restarts /\ freezes' = freezes
  BY <1>5, <1>0, <1>f DEF Upload, SetAside, spent
<1>6. ASSUME NEW h \in Hour, FlagFrozen(h)
      PROVE  frozen' \subseteq archived /\ freezes' \in 0..MaxFreezes
             /\ UNCHANGED <<now, hour, n, archived, owed, buffer, cloud, faults, restarts>>
  <2>1. freezes' \in 0..MaxFreezes
    BY <1>6, <1>0, CountsAssumption DEF FlagFrozen
  <2> QED
    BY <1>6, <1>0, <2>1 DEF FlagFrozen, database
<1>7. CASE Restart
  BY <1>7, <1>0, CountsAssumption DEF Restart, database
<1>8. CASE Fill
  BY <1>8, <1>0 DEF Fill, In, database, spent
<1>9. CASE Prune
  <2>1. cloud' \subseteq cloud /\ UNCHANGED tick
    BY <1>9 DEF Prune, RollUpAndPrune
  <2>2. faults' \in 0..MaxFaults /\ restarts' = restarts /\ freezes' = freezes
    BY <1>9, <1>0, <1>f DEF Prune, spent
  <2> QED
    BY <2>1, <2>2, <1>0 DEF tick
<1>10. CASE StartPass \/ ReadOldest \/ Manifest \/ Covered \/ PassFails
  BY <1>10, <1>0, <1>f DEF StartPass, ReadOldest, Manifest, Covered, PassFails, tick, database, spent
<1>11. ASSUME NEW d \in Day, CopySent(d) \/ CopyFails(d)
       PROVE UNCHANGED <<tick, database>> /\ faults' \in 0..MaxFaults /\ restarts' = restarts /\ freezes' = freezes
  BY <1>11, <1>0, <1>f DEF CopySent, CopyFails, spent
<1> QED
  BY <1>0, <1>1, <1>2, <1>3, <1>4, <1>5, <1>6, <1>7, <1>8, <1>9, <1>10, <1>11 DEF Next, PassStep, tick, database

\* ... and so do those of what was pruned and of the sealed files.
LEMMA PrunedTyped ==
  ASSUME TypeOK, Next
  PROVE  /\ rolled' \subseteq Hour /\ counted' \subseteq 1..n' /\ uncounted' \subseteq 1..n' /\ missed' \subseteq 1..n'
<1>0. /\ rolled \subseteq Hour /\ n \in 0..MaxRow
      /\ counted \subseteq 1..n /\ uncounted \subseteq 1..n /\ missed \subseteq 1..n
  BY DEF TypeOK
<1>1. CASE Prune
  <2>1. \A r \in Before(cloud, pass.until) : hour[r] \in Hour /\ r \in 1..n
    BY RowTypes, HourTypes DEF Before
  <2>2. Before(buffer, pass.until) \subseteq 1..n
    BY RowTypes DEF Before
  <2> QED
    BY <1>1, <1>0, <2>1, <2>2 DEF Prune, RollUpAndPrune, tick
<1>2. CASE RecordDirect
  <2>1. n' = n + 1 /\ 1..n \subseteq 1..n'
    BY <1>2, <1>0, NewRowStep, CountsAssumption DEF RecordDirect
  <2>2. missed' \subseteq missed \cup buffer /\ UNCHANGED <<rolled, counted, uncounted>>
    BY <1>2 DEF RecordDirect, Before
  <2> QED
    BY <2>1, <2>2, <1>0, RowTypes
<1>3. CASE Record
  <2>1. n' = n + 1 /\ 1..n \subseteq 1..n'
    BY <1>3, <1>0, NewRowStep, CountsAssumption DEF Record
  <2> QED
    BY <1>3, <2>1, <1>0 DEF Record, database
<1>4. ASSUME ~Prune, ~RecordDirect, ~Record PROVE UNCHANGED <<rolled, counted, uncounted, missed, n>>
  BY <1>4 DEF Next, PassStep, HourPasses, Upload, SetAside, FlagFrozen, Restart, StartPass, CopySent, CopyFails,
              ReadOldest, Manifest, Fill, Covered, PassFails, tick, database
<1> QED
  BY <1>0, <1>1, <1>2, <1>3, <1>4

LEMMA SealsTyped ==
  ASSUME TypeOK, Next
  PROVE  /\ seal' \in [Day -> [count : Nat, uploaded : BOOLEAN]]
         /\ file' \in [Day -> Copy] /\ storage' \in [Day -> Copy]
<1>0. /\ seal \in [Day -> [count : Nat, uploaded : BOOLEAN]]
      /\ file \in [Day -> Copy] /\ storage \in [Day -> Copy]
  BY DEF TypeOK, Copy
<1>1. CASE StartPass
  <2>1. \A d \in Day : Content(d) \in Copy /\ Cardinality(DayRows(d)) \in Nat
    BY ContentTyped, DayRowsTyped, RowsFinite
  <2>2. \A d \in Day : [count |-> Cardinality(DayRows(d)), uploaded |-> FALSE] \in [count : Nat, uploaded : BOOLEAN]
    BY <2>1
  <2>3. Sealed(Chosen) /\ UNCHANGED storage
    BY <1>1 DEF StartPass
  <2> QED
    BY <2>1, <2>2, <2>3, <1>0 DEF Sealed
<1>2. ASSUME NEW d \in Day, CopySent(d) \/ CopyFails(d)
      PROVE  /\ seal' \in [Day -> [count : Nat, uploaded : BOOLEAN]]
             /\ file' = file /\ storage' \in [Day -> Copy]
  <2>1. file[d] \in Copy
    BY <1>0
  <2>2. storage' \in [Day -> Copy] /\ file' = file
    BY <1>2, <1>0, <2>1 DEF CopySent, CopyFails
  <2>3. seal' = seal \/ seal' = [seal EXCEPT ![d].uploaded = TRUE]
    BY <1>2 DEF CopySent, CopyFails
  <2> QED
    BY <1>0, <2>2, <2>3
<1>3. ASSUME ~StartPass, ~\E d \in Day : CopySent(d) \/ CopyFails(d) PROVE UNCHANGED seals
  BY <1>3 DEF Next, PassStep, HourPasses, Record, RecordDirect, NextRow, Upload, SetAside, FlagFrozen, Restart,
              ReadOldest, Manifest, Fill, Covered, Prune, PassFails
<1> QED
  BY <1>0, <1>1, <1>2, <1>3 DEF seals

LEMMA TypeStep == ASSUME TypeOK, StepSafe, Next PROVE TypeOK'
BY PassTyped, TickTyped, PrunedTyped, SealsTyped DEF TypeOK, PassType, Copy

-----------------------------------------------------------------------------
(***************************************************************************)
(* Seals, files and copies.                                                *)
(***************************************************************************)
\* The archive only grows, and no recorded row changes its hour.
LEMMA ArchiveGrows ==
  ASSUME TypeOK, Next
  PROVE  archived \subseteq archived' /\ \A r \in 1..n : hour'[r] = hour[r]
<1>1. CASE Record \/ RecordDirect
  BY <1>1, NewRowStep DEF Record, RecordDirect
<1>2. CASE Restart \/ Fill
  BY <1>2 DEF Restart, Fill
<1>3. ASSUME ~Record, ~RecordDirect, ~Restart, ~Fill PROVE archived' = archived /\ hour' = hour
  BY <1>3 DEF Next, PassStep, HourPasses, Upload, SetAside, FlagFrozen, StartPass, CopySent, CopyFails,
              ReadOldest, Manifest, Covered, Prune, PassFails, tick
<1> QED
  BY <1>1, <1>2, <1>3

LEMMA DayRowsGrow ==
  ASSUME TypeOK, Next, NEW d
  PROVE  DayRows(d) \subseteq DayRows(d)'
BY ArchiveGrows, RowTypes DEF DayRows

\* The conjuncts of SealsTrue for one day.
SealTrue(d) ==
  /\ Rows(file[d]) \subseteq DayRows(d)
  /\ seal[d].count = Cardinality(Rows(file[d]))
  /\ Rows(storage[d]) \subseteq Rows(file[d])
  /\ seal[d].uploaded => Rows(storage[d]) = Rows(file[d])

LEMMA SealsStep ==
  ASSUME TypeOK, SealsTrue, Next
  PROVE  SealsTrue'
<1> SUFFICES ASSUME NEW d \in Day PROVE SealTrue(d)'
  BY DEF SealsTrue, SealTrue
<1>0. SealTrue(d) /\ DayRows(d) \subseteq DayRows(d)'
  BY DayRowsGrow DEF SealsTrue, SealTrue
<1>t. seal \in [Day -> [count : Nat, uploaded : BOOLEAN]] /\ file \in [Day -> Copy] /\ storage \in [Day -> Copy]
  BY DEF TypeOK, Copy
<1>1. CASE StartPass
  <2>1. UNCHANGED <<archived, hour, storage>> /\ DayRows(d)' = DayRows(d)
    BY <1>1 DEF StartPass, tick, DayRows
  <2>2. CASE d \in Chosen
    <3>1. seal'[d] = [count |-> Cardinality(DayRows(d)), uploaded |-> FALSE] /\ file'[d] = Content(d)
      BY <1>1, <2>2 DEF StartPass, Sealed
    <3>2. Rows(file'[d]) = DayRows(d)
      BY <3>1, ContentRows
    <3>3. Rows(storage[d]) \subseteq DayRows(d)
      BY <1>0 DEF SealTrue
    <3> QED
      BY <2>1, <3>1, <3>2, <3>3 DEF SealTrue
  <2>3. CASE d \notin Chosen
    <3>1. seal'[d] = seal[d] /\ file'[d] = file[d]
      BY <1>1, <2>3 DEF StartPass, Sealed
    <3> QED
      BY <1>0, <2>1, <3>1 DEF SealTrue
  <2> QED
    BY <2>2, <2>3
<1>2. ASSUME NEW e \in Day, CopySent(e) \/ CopyFails(e) PROVE SealTrue(d)'
  <2>1. file' = file /\ DayRows(d)' = DayRows(d)
    BY <1>2 DEF CopySent, CopyFails, tick, DayRows
  <2>2. CASE e = d /\ CopySent(e)
    <3>1. storage'[d] = file[d]
      BY <2>2, <1>t DEF CopySent
    <3>2. seal'[d].count = seal[d].count
      BY <2>2, <1>t DEF CopySent
    <3> QED
      BY <1>0, <2>1, <3>1, <3>2 DEF SealTrue
  <2>3. CASE CopyFails(e) \/ e # d
    <3>1. seal'[d] = seal[d]
      BY <1>2, <2>3, <1>t DEF CopySent, CopyFails
    <3>2. storage'[d] = storage[d] \/ storage'[d] = file[d]
      BY <1>2, <2>3, <1>t DEF CopySent, CopyFails
    <3> QED
      BY <1>0, <2>1, <3>1, <3>2 DEF SealTrue
  <2> QED
    BY <1>2, <2>2, <2>3
<1>3. ASSUME ~StartPass, ~\E e \in Day : CopySent(e) \/ CopyFails(e) PROVE SealTrue(d)'
  <2>1. UNCHANGED <<seal, file, storage>>
    BY <1>3 DEF Next, PassStep, HourPasses, Record, RecordDirect, NextRow, Upload, SetAside, FlagFrozen, Restart,
                ReadOldest, Manifest, Fill, Covered, Prune, PassFails, seals
  <2> QED
    BY <1>0, <2>1 DEF SealTrue
<1> QED
  BY <1>1, <1>2, <1>3

\* What gate 3 lets through is in the copy: the file has as many rows as the day,
\* and none that the day has not.
LEMMA GateHolds ==
  ASSUME TypeOK, SealsTrue, NEW d \in Day, SealedAndCopied(d)
  PROVE  DayRows(d) \subseteq Rows(storage[d])
<1>1. CASE DayRows(d) = {}
  BY <1>1
<1>2. CASE seal[d].count = Cardinality(DayRows(d)) /\ seal[d].uploaded
  <2>1. /\ Rows(file[d]) \subseteq DayRows(d) /\ Cardinality(Rows(file[d])) = Cardinality(DayRows(d))
        /\ Rows(storage[d]) = Rows(file[d])
    BY <1>2 DEF SealsTrue
  <2>2. IsFiniteSet(DayRows(d))
    BY DayRowsTyped, RowsFinite
  <2>3. Rows(file[d]) = DayRows(d)
    BY <2>1, <2>2, FS_Subset
  <2> QED
    BY <2>1, <2>3
<1> QED
  BY <1>1, <1>2 DEF SealedAndCopied

-----------------------------------------------------------------------------
(***************************************************************************)
(* The step under way.                                                     *)
(***************************************************************************)
\* What holds of the bounds of a step, of what is owed, and of the rows in the cloud.
StepBounds == pass.at <= now /\ (InStep => pass.until <= pass.at - Window)
StepSent == InStep => \A r \in owed : hour[r] >= pass.until
StepOldest == InStep => \A r \in cloud : hour[r] >= pass.since \/ hour[r] >= pass.until \/ r \in missed
StepCopied ==
  pass.stage = "pruning" =>
    \A r \in archived : hour[r] >= pass.since /\ hour[r] < pass.until => r \in Rows(storage[DayOf(hour[r])])

LEMMA StepParts == StepSafe <=> StepBounds /\ StepSent /\ StepOldest /\ StepCopied
BY DEF StepSafe, StepBounds, StepSent, StepOldest, StepCopied, InStep

LEMMA PassTypes ==
  ASSUME TypeOK
  PROVE  pass.at \in Nat /\ pass.since \in Nat /\ pass.until \in Int /\ Window \in Nat /\ Window > 0
<1>1. pass.at \in Hour /\ pass.since \in Hour /\ pass.until \in Int
  BY DEF TypeOK
<1>2. Window \in Nat /\ Window > 0
  BY WindowAssumption
<1> QED
  BY <1>1, <1>2, CountsAssumption DEF Hour

\* The bounds of a step are set once, at its beginning.
LEMMA SameStep ==
  ASSUME TypeOK, Next, InStep'
  PROVE  \/ ReadOldest /\ \E r \in cloud : /\ \A q \in cloud : hour[r] <= hour[q]
                                           /\ hour[r] < Cutoff /\ Before(owed, StepEnd(hour[r])) = {}
                                           /\ pass'.at = pass.at /\ pass'.stage = "manifest"
                                           /\ pass'.since = hour[r] /\ pass'.until = StepEnd(hour[r])
         \/ InStep /\ pass'.at = pass.at /\ pass'.since = pass.since /\ pass'.until = pass.until
<1>t. pass \in PassType
  BY DEF TypeOK, PassType
<1>1. CASE pass' = Idle
  BY <1>1 DEF Idle, InStep
<1>2. CASE pass' = pass
  BY <1>2 DEF InStep
<1>3. CASE StartPass
  <2>1. pass'.stage \in {"oldest", "sending"}
    BY <1>3 DEF StartPass, Idle
  <2> QED
    BY <2>1 DEF InStep
<1>4. ASSUME NEW d \in Day, CopySent(d) \/ CopyFails(d) PROVE FALSE
  <2>1. pass'.stage \in {"oldest", "sending"}
    BY <1>4, <1>t DEF CopySent, CopyFails, Turn, PassType
  <2> QED
    BY <2>1 DEF InStep
<1>5. CASE ReadOldest /\ pass' # Idle
  <2>1. PICK r \in cloud : (\A q \in cloud : hour[r] <= hour[q]) /\ pass' = BeginStep(hour[r])
    BY <1>5 DEF ReadOldest
  <2>2. hour[r] < Cutoff /\ Before(owed, StepEnd(hour[r])) = {}
        /\ pass' = [pass EXCEPT !.stage = "manifest", !.since = hour[r], !.until = StepEnd(hour[r])]
    BY <1>5, <2>1 DEF BeginStep
  <2>3. pass'.at = pass.at /\ pass'.stage = "manifest" /\ pass'.since = hour[r] /\ pass'.until = StepEnd(hour[r])
    BY <2>2, <1>t DEF PassType
  <2> QED
    BY <1>5, <2>1, <2>2, <2>3
<1>6. CASE Manifest
  BY <1>6, <1>t DEF Manifest, InStep, PassType
<1>7. CASE Fill
  BY <1>7, <1>t DEF Fill, InStep, PassType
<1>8. CASE Covered /\ pass' # Idle
  BY <1>8, <1>t DEF Covered, InStep, PassType
<1>9. CASE Prune /\ pass' # Idle
  <2>1. pass'.stage = "oldest"
    BY <1>9, <1>t DEF Prune, PassType
  <2> QED
    BY <2>1 DEF InStep
<1>10. CASE HourPasses \/ Record \/ RecordDirect \/ (\E r \in Row : Upload(r) \/ SetAside(r)) \/ (\E h \in Hour : FlagFrozen(h))
  BY <1>10, <1>2 DEF HourPasses, Record, RecordDirect, NextRow, Upload, SetAside, FlagFrozen
<1>11. CASE Restart \/ PassFails
  BY <1>11, <1>1 DEF Restart, PassFails
<1> QED
  BY <1>1, <1>3, <1>4, <1>5, <1>6, <1>7, <1>8, <1>9, <1>10, <1>11 DEF Next, PassStep

LEMMA BoundsStep == ASSUME TypeOK, StepBounds, Next PROVE StepBounds'
<1>1. now' >= now /\ now' \in Nat /\ now \in Nat
  <2>1. now' = now \/ now' = now + 1
    BY DEF Next, PassStep, HourPasses, Record, RecordDirect, NextRow, Upload, SetAside, FlagFrozen, Restart, StartPass,
           CopySent, CopyFails, ReadOldest, Manifest, Fill, Covered, Prune, PassFails, tick
  <2> QED
    BY <2>1, HourTypes
<1>2. pass'.at <= now'
  <2>1. pass'.at \in {pass.at, 0, now}
    <3>t. pass \in PassType
      BY DEF TypeOK, PassType
    <3>1. CASE pass' \in {pass, Idle}
      BY <3>1 DEF Idle
    <3>2. CASE StartPass
      <4>1. PICK unsent : pass' = [Idle EXCEPT !.at = now, !.days = unsent,
                                               !.stage = IF unsent = {} THEN "oldest" ELSE "sending"]
        BY <3>2, Zenon DEF StartPass
      <4> QED
        BY <4>1 DEF Idle
    <3>3. CASE (\E d \in Day : CopySent(d) \/ CopyFails(d)) \/ Manifest \/ Fill \/ Covered \/ Prune
      BY <3>1, <3>3, <3>t DEF CopySent, CopyFails, Manifest, Fill, Covered, Prune, PassType
    <3>4. CASE ReadOldest
      BY <3>1, <3>4, <3>t DEF ReadOldest, BeginStep, PassType
    <3>5. CASE HourPasses \/ Record \/ RecordDirect \/ (\E r \in Row : Upload(r) \/ SetAside(r))
               \/ (\E h \in Hour : FlagFrozen(h)) \/ Restart \/ PassFails
      BY <3>1, <3>5 DEF HourPasses, Record, RecordDirect, NextRow, Upload, SetAside, FlagFrozen, Restart, PassFails
    <3> QED
      BY <3>2, <3>3, <3>4, <3>5 DEF Next, PassStep
  <2> QED
    BY <2>1, <1>1, PassTypes DEF StepBounds
<1>3. ASSUME InStep' PROVE pass'.until <= pass'.at - Window
  <2>1. CASE InStep /\ pass'.at = pass.at /\ pass'.since = pass.since /\ pass'.until = pass.until
    BY <2>1, PassTypes DEF StepBounds
  <2>2. ASSUME NEW r \in cloud, pass'.at = pass.at, pass'.until = StepEnd(hour[r])
        PROVE pass'.until <= pass'.at - Window
    <3>1. hour[r] \in Hour
      BY HourTypes, RowTypes
    <3> QED
      BY <2>2, <3>1, StepEndTyped
  <2> QED
    BY <1>3, <2>1, <2>2, SameStep
<1> QED
  BY <1>2, <1>3 DEF StepBounds, InStep

\* Where the rows of the next state come from: kept, or recorded now, or moved.
LEMMA OwedFrom ==
  ASSUME TypeOK, Next, NEW r \in owed'
  PROVE  \/ r \in owed /\ hour'[r] = hour[r]
         \/ Record /\ hour'[r] = now
         \/ Restart /\ r \in buffer /\ hour'[r] = hour[r]
<1>0. \A q \in 1..n : hour'[q] = hour[q]
  BY ArchiveGrows
<1>1. CASE Record
  <2>1. r \in owed \/ r = n + 1
    BY <1>1 DEF Record
  <2> QED
    BY <1>0, <1>1, <2>1, NewRowStep, RowTypes DEF Record
<1>2. CASE Restart
  BY <1>0, <1>2, RowTypes DEF Restart
<1>3. ASSUME ~Record, ~Restart PROVE owed' \subseteq owed
  BY <1>3 DEF Next, PassStep, HourPasses, RecordDirect, NextRow, Upload, SetAside, FlagFrozen, StartPass, CopySent,
              CopyFails, ReadOldest, Manifest, Fill, Covered, Prune, PassFails, tick
<1> QED
  BY <1>0, <1>1, <1>2, <1>3, RowTypes

LEMMA ArchivedFrom ==
  ASSUME TypeOK, Next, NEW r \in archived'
  PROVE  \/ r \in archived /\ hour'[r] = hour[r]
         \/ Record /\ r = n + 1 /\ hour'[r] = now
         \/ Restart /\ r \in buffer /\ hour'[r] = hour[r]
         \/ Fill /\ r \in cloud /\ hour'[r] = hour[r]
<1>0. \A q \in 1..n : hour'[q] = hour[q]
  BY ArchiveGrows
<1>1. CASE Record
  <2>1. r \in archived \/ r = n + 1
    BY <1>1 DEF Record
  <2> QED
    BY <1>0, <1>1, <2>1, NewRowStep, RowTypes DEF Record
<1>2. CASE Restart
  BY <1>0, <1>2, RowTypes DEF Restart
<1>3. CASE Fill
  BY <1>0, <1>3, RowTypes DEF Fill, In
<1>4. ASSUME ~Record, ~Restart, ~Fill PROVE archived' \subseteq archived
  BY <1>4 DEF Next, PassStep, HourPasses, RecordDirect, NextRow, Upload, SetAside, FlagFrozen, StartPass, CopySent,
              CopyFails, ReadOldest, Manifest, Covered, Prune, PassFails, tick
<1> QED
  BY <1>0, <1>1, <1>2, <1>3, <1>4, RowTypes

LEMMA CloudFrom ==
  ASSUME TypeOK, Next, NEW r \in cloud'
  PROVE  \/ r \in cloud /\ hour'[r] = hour[r]
         \/ RecordDirect /\ r = n + 1 /\ hour'[r] = now
         \/ RecordDirect /\ hour'[r] = hour[r] /\ r \in buffer
            /\ (hour[r] < (IF pass.stage = "pruning" THEN pass.until ELSE pass.since) => r \in missed')
         \/ r \in owed /\ hour'[r] = hour[r]
<1>0. \A q \in 1..n : hour'[q] = hour[q]
  BY ArchiveGrows
<1>1. CASE RecordDirect
  <2>1. PICK stored \in SUBSET (buffer \cup {n + 1}) :
          /\ cloud' = cloud \cup stored
          /\ missed' = missed \cup Before(buffer \cap stored, IF pass.stage = "pruning" THEN pass.until ELSE pass.since)
    BY <1>1 DEF RecordDirect
  <2>2. CASE r \in cloud
    BY <2>2, <1>0, RowTypes
  <2>3. CASE r = n + 1
    BY <2>3, <1>1, NewRowStep DEF RecordDirect
  <2>4. CASE r \in buffer \cap stored
    BY <2>4, <2>1, <1>0, <1>1, RowTypes DEF Before
  <2> QED
    BY <2>1, <2>2, <2>3, <2>4
<1>2. ASSUME NEW q \in Row, Upload(q) PROVE r \in cloud \cup owed
  BY <1>2 DEF Upload
<1>3. ASSUME ~RecordDirect, ~\E q \in Row : Upload(q) PROVE cloud' \subseteq cloud
  BY <1>3 DEF Next, PassStep, HourPasses, Record, NextRow, SetAside, FlagFrozen, Restart, StartPass, CopySent,
              CopyFails, ReadOldest, Manifest, Fill, Covered, Prune, RollUpAndPrune, PassFails, database
<1> QED
  BY <1>0, <1>1, <1>2, <1>3, RowTypes

LEMMA MissedGrows == ASSUME Next PROVE missed \subseteq missed'
<1>1. CASE RecordDirect \/ Prune
  BY <1>1 DEF RecordDirect, Prune, RollUpAndPrune
<1>2. ASSUME ~RecordDirect, ~Prune PROVE missed' = missed
  BY <1>2 DEF Next, PassStep, HourPasses, Record, NextRow, Upload, SetAside, FlagFrozen, Restart, StartPass, CopySent,
              CopyFails, ReadOldest, Manifest, Fill, Covered, PassFails, database
<1> QED
  BY <1>1, <1>2

LEMMA SentStep == ASSUME TypeOK, StepBounds, StepSent, Next PROVE StepSent'
<1> SUFFICES ASSUME InStep', NEW r \in owed' PROVE hour'[r] >= pass'.until
  BY DEF StepSent
<1>1. CASE InStep /\ pass'.at = pass.at /\ pass'.since = pass.since /\ pass'.until = pass.until
  <2>1. pass.until <= now
    BY <1>1, PassTypes, HourTypes DEF StepBounds
  <2>2. ~Restart
    BY DEF Restart, Idle, InStep
  <2> QED
    BY <1>1, <2>1, <2>2, OwedFrom, PassTypes, HourTypes DEF StepSent
<1>2. ASSUME ReadOldest, NEW q \in cloud, Before(owed, StepEnd(hour[q])) = {}, pass'.until = StepEnd(hour[q])
      PROVE hour'[r] >= pass'.until
  <2>1. owed' = owed /\ hour' = hour
    BY <1>2 DEF ReadOldest, tick
  <2>2. hour[q] \in Hour /\ hour[r] \in Nat
    BY <2>1, HourTypes, RowTypes
  <2>3. StepEnd(hour[q]) \in Int
    BY <2>2, StepEndTyped
  <2>4. ~(hour[r] < StepEnd(hour[q]))
    BY <1>2, <2>1 DEF Before
  <2> QED
    BY <1>2, <2>1, <2>2, <2>3, <2>4
<1> QED
  BY <1>1, <1>2, SameStep

LEMMA OldestStep == ASSUME TypeOK, StepBounds, StepSent, StepOldest, Next PROVE StepOldest'
<1> SUFFICES ASSUME InStep', NEW r \in cloud' PROVE hour'[r] >= pass'.since \/ hour'[r] >= pass'.until \/ r \in missed'
  BY DEF StepOldest
<1>1. CASE InStep /\ pass'.at = pass.at /\ pass'.since = pass.since /\ pass'.until = pass.until
  <2>1. pass.until <= now /\ pass.until \in Int /\ pass.since \in Nat
    BY <1>1, PassTypes, HourTypes DEF StepBounds
  <2>2. CASE r \in cloud /\ hour'[r] = hour[r]
    BY <1>1, <2>2, MissedGrows DEF StepOldest
  <2>3. CASE r \in buffer /\ hour'[r] = hour[r]
             /\ (hour[r] < (IF pass.stage = "pruning" THEN pass.until ELSE pass.since) => r \in missed')
    <3>1. hour[r] \in Nat
      BY <2>3, HourTypes, RowTypes
    <3>2. CASE r \in missed'
      BY <3>2
    <3>3. CASE ~(hour[r] < pass.until) \/ ~(hour[r] < pass.since)
      BY <3>1, <3>3, <2>1, <2>3, <1>1
    <3> QED
      BY <2>3, <3>2, <3>3
  <2>4. CASE r \in owed /\ hour'[r] = hour[r]
    BY <1>1, <2>4 DEF StepSent
  <2>5. CASE hour'[r] = now
    BY <1>1, <2>1, <2>5
  <2> QED
    BY <2>2, <2>3, <2>4, <2>5, CloudFrom
<1>2. ASSUME ReadOldest, NEW q \in cloud, \A x \in cloud : hour[q] <= hour[x], pass'.since = hour[q]
      PROVE hour'[r] >= pass'.since
  <2>1. cloud' = cloud /\ hour' = hour
    BY <1>2 DEF ReadOldest, tick, database
  <2>2. hour[q] \in Nat /\ hour[r] \in Nat /\ hour[q] <= hour[r]
    BY <1>2, <2>1, HourTypes, RowTypes
  <2> QED
    BY <1>2, <2>1, <2>2
<1> QED
  BY <1>1, <1>2, SameStep

\* A step is pruned once its gates are open, and nothing else begins meanwhile.
LEMMA PruningFrom ==
  ASSUME TypeOK, Next, pass'.stage = "pruning"
  PROVE  \/ Covered /\ GateOpen /\ InStep /\ pass'.since = pass.since /\ pass'.until = pass.until
         \/ pass' = pass /\ UNCHANGED seals /\ ~Restart /\ ~Fill
<1>t. pass \in PassType
  BY DEF TypeOK, PassType
<1>1. CASE Covered
  <2>1. GateOpen /\ pass' = [pass EXCEPT !.stage = "pruning"]
    BY <1>1 DEF Covered, Idle
  <2>2. InStep
    BY <1>1 DEF Covered, InStep
  <2> QED
    BY <1>1, <1>t, <2>1, <2>2 DEF PassType
<1>2. CASE pass' = Idle
  BY <1>2 DEF Idle
<1>3. CASE StartPass
  BY <1>3 DEF StartPass, Idle
<1>4. ASSUME NEW d \in Day, CopySent(d) \/ CopyFails(d) PROVE FALSE
  BY <1>4, <1>t DEF CopySent, CopyFails, Turn, PassType
<1>5. CASE ReadOldest \/ Manifest \/ Fill \/ Prune
  BY <1>5, <1>t, <1>2 DEF ReadOldest, BeginStep, Manifest, Fill, Prune, PassType
<1>6. CASE HourPasses \/ Record \/ RecordDirect \/ (\E r \in Row : Upload(r) \/ SetAside(r)) \/ (\E h \in Hour : FlagFrozen(h))
  <2>1. pass' = pass /\ UNCHANGED seals
    BY <1>6 DEF HourPasses, Record, RecordDirect, NextRow, Upload, SetAside, FlagFrozen
  <2>2. ~Restart
    BY DEF Restart, Idle
  <2>3. ~Fill
    BY <2>1 DEF Fill
  <2> QED
    BY <2>1, <2>2, <2>3
<1>7. CASE Restart \/ PassFails
  BY <1>7, <1>2 DEF Restart, PassFails
<1> QED
  BY <1>1, <1>3, <1>4, <1>5, <1>6, <1>7 DEF Next, PassStep

LEMMA CopiedStep == ASSUME TypeOK, SealsTrue, StepBounds, StepCopied, Next PROVE StepCopied'
<1> SUFFICES ASSUME pass'.stage = "pruning", NEW r \in archived', hour'[r] >= pass'.since, hour'[r] < pass'.until
             PROVE  r \in Rows(storage'[DayOf(hour'[r])])
  BY DEF StepCopied
<1>1. CASE Covered /\ GateOpen /\ InStep /\ pass'.since = pass.since /\ pass'.until = pass.until
  <2>1. UNCHANGED <<archived, hour, storage>>
    BY <1>1 DEF Covered, tick, seals
  <2>2. hour[r] \in Hour /\ hour[r] \in pass.since..pass.until - 1
    BY <1>1, <2>1, RowTypes, HourTypes, PassTypes
  <2>3. DayOf(hour[r]) \in Day /\ SealedAndCopied(DayOf(hour[r]))
    BY <1>1, <2>2, DayOfHour DEF GateOpen
  <2>4. r \in DayRows(DayOf(hour[r]))
    BY <2>1 DEF DayRows
  <2> QED
    BY <2>1, <2>3, <2>4, GateHolds
<1>2. CASE pass' = pass /\ UNCHANGED seals /\ ~Restart /\ ~Fill
  <2>1. pass.until <= now /\ pass.until \in Int /\ now \in Nat
    BY <1>2, PassTypes, HourTypes DEF StepBounds, InStep
  <2>2. r \in archived /\ hour'[r] = hour[r]
    BY <1>2, <2>1, ArchivedFrom
  <2> QED
    BY <1>2, <2>2 DEF StepCopied, seals
<1> QED
  BY <1>1, <1>2, PruningFrom

LEMMA StepSafeStep == ASSUME IInv, Next PROVE StepSafe'
<1>1. TypeOK /\ SealsTrue /\ StepBounds /\ StepSent /\ StepOldest /\ StepCopied
  BY StepParts DEF IInv
<1>2. StepBounds' /\ StepSent' /\ StepOldest' /\ StepCopied'
  BY <1>1, BoundsStep, SentStep, OldestStep, CopiedStep
<1> QED
  BY <1>2 DEF StepSafe, StepBounds, StepSent, StepOldest, StepCopied, InStep

-----------------------------------------------------------------------------
(***************************************************************************)
(* What was pruned.                                                        *)
(***************************************************************************)
\* A copy on the way keeps the rows it has, and gets at most those of the file.
LEMMA StorageGrows ==
  ASSUME TypeOK, SealsTrue, Next, NEW d \in Day
  PROVE  Rows(storage[d]) \subseteq Rows(storage'[d])
<1>t. storage \in [Day -> Copy]
  BY DEF TypeOK, Copy
<1>1. ASSUME NEW e \in Day, CopySent(e) \/ CopyFails(e) PROVE storage'[d] = storage[d] \/ storage'[d] = file[d]
  BY <1>1, <1>t DEF CopySent, CopyFails
<1>2. ASSUME ~\E e \in Day : CopySent(e) \/ CopyFails(e) PROVE storage' = storage
  BY <1>2 DEF Next, PassStep, HourPasses, Record, RecordDirect, NextRow, Upload, SetAside, FlagFrozen, Restart,
              StartPass, ReadOldest, Manifest, Fill, Covered, Prune, PassFails, seals
<1> QED
  BY <1>1, <1>2 DEF SealsTrue

\* Where the pruned rows of the next state come from.
LEMMA PrunedFrom ==
  ASSUME TypeOK, StepSafe, Next, NEW r \in Pruned', r \notin missed'
  PROVE  \/ r \in Pruned /\ r \notin missed
         \/ /\ Prune /\ r \in cloud /\ r \notin cloud' /\ r \notin buffer'
            /\ UNCHANGED <<archived, hour, storage, buffer>>
            /\ r \in archived => r \in Rows(storage[DayOf(hour[r])])
<1>m. r \notin missed
  BY MissedGrows
<1>1. ASSUME Prune, r \notin Pruned
      PROVE  /\ r \in cloud /\ r \notin cloud' /\ r \notin buffer' /\ UNCHANGED <<archived, hour, storage, buffer>>
             /\ r \in archived => r \in Rows(storage[DayOf(hour[r])])
  <2>1. r \in Before(cloud, pass.until) /\ cloud' = cloud \ Before(cloud, pass.until) /\ pass.stage = "pruning"
        /\ missed' = missed \cup Before(buffer, pass.until) /\ UNCHANGED <<archived, hour, storage, buffer>>
    BY <1>1 DEF Prune, RollUpAndPrune, Pruned, tick, seals
  <2>2. hour[r] < pass.until /\ r \in cloud /\ r \notin buffer
    BY <2>1 DEF Before
  <2>3. hour[r] >= pass.since
    <3>1. hour[r] \in Nat
      BY <2>2, HourTypes, RowTypes
    <3> QED
      BY <1>m, <2>1, <2>2, <3>1, PassTypes DEF StepSafe, InStep
  <2>4. r \in archived => r \in Rows(storage[DayOf(hour[r])])
    BY <2>1, <2>2, <2>3 DEF StepSafe, InStep
  <2> QED
    BY <2>1, <2>2, <2>4
<1>2. ASSUME ~Prune PROVE Pruned' = Pruned
  BY <1>2 DEF Next, PassStep, HourPasses, Record, RecordDirect, NextRow, Upload, SetAside, FlagFrozen, Restart,
              StartPass, CopySent, CopyFails, ReadOldest, Manifest, Fill, Covered, PassFails, database, Pruned
<1> QED
  BY <1>m, <1>1, <1>2

LEMMA BufferFrom == ASSUME Next PROVE buffer' \subseteq buffer \cup (IF RecordDirect THEN {n + 1} ELSE {})
<1>1. CASE RecordDirect
  BY <1>1 DEF RecordDirect
<1>2. ASSUME ~RecordDirect PROVE buffer' \subseteq buffer
  BY <1>2 DEF Next, PassStep, HourPasses, Record, NextRow, Upload, SetAside, FlagFrozen, Restart, StartPass, CopySent,
              CopyFails, ReadOldest, Manifest, Fill, Covered, Prune, PassFails, tick
<1> QED
  BY <1>1, <1>2

LEMMA PrunedStep == ASSUME IInv, Next PROVE PrunedSafe'
<1> USE DEF IInv
<1> SUFFICES ASSUME NEW r \in Pruned', r \notin missed'
             PROVE  \/ r \in archived' /\ r \in Rows(storage'[DayOf(hour'[r])])
                    \/ r \notin archived' \cup buffer' \cup cloud'
  BY DEF PrunedSafe
<1>1. CASE r \in Pruned /\ r \notin missed
  <2>1. r \in 1..n /\ r \in Row /\ hour'[r] = hour[r]
    BY <1>1, RowTypes, ArchiveGrows DEF Pruned
  <2>2. CASE r \in archived /\ r \in Rows(storage[DayOf(hour[r])])
    <3>1. DayOf(hour[r]) \in Day
      BY <2>1, HourTypes, DayOfHour
    <3>2. Rows(storage[DayOf(hour[r])]) \subseteq Rows(storage'[DayOf(hour[r])])
      BY <3>1, StorageGrows
    <3> QED
      BY <2>1, <2>2, <3>2, ArchiveGrows
  <2>3. CASE r \notin archived \cup buffer \cup cloud
    <3>1. r # n + 1
      BY <2>1, RowTypes
    <3>2. r \notin archived'
      BY <2>3, <3>1, ArchivedFrom
    <3>3. r \notin buffer'
      BY <2>3, <3>1, BufferFrom
    <3>4. r \notin cloud'
      BY <2>3, <3>1, CloudFrom, RowTypes
    <3> QED
      BY <3>2, <3>3, <3>4
  <2> QED
    BY <1>1, <2>2, <2>3 DEF PrunedSafe
<1>2. CASE r \notin cloud' /\ r \notin buffer' /\ UNCHANGED <<archived, hour, storage>>
           /\ (r \in archived => r \in Rows(storage[DayOf(hour[r])]))
  BY <1>2
<1> QED
  BY <1>1, <1>2, PrunedFrom

LEMMA RolledStep == ASSUME IInv, Next PROVE RolledSafe'
<1> USE DEF IInv
<1>n. now' \in Nat /\ now \in Nat /\ now <= now'
  <2>1. now' = now \/ now' = now + 1
    BY DEF Next, PassStep, HourPasses, Record, RecordDirect, NextRow, Upload, SetAside, FlagFrozen, Restart, StartPass,
           CopySent, CopyFails, ReadOldest, Manifest, Fill, Covered, Prune, PassFails, tick
  <2> QED
    BY <2>1, HourTypes
<1>1. CASE Prune
  <2>0. /\ rolled' = rolled \cup {hour[r] : r \in Before(cloud, pass.until)}
        /\ uncounted' = uncounted \cup {r \in Before(cloud, pass.until) : hour[r] \in rolled}
        /\ missed' = missed \cup Before(buffer, pass.until) /\ cloud' = cloud \ Before(cloud, pass.until)
        /\ UNCHANGED <<hour, owed, buffer, now>> /\ pass.stage = "pruning"
    BY <1>1 DEF Prune, RollUpAndPrune, tick
  <2>1. pass.until \in Int /\ pass.until < now
    BY <2>0, PassTypes, HourTypes DEF StepSafe, InStep
  <2>2. \A h \in rolled' : h < now'
    <3>1. \A r \in Before(cloud, pass.until) : hour[r] < now
      BY <2>1, RowTypes, HourTypes DEF Before
    <3> QED
      BY <2>0, <3>1 DEF RolledSafe
  <2>3. ASSUME NEW r \in cloud' \cup owed' \cup buffer', hour'[r] \in rolled' PROVE r \in missed'
    <3>1. r \in cloud \cup owed \cup buffer /\ hour'[r] = hour[r] /\ hour[r] \in Nat
      BY <2>0, <2>3, RowTypes, HourTypes
    <3>2. CASE hour[r] \in rolled
      BY <2>0, <3>1, <3>2 DEF RolledSafe
    <3>3. CASE hour[r] < pass.until
      <4>1. r \notin owed
        BY <2>0, <2>1, <3>1, <3>3 DEF StepSafe, InStep
      <4>2. r \notin cloud'
        BY <2>0, <3>3 DEF Before
      <4> QED
        BY <2>0, <2>3, <3>3, <4>1, <4>2 DEF Before
    <3> QED
      BY <2>0, <2>3, <3>1, <3>2, <3>3 DEF Before
  <2>4. uncounted' \subseteq missed'
    BY <2>0 DEF RolledSafe, Before
  <2> QED
    BY <2>2, <2>3, <2>4 DEF RolledSafe
<1>2. ASSUME ~Prune PROVE RolledSafe'
  <2>1. rolled' = rolled /\ uncounted' = uncounted
    BY <1>2 DEF Next, PassStep, HourPasses, Record, RecordDirect, NextRow, Upload, SetAside, FlagFrozen, Restart,
                StartPass, CopySent, CopyFails, ReadOldest, Manifest, Fill, Covered, PassFails, database
  <2>2. \A h \in rolled : h \in Nat /\ h < now
    BY CountsAssumption DEF RolledSafe, TypeOK, Hour
  <2>3. ASSUME NEW r \in cloud' \cup owed' \cup buffer', hour'[r] \in rolled PROVE r \in missed'
    <3>1. hour'[r] # now
      BY <2>2, <2>3, <1>n
    <3>2. r \in cloud \cup owed \cup buffer /\ hour'[r] = hour[r]
      <4>1. CASE r \in cloud'
        BY <3>1, <4>1, CloudFrom
      <4>2. CASE r \in owed'
        BY <3>1, <4>2, OwedFrom
      <4>3. CASE r \in buffer'
        <5>1. r # n + 1 \/ ~RecordDirect
          BY <3>1, NewRowStep DEF RecordDirect
        <5> QED
          BY <4>3, <5>1, BufferFrom, RowTypes, ArchiveGrows
      <4> QED
        BY <2>3, <4>1, <4>2, <4>3
    <3> QED
      BY <2>3, <3>2, MissedGrows DEF RolledSafe
  <2> QED
    BY <1>n, <2>1, <2>2, <2>3, MissedGrows DEF RolledSafe
<1> QED
  BY <1>1, <1>2

-----------------------------------------------------------------------------
(***************************************************************************)
(* The theorems.                                                           *)
(***************************************************************************)
LEMMA StutterInv == ASSUME IInv, UNCHANGED vars PROVE IInv'
<1> UNCHANGED <<now, hour, n, archived, owed, frozen, buffer, cloud, rolled, counted, uncounted, missed,
                seal, file, storage, pass, faults, restarts, freezes>>
  BY DEF vars, tick, database, seals, spent
<1> QED
  BY DEF IInv, TypeOK, SealsTrue, StepSafe, PrunedSafe, RolledSafe, InStep, Pruned, DayRows

LEMMA StepInv == ASSUME IInv, Next PROVE IInv'
<1>1. TypeOK /\ SealsTrue /\ StepSafe
  BY DEF IInv
<1> QED
  BY <1>1, TypeStep, SealsStep, StepSafeStep, PrunedStep, RolledStep DEF IInv

\* The invariant the theorems rest on holds in every reachable state.
THEOREM Invariant == Spec => []IInv
<1>1. IInv /\ [Next]_vars => IInv'
  BY StutterInv, StepInv
<1> QED
  BY InitInv, <1>1, PTL DEF Spec

\* Rows, seals, files and the running pass keep their types.
THEOREM TypeCorrect == Spec => []TypeOK
<1>1. IInv => TypeOK
  BY DEF IInv
<1> QED
  BY <1>1, Invariant, PTL

\* A pruned row that the archive holds is in the copy of its day: the three gates
\* together are enough, whatever goes on between them.
THEOREM PrunedCopied == Spec => []PrunedIsCopied
<1>1. IInv => PrunedIsCopied
  BY DEF IInv, PrunedSafe, PrunedIsCopied
<1> QED
  BY <1>1, Invariant, PTL

\* Only rows of the outage buffer are left out of an hour's total.
THEOREM UncountedBuffered == Spec => []UncountedWasBuffered
<1>1. IInv => UncountedWasBuffered
  BY DEF IInv, RolledSafe, UncountedWasBuffered
<1> QED
  BY <1>1, Invariant, PTL

\* Comparing counts is enough for gate 3: a day that passes it is in the copy, row by row.
THEOREM CopyHolds == Spec => []CopyHoldsDay
<1>1. IInv => CopyHoldsDay
  <2> SUFFICES ASSUME IInv, NEW d \in Day, SealedAndCopied(d) PROVE DayRows(d) \subseteq Rows(storage[d])
    BY DEF CopyHoldsDay
  <2> QED
    BY GateHolds DEF IInv
<1> QED
  BY <1>1, Invariant, PTL

-----------------------------------------------------------------------------
(***************************************************************************)
(* Gate 2 compares counts. An archived row that is no longer owed was      *)
(* stored, refused or pruned, and no row of an hour about to be pruned was *)
(* pruned before: without a refused row to make up the number, as many     *)
(* rows in the archive as in the cloud are the same rows.                  *)
(***************************************************************************)
MadeUp(r) == \E q \in archived \cap Refused : hour[q] = hour[r]

Accounted ==
  /\ archived \subseteq owed \cup cloud \cup Refused \cup Pruned
  /\ \A r \in Pruned : hour[r] \in rolled

StepHeld ==
  pass.stage = "pruning" =>
    \A r \in cloud : hour[r] < pass.until => r \in archived \cup missed \/ MadeUp(r)

HeldInv == Accounted /\ StepHeld /\ PrunedIsHeld

LEMMA PrunedTypes == ASSUME TypeOK PROVE Pruned \subseteq 1..n
BY RowTypes DEF Pruned

LEMMA MadeUpStays ==
  ASSUME TypeOK, Next, NEW r \in 1..n, MadeUp(r)
  PROVE  MadeUp(r)'
BY ArchiveGrows, RowTypes DEF MadeUp

LEMMA CountHolds ==
  ASSUME IInv, Accounted, InStep, Shortfall = {},
         NEW r \in cloud, hour[r] < pass.until, r \notin archived \cup missed
  PROVE  MadeUp(r)
<1> DEFINE h == hour[r]
<1> USE DEF IInv
<1>1. h \in Nat /\ pass.since \in Nat /\ pass.until \in Int
  BY HourTypes, RowTypes, PassTypes
<1>2. h \in pass.since..pass.until - 1
  BY <1>1 DEF StepSafe
<1>3. SUFFICES ASSUME ~MadeUp(r) PROVE FALSE
  OBVIOUS
<1>4. In(archived, h) \subseteq In(cloud, h)
  <2> SUFFICES ASSUME NEW q \in archived, hour[q] = h PROVE q \in cloud
    BY DEF In
  <2>1. q \notin owed
    BY <1>1 DEF StepSafe
  <2>2. q \notin Refused
    BY <1>3 DEF MadeUp
  <2>3. q \notin Pruned
    BY DEF Accounted, RolledSafe
  <2> QED
    BY <2>1, <2>2, <2>3 DEF Accounted
<1>5. r \in In(cloud, h) /\ r \notin In(archived, h)
  BY DEF In
<1>6. In(cloud, h) \subseteq Row
  BY RowTypes DEF In
<1>7. IsFiniteSet(In(cloud, h)) /\ Cardinality(In(cloud, h)) \in Nat
  BY <1>6, RowsFinite
<1>8. /\ Cardinality(In(archived, h)) <= Cardinality(In(cloud, h))
      /\ Cardinality(In(archived, h)) # Cardinality(In(cloud, h))
      /\ Cardinality(In(archived, h)) \in Nat
  <2>1. In(archived, h) \subseteq Row
    BY <1>4, <1>6
  <2>2. Cardinality(In(archived, h)) \in Nat
    BY <2>1, RowsFinite
  <2> QED
    BY <1>4, <1>5, <1>7, <2>2, FS_Subset
<1>9. h \in Shortfall
  BY <1>2, <1>7, <1>8 DEF Shortfall
<1> QED
  BY <1>9

LEMMA AccountedStep == ASSUME TypeOK, Accounted, Next PROVE Accounted'
<1>1. CASE Prune
  <2>1. /\ rolled' = rolled \cup {hour[r] : r \in Before(cloud, pass.until)}
        /\ Pruned' = Pruned \cup Before(cloud, pass.until)
        /\ cloud' = cloud \ Before(cloud, pass.until)
        /\ UNCHANGED <<hour, owed, archived>>
    BY <1>1 DEF Prune, RollUpAndPrune, tick, Pruned
  <2> QED
    BY <2>1 DEF Accounted
<1>2. ASSUME ~Prune PROVE Accounted'
  <2>1. Pruned' = Pruned /\ rolled' = rolled /\ cloud \subseteq cloud'
    BY <1>2 DEF Next, PassStep, HourPasses, Record, RecordDirect, NextRow, Upload, SetAside, FlagFrozen, Restart,
                StartPass, CopySent, CopyFails, ReadOldest, Manifest, Fill, Covered, PassFails, database, Pruned
  <2>2. \A r \in Pruned' : hour'[r] \in rolled'
    BY <2>1, ArchiveGrows, PrunedTypes DEF Accounted
  <2>3. owed \subseteq owed' \cup cloud' \cup Refused
    BY DEF Next, PassStep, HourPasses, Record, RecordDirect, NextRow, Upload, SetAside, FlagFrozen, Restart,
           StartPass, CopySent, CopyFails, ReadOldest, Manifest, Fill, Covered, Prune, PassFails, tick
  <2>4. archived' \subseteq archived \cup owed' \cup cloud
    BY DEF Next, PassStep, HourPasses, Record, RecordDirect, NextRow, Upload, SetAside, FlagFrozen, Restart,
           StartPass, CopySent, CopyFails, ReadOldest, Manifest, Fill, Covered, Prune, PassFails, tick, In
  <2> QED
    BY <2>1, <2>2, <2>3, <2>4 DEF Accounted
<1> QED
  BY <1>1, <1>2

\* What comes into the cloud below a step after its gates were passed was in the buffer.
LEMMA StepHeldStep == ASSUME IInv, Accounted, StepHeld, Next PROVE StepHeld'
<1> USE DEF IInv
<1> SUFFICES ASSUME pass'.stage = "pruning", NEW r \in cloud', hour'[r] < pass'.until
             PROVE  r \in archived' \cup missed' \/ MadeUp(r)'
  BY DEF StepHeld
<1>1. CASE Covered /\ InStep /\ pass'.until = pass.until
  <2>1. Shortfall = {} /\ UNCHANGED <<cloud, hour, archived, missed>>
    BY <1>1 DEF Covered, Idle, tick, database
  <2> QED
    BY <1>1, <2>1, CountHolds DEF MadeUp
<1>2. CASE pass' = pass /\ UNCHANGED seals
  <2>1. InStep /\ pass.until < now /\ pass.until \in Int /\ now \in Nat
    BY <1>2, PassTypes, HourTypes DEF InStep, StepSafe
  <2>2. CASE r \in cloud /\ hour'[r] = hour[r]
    <3>1. r \in archived \cup missed \/ MadeUp(r)
      BY <1>2, <2>2 DEF StepHeld
    <3>2. r \in 1..n
      BY <2>2, RowTypes
    <3> QED
      BY <3>1, <3>2, ArchiveGrows, MissedGrows, MadeUpStays
  <2>3. CASE hour'[r] = now
    BY <1>2, <2>1, <2>3
  <2>4. CASE r \in buffer /\ (hour[r] < (IF pass.stage = "pruning" THEN pass.until ELSE pass.since) => r \in missed')
             /\ hour'[r] = hour[r]
    BY <1>2, <2>4
  <2>5. CASE r \in owed /\ hour'[r] = hour[r]
    BY <2>5, RowTypes, ArchiveGrows
  <2> QED
    BY <2>2, <2>3, <2>4, <2>5, CloudFrom
<1> QED
  BY <1>1, <1>2, PruningFrom

LEMMA HeldStep == ASSUME IInv, HeldInv, Next PROVE PrunedIsHeld'
<1> USE DEF IInv, HeldInv
<1> SUFFICES ASSUME NEW r \in Pruned', r \notin archived', r \notin missed' PROVE MadeUp(r)'
  BY DEF PrunedIsHeld, MadeUp
<1>1. r \notin archived /\ r \notin missed
  BY ArchiveGrows, MissedGrows
<1>2. CASE r \in Pruned
  <2>1. MadeUp(r) /\ hour'[r] = hour[r]
    BY <1>1, <1>2, PrunedTypes, ArchiveGrows DEF PrunedIsHeld, MadeUp
  <2> QED
    BY <1>2, <2>1, PrunedTypes, MadeUpStays
<1>3. CASE Prune /\ r \notin Pruned
  <2>1. r \in cloud /\ hour[r] < pass.until /\ pass.stage = "pruning" /\ hour' = hour
    BY <1>3 DEF Prune, RollUpAndPrune, tick, Pruned, Before
  <2>2. MadeUp(r)
    BY <1>1, <2>1 DEF StepHeld
  <2> QED
    BY <2>1, <2>2, RowTypes, MadeUpStays
<1> QED
  BY <1>2, <1>3, PrunedFrom

\* Nothing leaves the cloud that the archive does not hold, except rows of the
\* buffer and where a refused row made up the count of gate 2.
THEOREM PrunedHeld == Spec => []PrunedIsHeld
<1>1. Init => HeldInv
  BY DEF Init, HeldInv, Accounted, StepHeld, PrunedIsHeld, Pruned, Idle
<1>2. IInv /\ HeldInv /\ [Next]_vars => HeldInv'
  <2>1. ASSUME IInv, HeldInv, Next PROVE HeldInv'
    BY <2>1, AccountedStep, StepHeldStep, HeldStep DEF HeldInv, IInv
  <2>2. ASSUME HeldInv, UNCHANGED vars PROVE HeldInv'
    BY <2>2 DEF vars, tick, database, seals, spent, HeldInv, Accounted, StepHeld, PrunedIsHeld, Pruned, MadeUp
  <2> QED
    BY <2>1, <2>2
<1>3. HeldInv => PrunedIsHeld
  BY DEF HeldInv
<1> QED
  BY <1>1, <1>2, <1>3, Invariant, PTL DEF Spec
=============================================================================
