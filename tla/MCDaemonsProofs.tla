-------------------------- MODULE MCDaemonsProofs ---------------------------
(***************************************************************************)
(* The machines of the edge keep what they promise, for any bounds: the    *)
(* day reports, the held meters, and the watch and recovery of the fleet.  *)
(* A behavior of the composition is one of every machine's own             *)
(* specification, so what is proved of a machine is proved of it.          *)
(* SchedulerProofs has the scheduler.                                      *)
(***************************************************************************)
EXTENDS MCDaemons, FiniteSetTheorems, WellFoundedInduction, TLAPS

-----------------------------------------------------------------------------
(***************************************************************************)
(* A behavior of the composition, seen from one machine.                   *)
(***************************************************************************)
LEMMA OfReports == AnySpec => R!Spec
<1>1. AnyInit => R!Init
  BY DEF AnyInit
<1>2. [AnyNext]_<<machine, scheduler_vars, reportVars, heldVars, fleetVars>> => [R!Next]_R!reportgate_vars
  BY DEF AnyNext, SchedulerSteps, ReportSteps, MeterSteps, FleetSteps, reportVars, heldVars, fleetVars,
     R!reportgate_vars, R!lateVars, R!edge, R!streams
<1> QED
  BY <1>1, <1>2, PTL DEF AnySpec, R!Spec

LEMMA OfMeters == AnySpec => H!Spec
<1>1. AnyInit => H!Init
  BY DEF AnyInit
<1>2. [AnyNext]_<<machine, scheduler_vars, reportVars, heldVars, fleetVars>> => [H!Next]_H!heldmeters_vars
  BY DEF AnyNext, SchedulerSteps, ReportSteps, MeterSteps, FleetSteps, reportVars, heldVars, fleetVars,
     H!heldmeters_vars, H!outbox, H!watch, H!site
<1> QED
  BY <1>1, <1>2, PTL DEF AnySpec, H!Spec

LEMMA OfFleet == AnySpec => F!Spec
<1>1. AnyInit => F!Init
  BY DEF AnyInit
<1>2. [AnyNext]_<<machine, scheduler_vars, reportVars, heldVars, fleetVars>> => [F!Next]_F!fleetwatch_vars
  BY DEF AnyNext, SchedulerSteps, ReportSteps, MeterSteps, FleetSteps, reportVars, heldVars, fleetVars,
     F!fleetwatch_vars, F!recovery, F!alarm, F!fleet
<1> QED
  BY <1>1, <1>2, PTL DEF AnySpec, F!Spec

\* A set has as many elements for a machine as for the composition.
LEMMA SameCount == \A S : R!Cardinality(S) = Cardinality(S) /\ F!Cardinality(S) = Cardinality(S)
BY DEF R!Cardinality, F!Cardinality, Cardinality

-----------------------------------------------------------------------------
(***************************************************************************)
(* Day reports.                                                            *)
(***************************************************************************)
Minutes == 0..MaxNow

LateRecord == [from : Int, until : Int, before : SUBSET R!Days]

GateTypes ==
  /\ now \in Minutes /\ ticked \in BOOLEAN
  /\ ids \in Seq(Minutes) /\ through \in 0..Len(ids) /\ buffer \in Seq(Minutes)
  /\ cloud \subseteq Minutes /\ drain \subseteq Minutes /\ unnoted \subseteq Minutes
  /\ draining \in BOOLEAN /\ open \in BOOLEAN /\ gated \in BOOLEAN
  /\ throughTotals \in 0..Len(ids) /\ wedged \subseteq R!Stream /\ aside \subseteq Minutes
  /\ lateData \in LateRecord /\ lateKept \in LateRecord
  /\ report \in [R!Days -> [at : Int, rows : SUBSET Minutes]] /\ todo \subseteq R!Days
  /\ trouble \in 0..MaxTrouble

\* A minute is ticked once: its row is in the archive, in the buffer or in the cloud.
Accounted ==
  /\ \A r \in 0..now : r < now \/ ticked => r \in cloud \cup R!Archived \cup R!Buffered \cup torn
  /\ \A r \in R!Archived \cup R!Buffered : r < now \/ (r = now /\ ticked)
  /\ R!Archived \cap R!Buffered = {}
  /\ \A i \in 1..through : ids[i] \in cloud \cup aside

\* What the pass knew when it started is still so.
PassHolds ==
  /\ \A d \in R!Days : report[d].at <= now
  /\ \A d \in todo :
       /\ R!SettledAt(d) <= now
       /\ gated => R!RowsOf(d) \ cloud \subseteq R!Buffered \cup torn \cup R!OutOfOrder \cup aside

GateInv == GateTypes /\ Accounted /\ PassHolds /\ R!StaleIsRebuilt

-----------------------------------------------------------------------------
\* Least and greatest of finitely many minutes.
LEMMA LeastThere ==
  ASSUME NEW S, NEW m \in S, \A n \in S : m <= n
  PROVE  R!Least(S) \in S /\ \A n \in S : R!Least(S) <= n
BY DEF R!Least

LEMMA GreatestThere ==
  ASSUME NEW S, NEW m \in S, \A n \in S : n <= m
  PROVE  R!Greatest(S) \in S /\ \A n \in S : n <= R!Greatest(S)
BY DEF R!Greatest

LEMMA LeastOf ==
  ASSUME NEW S, S \subseteq Nat, S # {}
  PROVE  R!Least(S) \in S /\ \A n \in S : R!Least(S) <= n
<1> DEFINE Below == OpToRel(<, Nat)
<1>1. IsWellFoundedOn(Below, Nat)
  BY NatLessThanWellFounded
<1>2. \A x, y \in S : y < x => <<y, x>> \in Below
  BY DEF OpToRel
<1> HIDE DEF Below
<1>3. PICK x \in S : \A y \in S : ~ (<<y, x>> \in Below)
  BY <1>1, WFMin
<1>4. \A y \in S : ~ (y < x)
  BY <1>2, <1>3, Zenon
<1>5. \A y \in S : x <= y
  <2>1. \A y \in S : y \in Nat /\ x \in Nat
    OBVIOUS
  <2> QED
    BY <1>4, <2>1
<1> QED
  BY <1>5, LeastThere

LEMMA GreatestOf ==
  ASSUME NEW bound \in Nat, NEW S, S \subseteq 0..bound, S # {}
  PROVE  R!Greatest(S) \in S /\ \A n \in S : n <= R!Greatest(S)
<1> DEFINE T == {k \in Nat : bound - k \in S}
<1>1. T \subseteq Nat /\ T # {}
  <2>1. PICK n \in S : TRUE
    OBVIOUS
  <2>2. bound - n \in Nat /\ bound - (bound - n) = n
    BY <2>1
  <2>3. bound - n \in T
    BY <2>1, <2>2
  <2> QED
    BY <2>3
<1>2. R!Least(T) \in T /\ \A k \in T : R!Least(T) <= k
  BY <1>1, LeastOf
<1>3. ASSUME NEW n \in S PROVE n <= bound - R!Least(T)
  <2>1. n \in 0..bound
    OBVIOUS
  <2>2. bound - n \in T
    <3>1. bound - n \in Nat /\ bound - (bound - n) = n
      BY <2>1
    <3> QED
      BY <3>1
  <2>3. R!Least(T) \in Nat /\ R!Least(T) <= bound - n
    BY <1>2, <2>2
  <2> HIDE DEF T
  <2> QED
    BY <2>1, <2>3
<1>4. bound - R!Least(T) \in S
  BY <1>2
<1> QED
  BY <1>3, <1>4, GreatestThere

LEMMA LeastOfTwo ==
  ASSUME NEW a \in Int, NEW b \in Int
  PROVE  R!Least({a, b}) \in Int /\ R!Least({a, b}) = IF a <= b THEN a ELSE b
<1>1. CASE a <= b
  <2>1. R!Least({a, b}) \in {a, b} /\ R!Least({a, b}) <= a
    BY <1>1, LeastThere, SMT
  <2> QED
    BY <1>1, <2>1
<1>2. CASE ~(a <= b)
  <2>1. R!Least({a, b}) \in {a, b} /\ R!Least({a, b}) <= b
    BY <1>2, LeastThere, SMT
  <2> QED
    BY <1>2, <2>1
<1> QED
  BY <1>1, <1>2

LEMMA GreatestOfTwo ==
  ASSUME NEW a \in Int, NEW b \in Int
  PROVE  R!Greatest({a, b}) \in Int /\ R!Greatest({a, b}) = IF a <= b THEN b ELSE a
<1>1. CASE a <= b
  <2>1. R!Greatest({a, b}) \in {a, b} /\ b <= R!Greatest({a, b})
    BY <1>1, GreatestThere, SMT
  <2> QED
    BY <1>1, <2>1
<1>2. CASE ~(a <= b)
  <2>1. R!Greatest({a, b}) \in {a, b} /\ a <= R!Greatest({a, b})
    BY <1>2, GreatestThere, SMT
  <2> QED
    BY <1>2, <2>1
<1> QED
  BY <1>1, <1>2

\* A day's rows come before its end.
LEMMA DayEnds ==
  ASSUME GateBounds, NEW d \in R!Days
  PROVE  /\ d \in Nat /\ R!End(d) \in Nat /\ d * DayLen \in Nat /\ d * DayLen < R!End(d)
         /\ R!SettledAt(d) = R!End(d) + GraceOfDay /\ R!SettledAt(d) \in Nat
         /\ \A r \in R!RowsOf(d) : r \in Nat /\ d * DayLen <= r /\ r < R!End(d)
<1>1. d \in Nat
  BY DEF GateBounds, R!Days
<1>2. DayLen \in Nat /\ DayLen > 0 /\ d * DayLen \in Nat /\ (d + 1) * DayLen = d * DayLen + DayLen
  BY <1>1 DEF GateBounds
<1> HIDE DEF R!Days
<1> QED
  BY <1>1, <1>2 DEF R!End, R!SettledAt, R!RowsOf, GateBounds

\* Rows are archived behind the others.
LEMMA ArchiveGrows ==
  ASSUME GateTypes, ids' \in Seq(Minutes), Len(ids') >= Len(ids),
         \A i \in 1..Len(ids) : ids'[i] = ids[i],
         through' = through, throughTotals' = throughTotals
  PROVE  /\ R!Owed \subseteq R!Owed' /\ R!OutOfOrder \subseteq R!OutOfOrder' /\ R!Archived \subseteq R!Archived'
         /\ through' \in 0..Len(ids') /\ throughTotals' \in 0..Len(ids')
<1>1. Len(ids) \in Nat /\ Len(ids') \in Nat /\ DOMAIN ids = 1..Len(ids) /\ DOMAIN ids' = 1..Len(ids')
      /\ through \in 0..Len(ids) /\ throughTotals \in 0..Len(ids)
  BY DEF GateTypes
<1>2. DOMAIN ids \subseteq DOMAIN ids' /\ \A i \in DOMAIN ids : ids'[i] = ids[i] /\ i \in Nat
  BY <1>1
<1>3. R!Owed \subseteq R!Owed' /\ R!Archived \subseteq R!Archived'
  BY <1>1, <1>2 DEF R!Owed, R!Archived
<1>4. R!OutOfOrder \subseteq R!OutOfOrder'
  <2> SUFFICES ASSUME NEW j \in DOMAIN ids, NEW i \in 1..j, ids[i] > ids[j]
               PROVE  ids[j] \in R!OutOfOrder'
    BY DEF R!OutOfOrder
  <2>1. i \in DOMAIN ids
    BY <1>1
  <2>2. j \in DOMAIN ids' /\ ids'[i] > ids'[j] /\ ids'[j] = ids[j]
    BY <1>2, <2>1
  <2> QED
    BY <2>2 DEF R!OutOfOrder
<1> QED
  BY <1>1, <1>3, <1>4

-----------------------------------------------------------------------------
\* What a step leaves alone of late rows, reports and the upload keeps a report rebuilt.
LEMMA StaleStays ==
  ASSUME R!StaleIsRebuilt, UNCHANGED <<lateData, report>>,
         \A r \in cloud' : r \in cloud \/ r \in drain' \cup R!Owed' \cup unnoted',
         drain \cup R!Owed \cup unnoted \subseteq drain' \cup R!Owed' \cup unnoted'
  PROVE  R!StaleIsRebuilt'
<1> SUFFICES ASSUME NEW d \in R!Days, report'[d] # R!NoReport, NEW r \in (cloud' \cap R!RowsOf(d)) \ report'[d].rows
             PROVE  r \in drain' \cup R!Owed' \cup unnoted' \/ R!BuiltBeforeLate(d)' \/ report'[d].at < R!SettledAt(d)
  BY DEF R!StaleIsRebuilt, R!SettledAt, R!End
<1>1. R!BuiltBeforeLate(d)' = R!BuiltBeforeLate(d)
  BY DEF R!BuiltBeforeLate, R!End
<1>2. CASE r \in cloud
  BY <1>1, <1>2 DEF R!StaleIsRebuilt
<1> QED
  BY <1>2

\* Each step keeps the invariant, from here on.
LEMMA MinuteInv == ASSUME GateBounds, GateInv, R!MinutePasses PROVE GateInv'
<1> USE DEF GateInv
<1>1. /\ ticked /\ now < MaxNow /\ now' = now + 1 /\ ticked' = FALSE
      /\ UNCHANGED <<ids, through, buffer, torn, open, throughTotals, wedged, aside, cloud, drain, draining,
                     R!lateVars, report, todo, gated, trouble>>
  BY DEF R!MinutePasses, R!streams
<1>2. GateTypes'
  <2>1. now' \in Minutes
    BY <1>1 DEF GateTypes, Minutes, GateBounds
  <2> QED
    BY <1>1, <2>1 DEF GateTypes, R!lateVars
<1>3. Accounted'
  <2>1. now \in Nat
    BY DEF GateTypes, Minutes
  <2>2. R!Archived' = R!Archived /\ R!Buffered' = R!Buffered /\ cloud' = cloud
    BY <1>1 DEF R!Archived, R!Buffered
  <2>3. \A r \in 0..now' : r < now' \/ ticked' => r \in cloud \cup R!Archived \cup R!Buffered \cup torn
    BY <1>1, <2>1 DEF Accounted
  <2>4. \A r \in R!Archived \cup R!Buffered : r < now'
    <3>1. R!Archived \cup R!Buffered \subseteq Minutes
      BY DEF GateTypes, R!Archived, R!Buffered
    <3>2. \A r \in R!Archived \cup R!Buffered : r \in Nat /\ (r < now \/ r = now)
      BY <3>1 DEF Accounted, Minutes
    <3> QED
      BY <1>1, <2>1, <3>2
  <2> QED
    BY <1>1, <2>2, <2>3, <2>4 DEF Accounted
<1>4. PassHolds'
  <2>1. R!OutOfOrder' = R!OutOfOrder /\ R!Buffered' = R!Buffered
    BY <1>1 DEF R!OutOfOrder, R!Buffered
  <2>2. \A d \in R!Days : report[d].at \in Int /\ R!SettledAt(d) \in Int
    BY DayEnds DEF GateTypes
  <2>3. now \in Int /\ todo \subseteq R!Days
    BY DEF GateTypes, Minutes
  <2>4. \A d \in R!Days : report'[d].at <= now'
    BY <1>1, <2>2, <2>3 DEF PassHolds
  <2>5. \A d \in todo : R!SettledAt(d) <= now'
    BY <1>1, <2>2, <2>3 DEF PassHolds
  <2> QED
    BY <1>1, <2>1, <2>4, <2>5 DEF PassHolds, R!SettledAt, R!RowsOf, R!End
<1>5. R!StaleIsRebuilt'
  <2>1. R!Owed' = R!Owed
    BY <1>1 DEF R!Owed
  <2> QED
    BY <1>1, <2>1, StaleStays DEF R!lateVars
<1> QED
  BY <1>2, <1>3, <1>4, <1>5

LEMMA ArchivesInv == ASSUME GateBounds, GateInv, R!TickArchives PROVE GateInv'
<1> USE DEF GateInv
<1>1. /\ ~ticked /\ ticked' = TRUE /\ ids' = Append(ids, now)
      /\ UNCHANGED <<now, through, buffer, torn, open, throughTotals, wedged, aside, cloud, drain, draining,
                     R!lateVars, report, todo, gated, trouble>>
  BY DEF R!TickArchives, R!streams
<1>2. /\ ids \in Seq(Minutes) /\ now \in Minutes /\ ids' \in Seq(Minutes) /\ Len(ids') = Len(ids) + 1
      /\ Len(ids) \in Nat /\ \A i \in 1..Len(ids) : ids'[i] = ids[i]
      /\ ids'[Len(ids) + 1] = now
  BY <1>1 DEF GateTypes
<1>3. /\ R!Owed \subseteq R!Owed' /\ R!OutOfOrder \subseteq R!OutOfOrder' /\ R!Archived \subseteq R!Archived'
      /\ through' \in 0..Len(ids') /\ throughTotals' \in 0..Len(ids')
  BY <1>1, <1>2, ArchiveGrows
<1>4. GateTypes'
  BY <1>1, <1>2, <1>3 DEF GateTypes, R!lateVars
<1>5. R!Archived' = R!Archived \cup {now}
  BY <1>2 DEF R!Archived
<1>6. Accounted'
  <2>1. R!Buffered' = R!Buffered /\ now \in Nat
    BY <1>1, <1>2 DEF R!Buffered, Minutes
  <2>2. now \notin R!Archived \cup R!Buffered
    BY <1>1, <2>1 DEF Accounted
  <2>3. \A r \in 0..now : r < now \/ r = now
    BY <2>1
  <2>4. \A r \in 0..now : r \in cloud \cup R!Archived' \cup R!Buffered \cup torn
    BY <1>5, <2>3 DEF Accounted
  <2>5. \A i \in 1..through : ids'[i] \in cloud \cup aside
    BY <1>2 DEF Accounted, GateTypes
  <2> QED
    BY <1>1, <1>5, <2>1, <2>2, <2>4, <2>5 DEF Accounted
<1>7. PassHolds'
  <2>1. R!Buffered' = R!Buffered
    BY <1>1 DEF R!Buffered
  <2> QED
    BY <1>1, <1>3, <2>1 DEF PassHolds, R!SettledAt, R!RowsOf, R!End
<1>8. R!StaleIsRebuilt'
  BY <1>1, <1>3, StaleStays DEF R!lateVars
<1> QED
  BY <1>4, <1>6, <1>7, <1>8

LEMMA DirectInv == ASSUME GateBounds, GateInv, R!TickDirect PROVE GateInv'
<1> USE DEF GateInv
<1> DEFINE all == Append(buffer, now)
<1>1. PICK n \in 0..(Len(buffer) + 1) :
        /\ cloud' = cloud \cup {all[i] : i \in 1..n}
        /\ buffer' = SubSeq(all, n + 1, Len(all))
        /\ unnoted' = unnoted \cup {all[i] : i \in 1..n}
  BY DEF R!TickDirect
<1>2. /\ ~ticked /\ ticked' = TRUE /\ (R!Trouble \/ UNCHANGED trouble)
      /\ UNCHANGED <<now, ids, through, torn, open, throughTotals, wedged, aside, drain, draining, lateData, lateKept,
                     report, todo, gated>>
  BY DEF R!TickDirect, R!streams
<1>3. /\ all \in Seq(Minutes) /\ Len(all) = Len(buffer) + 1 /\ Len(buffer) \in Nat
      /\ \A i \in 1..Len(buffer) : all[i] = buffer[i]
      /\ all[Len(buffer) + 1] = now
  BY DEF GateTypes
<1> HIDE DEF all
<1>4. /\ buffer' \in Seq(Minutes) /\ Len(buffer') = Len(all) - n
      /\ \A i \in 1..(Len(all) - n) : buffer'[i] = all[i + n]
  BY <1>1, <1>3
<1>5. \A i \in 1..Len(all) : i \in 1..n \/ (i - n \in 1..Len(buffer') /\ buffer'[i - n] = all[i])
  <2> SUFFICES ASSUME NEW i \in 1..Len(all), i \notin 1..n
               PROVE  i - n \in 1..Len(buffer') /\ buffer'[i - n] = all[i]
    OBVIOUS
  <2>1. i - n \in 1..(Len(all) - n) /\ (i - n) + n = i
    BY <1>1, <1>3
  <2> QED
    BY <1>4, <2>1
<1>6. {all[i] : i \in 1..Len(all)} = R!Buffered \cup {now}
  <2>1. DOMAIN buffer = 1..Len(buffer) /\ 1..Len(all) = 1..Len(buffer) \cup {Len(buffer) + 1}
    BY <1>3 DEF GateTypes
  <2>2. {all[i] : i \in 1..Len(buffer)} = R!Buffered
    BY <1>3, <2>1 DEF R!Buffered
  <2> QED
    BY <1>3, <2>1, <2>2
<1>7. /\ R!Buffered' \subseteq R!Buffered \cup {now}
      /\ R!Buffered \cup {now} \subseteq R!Buffered' \cup {all[i] : i \in 1..n}
      /\ {all[i] : i \in 1..n} \subseteq R!Buffered \cup {now}
  <2>1. DOMAIN buffer' = 1..Len(buffer') /\ Len(buffer') \in Nat
    BY <1>4
  <2>2. ASSUME NEW x \in R!Buffered' PROVE x \in R!Buffered \cup {now}
    <3>1. PICK i \in 1..Len(buffer') : x = buffer'[i]
      BY <2>1 DEF R!Buffered
    <3>2. i + n \in 1..Len(all) /\ x = all[i + n]
      BY <1>1, <1>3, <1>4, <3>1
    <3> QED
      BY <1>6, <3>2
  <2>3. ASSUME NEW x \in R!Buffered \cup {now} PROVE x \in R!Buffered' \cup {all[i] : i \in 1..n}
    <3>1. PICK i \in 1..Len(all) : x = all[i]
      BY <1>6
    <3> QED
      BY <1>5, <2>1, <3>1 DEF R!Buffered
  <2>4. 1..n \subseteq 1..Len(all)
    BY <1>1, <1>3
  <2> QED
    BY <1>6, <2>2, <2>3, <2>4
<1>8. R!Archived' = R!Archived /\ R!Owed' = R!Owed /\ R!OutOfOrder' = R!OutOfOrder
  BY <1>2 DEF R!Archived, R!Owed, R!OutOfOrder
<1>9. GateTypes'
  <2>1. R!Buffered \cup {now} \subseteq Minutes
    BY <1>3, <1>6
  <2>2. {all[i] : i \in 1..n} \subseteq Minutes
    BY <1>7, <2>1
  <2>3. trouble' \in 0..MaxTrouble
    BY <1>2 DEF GateTypes, GateBounds, R!Trouble
  <2> QED
    BY <1>1, <1>2, <1>4, <2>2, <2>3 DEF GateTypes
<1>10. Accounted'
  <2>1. now \in Nat
    BY DEF GateTypes, Minutes
  <2>2. \A r \in 0..now : r < now \/ r = now
    BY <2>1
  <2>3. now \notin R!Archived
    BY <1>2, <2>1 DEF Accounted
  <2>4. \A r \in 0..now : r \in cloud' \cup R!Archived' \cup R!Buffered' \cup torn
    BY <1>1, <1>7, <1>8, <2>2 DEF Accounted
  <2>5. \A r \in R!Archived' \cup R!Buffered' : r < now \/ r = now
    BY <1>7, <1>8 DEF Accounted
  <2>6. R!Archived' \cap R!Buffered' = {}
    BY <1>7, <1>8, <2>3 DEF Accounted
  <2>7. \A i \in 1..through : ids[i] \in cloud' \cup aside
    BY <1>1 DEF Accounted
  <2> QED
    BY <1>2, <2>4, <2>5, <2>6, <2>7 DEF Accounted
<1>11. PassHolds'
  <2>1. ASSUME NEW d \in todo, gated PROVE R!RowsOf(d) \ cloud' \subseteq R!Buffered' \cup torn \cup R!OutOfOrder' \cup aside
    <3>1. R!RowsOf(d) \ cloud \subseteq R!Buffered \cup torn \cup R!OutOfOrder \cup aside
      BY <2>1 DEF PassHolds
    <3>2. R!Buffered \subseteq R!Buffered' \cup cloud'
      BY <1>1, <1>7
    <3> QED
      BY <1>1, <1>8, <3>1, <3>2
  <2> QED
    BY <1>2, <2>1 DEF PassHolds, R!SettledAt, R!RowsOf, R!End
<1>12. R!StaleIsRebuilt'
  BY <1>1, <1>2, <1>8, StaleStays
<1> QED
  BY <1>9, <1>10, <1>11, <1>12

LEMMA UptoThere ==
  ASSUME NEW s \in R!Stream, NEW c \in 0..Len(ids), NEW n \in 1..Len(ids), Len(ids) \in Nat
  PROVE  R!Upto(s, c, n) \in c..Len(ids)
<1>1. c + n \in Int /\ c <= c + n /\ Len(ids) \in Int /\ c <= Len(ids)
  OBVIOUS
<1>2. R!Least({c + n, Len(ids)}) = IF c + n <= Len(ids) THEN c + n ELSE Len(ids)
  BY <1>1, LeastOfTwo
<1> QED
  BY <1>1, <1>2 DEF R!Upto

LEMMA SendInv == ASSUME GateBounds, GateInv, R!Send PROVE GateInv'
<1> USE DEF GateInv
<1>1. PICK n \in 1..Len(ids) :
        LET r == R!Upto("readings", through, n)
            t == R!Upto("totals", throughTotals, n) IN
        R!Taken(r, t) \/ R!TakenInPart(r)
  BY DEF R!Send
<1> DEFINE r == R!Upto("readings", through, n)
           t == R!Upto("totals", throughTotals, n)
           Batch == R!Rows(through, r)
           Behind == {ids[i] : i \in (r + 1)..Len(ids)}
<1>2. /\ draining' = TRUE
      /\ UNCHANGED <<now, ticked, ids, buffer, torn, open, wedged, lateData, lateKept, unnoted, report, todo, gated>>
  BY DEF R!Send, R!lateVars
<1>3. /\ through \in 0..Len(ids) /\ throughTotals \in 0..Len(ids) /\ Len(ids) \in Nat /\ DOMAIN ids = 1..Len(ids)
      /\ \A i \in 1..Len(ids) : ids[i] \in Minutes
  BY DEF GateTypes
<1>4. r \in through..Len(ids) /\ t \in throughTotals..Len(ids)
  BY <1>3, UptoThere DEF R!Stream
<1>5. /\ cloud \subseteq cloud' /\ cloud' \subseteq cloud \cup Batch
      /\ aside \subseteq aside' /\ aside' \subseteq aside \cup Batch
      /\ drain \subseteq drain' /\ drain' \subseteq drain \cup Batch \cup R!Rows(throughTotals, t)
      /\ throughTotals' \in {throughTotals, t} /\ (R!Trouble \/ UNCHANGED trouble)
      /\ \/ through' = through
         \/ through' = r /\ Batch \subseteq drain' /\ Batch \subseteq cloud' \cup aside'
  <2> HIDE DEF r, t
  <2>1. CASE R!Taken(r, t)
    BY <2>1 DEF R!Taken
  <2>2. CASE R!TakenInPart(r)
    BY <2>2 DEF R!TakenInPart
  <2> QED
    BY <1>1, <2>1, <2>2 DEF r, t
<1> HIDE DEF r, t
<1>6. Batch \subseteq Minutes /\ Batch \subseteq R!Owed /\ R!Rows(throughTotals, t) \subseteq Minutes
  <2>1. \A i \in (through + 1)..r : i \in 1..Len(ids) /\ i \in (through + 1)..Len(ids)
    BY <1>3, <1>4
  <2>2. \A i \in (throughTotals + 1)..t : i \in 1..Len(ids)
    BY <1>3, <1>4
  <2> QED
    BY <1>3, <2>1, <2>2 DEF R!Owed, R!Rows
<1>7. R!Owed \subseteq Batch \cup Behind
  <2>1. \A i \in (through + 1)..Len(ids) : i \in (through + 1)..r \/ i \in (r + 1)..Len(ids)
    BY <1>3, <1>4
  <2> QED
    BY <2>1 DEF R!Owed, R!Rows
<1>8. R!Archived' = R!Archived /\ R!Buffered' = R!Buffered /\ R!OutOfOrder' = R!OutOfOrder
  BY <1>2 DEF R!Archived, R!Buffered, R!OutOfOrder
<1>9. R!Owed \subseteq drain' \cup R!Owed'
  <2>1. CASE through' = r /\ Batch \subseteq drain'
    <3>1. R!Owed' = Behind
      BY <1>2, <2>1 DEF R!Owed
    <3> QED
      BY <1>7, <2>1, <3>1
  <2>2. CASE through' = through
    BY <1>2, <2>2 DEF R!Owed
  <2> QED
    BY <1>5, <2>1, <2>2
<1>10. GateTypes'
  <2>1. cloud' \subseteq Minutes /\ drain' \subseteq Minutes /\ aside' \subseteq Minutes
    BY <1>5, <1>6 DEF GateTypes
  <2>2. through' \in 0..Len(ids') /\ throughTotals' \in 0..Len(ids')
    BY <1>2, <1>3, <1>4, <1>5
  <2>3. trouble' \in 0..MaxTrouble
    BY <1>5 DEF GateTypes, R!Trouble, GateBounds
  <2> HIDE DEF Batch, Behind
  <2> QED
    BY <1>2, <2>1, <2>2, <2>3 DEF GateTypes
<1>11. Accounted'
  <2>1. \A i \in 1..through : ids[i] \in cloud' \cup aside'
    BY <1>5 DEF Accounted
  <2>2. CASE through' = r /\ Batch \subseteq cloud' \cup aside'
    <3>1. \A i \in 1..r : i \in 1..through \/ i \in (through + 1)..r
      BY <1>3, <1>4
    <3> QED
      BY <1>2, <1>5, <1>8, <2>1, <2>2, <3>1 DEF Accounted, R!Rows
  <2>3. CASE through' = through
    BY <1>2, <1>5, <1>8, <2>1, <2>3 DEF Accounted
  <2> QED
    BY <1>5, <2>2, <2>3
<1>12. PassHolds'
  <2> HIDE DEF Batch, Behind
  <2> QED
    BY <1>2, <1>5, <1>8 DEF PassHolds, R!SettledAt, R!RowsOf, R!End
<1>13. R!StaleIsRebuilt'
  <2>1. \A row \in cloud' : row \in cloud \/ row \in R!Owed
    BY <1>5, <1>6
  <2> HIDE DEF Batch, Behind, GateInv
  <2> QED
    BY <1>2, <1>5, <1>9, <2>1, StaleStays DEF GateInv
<1> QED
  BY <1>10, <1>11, <1>12, <1>13

\* A table that refuses its stream changes nothing else.
LEMMA WedgeInv ==
  ASSUME GateBounds, GateInv, NEW s \in R!Stream, R!Wedge(s) \/ R!Unwedge(s)
  PROVE  GateInv'
<1> USE DEF GateInv
<1>1. /\ wedged' \subseteq R!Stream /\ (R!Trouble \/ UNCHANGED trouble)
      /\ UNCHANGED <<now, ticked, ids, through, buffer, torn, open, throughTotals, aside, cloud, drain, draining,
                     lateData, lateKept, unnoted, report, todo, gated>>
  BY DEF R!Wedge, R!Unwedge, R!edge, R!lateVars, GateTypes
<1>2. R!Archived' = R!Archived /\ R!Buffered' = R!Buffered /\ R!OutOfOrder' = R!OutOfOrder /\ R!Owed' = R!Owed
  BY <1>1 DEF R!Archived, R!Buffered, R!OutOfOrder, R!Owed
<1>3. trouble' \in 0..MaxTrouble
  BY <1>1 DEF GateTypes, R!Trouble, GateBounds
<1>4. GateTypes' /\ Accounted' /\ PassHolds'
  BY <1>1, <1>2, <1>3 DEF GateTypes, Accounted, PassHolds, R!SettledAt, R!RowsOf, R!End
<1>5. R!StaleIsRebuilt'
  BY <1>1, <1>2, StaleStays
<1> QED
  BY <1>4, <1>5

\* What a drain notes of its rows is enough for every report they are too late for.
LEMMA NoteLateInv == ASSUME GateBounds, GateInv, R!NoteLate PROVE GateInv'
<1> USE DEF GateInv
<1>1. /\ drain' = {} /\ draining' = FALSE
      /\ UNCHANGED <<now, ticked, ids, through, buffer, torn, open, throughTotals, wedged, aside, cloud, unnoted,
                     report, todo, gated>>
  BY DEF R!NoteLate, R!edge, R!streams
<1>2. \/ R!IsLate(drain) /\ lateData' = R!Widened(drain) /\ (lateKept' = lateData' \/ UNCHANGED lateKept)
      \/ ~R!IsLate(drain) /\ UNCHANGED <<lateData, lateKept>>
  BY DEF R!NoteLate
<1>3. trouble' \in 0..MaxTrouble
  BY DEF R!NoteLate, R!Trouble, GateTypes, GateBounds
<1>4. /\ drain \subseteq 0..MaxNow /\ drain \subseteq Nat /\ now \in Int /\ GraceOfDay \in Int /\ MaxNow \in Nat
      /\ lateData.from \in Int /\ lateData.until \in Int
  BY DEF GateTypes, GateBounds, Minutes, LateRecord
<1> DEFINE first == R!Least(drain)
           last == R!Greatest(drain)
           lowest == R!Least({lateData.from, first})
           reach == R!Least({last, now - GraceOfDay})
           until == R!Greatest({reach, first})
           highest == R!Greatest({lateData.until, until})
<1>5. ASSUME drain # {}
      PROVE  /\ first \in drain /\ last \in drain /\ first \in Int /\ last \in Int
             /\ \A r \in drain : first <= r /\ r <= last /\ r \in Int
             /\ lowest \in Int /\ lowest <= first /\ lowest <= lateData.from
             /\ highest \in Int /\ highest >= lateData.until /\ highest >= first
             /\ highest >= now - GraceOfDay \/ highest >= last
  <2>1. first \in drain /\ last \in drain /\ \A r \in drain : first <= r /\ r <= last
    BY <1>4, <1>5, LeastOf, GreatestOf
  <2> HIDE DEF first, last
  <2>2. first \in Int /\ last \in Int /\ now - GraceOfDay \in Int /\ \A r \in drain : r \in Int
    BY <1>4, <2>1
  <2>3. lowest \in Int /\ lowest = IF lateData.from <= first THEN lateData.from ELSE first
    BY <1>4, <2>2, LeastOfTwo
  <2> HIDE DEF lowest
  <2>4. reach \in Int /\ reach = IF last <= now - GraceOfDay THEN last ELSE now - GraceOfDay
    BY <2>2, LeastOfTwo
  <2>5. until \in Int /\ until = IF reach <= first THEN first ELSE reach
    BY <2>2, <2>4, GreatestOfTwo
  <2>6. highest \in Int /\ highest = IF lateData.until <= until THEN until ELSE lateData.until
    BY <1>4, <2>5, GreatestOfTwo
  <2> HIDE DEF reach, until, highest
  <2> QED
    BY <1>4, <2>1, <2>2, <2>3, <2>4, <2>5, <2>6
<1> DEFINE Told == {d \in R!Days : report[d] # R!NoReport}
<1>6. R!Widened(drain) = [from |-> lowest, until |-> highest, before |-> Told]
  BY DEF R!Widened
<1> HIDE DEF first, last, lowest, reach, until, highest
<1>7. lateData' \in LateRecord /\ lateKept' \in LateRecord
  <2>1. CASE R!IsLate(drain)
    <3>1. drain # {}
      BY <2>1 DEF R!IsLate
    <3>2. lateData' \in LateRecord
      BY <1>2, <1>5, <1>6, <2>1, <3>1 DEF LateRecord
    <3> QED
      BY <1>2, <3>2 DEF GateTypes
  <2>2. CASE ~R!IsLate(drain)
    BY <1>2, <2>2 DEF GateTypes
  <2> QED
    BY <2>1, <2>2
<1>8. GateTypes'
  BY <1>1, <1>3, <1>7 DEF GateTypes
<1>9. R!Archived' = R!Archived /\ R!Buffered' = R!Buffered /\ R!OutOfOrder' = R!OutOfOrder /\ R!Owed' = R!Owed
  BY <1>1 DEF R!Archived, R!Buffered, R!OutOfOrder, R!Owed
<1>10. Accounted' /\ PassHolds'
  BY <1>1, <1>9 DEF Accounted, PassHolds, R!SettledAt, R!RowsOf, R!End
<1>11. R!StaleIsRebuilt'
  <2> SUFFICES ASSUME NEW d \in R!Days, report[d] # R!NoReport,
                      NEW r \in (cloud \cap R!RowsOf(d)) \ report[d].rows,
                      r \notin R!Owed \cup unnoted, ~(report[d].at < R!SettledAt(d))
               PROVE  R!BuiltBeforeLate(d)'
    BY <1>1, <1>9 DEF R!StaleIsRebuilt, R!SettledAt, R!End
  <2>1. r \in drain \/ R!BuiltBeforeLate(d)
    BY DEF R!StaleIsRebuilt
  <2>2. /\ d \in Nat /\ R!End(d) \in Nat /\ d * DayLen \in Nat /\ d * DayLen < R!End(d)
        /\ R!SettledAt(d) = R!End(d) + GraceOfDay
        /\ r \in Nat /\ d * DayLen <= r /\ r < R!End(d)
    BY DayEnds
  <2>3. report[d].at \in Int /\ report[d].at <= now
    BY DEF GateTypes, PassHolds
  <2>4. now - GraceOfDay >= R!End(d)
    BY <1>4, <2>2, <2>3
  <2>5. r \in drain => R!IsLate(drain)
    <3> SUFFICES ASSUME r \in drain PROVE R!IsLate(drain)
      OBVIOUS
    <3>1. first <= r /\ first \in Int
      BY <1>5
    <3>2. now - first > GraceOfDay
      BY <1>4, <2>2, <2>4, <3>1
    <3> QED
      BY <3>2 DEF R!IsLate, first
  <2>6. CASE R!IsLate(drain)
    <3>1. drain # {}
      BY <2>6 DEF R!IsLate
    <3>2. lateData'.from = lowest /\ lateData'.until = highest /\ lateData'.before = Told
      BY <1>2, <1>6, <2>6
    <3>3. d \in Told
      OBVIOUS
    <3>4. CASE r \in drain
      <4>1. first <= r /\ r <= last /\ last \in Int
        BY <1>5, <3>1, <3>4
      <4>2. lowest < R!End(d)
        BY <1>5, <2>2, <3>1, <4>1
      <4>3. highest >= d * DayLen
        BY <1>4, <1>5, <2>2, <2>4, <3>1, <4>1
      <4> QED
        BY <3>2, <3>3, <4>2, <4>3 DEF R!BuiltBeforeLate, R!End
    <3>5. CASE R!BuiltBeforeLate(d)
      <4>1. lowest < R!End(d) /\ highest >= d * DayLen
        BY <1>4, <1>5, <2>2, <3>1, <3>5 DEF R!BuiltBeforeLate
      <4> QED
        BY <3>2, <3>3, <4>1 DEF R!BuiltBeforeLate, R!End
    <3> QED
      BY <2>1, <3>4, <3>5
  <2>7. CASE ~R!IsLate(drain)
    BY <1>2, <2>1, <2>5, <2>7 DEF R!BuiltBeforeLate, R!End
  <2> QED
    BY <2>6, <2>7
<1> QED
  BY <1>8, <1>10, <1>11

LEMMA StartPassInv == ASSUME GateBounds, GateInv, R!StartPass PROVE GateInv'
<1> USE DEF GateInv
<1>1. /\ todo' \subseteq R!Days /\ (R!Trouble \/ UNCHANGED trouble) /\ gated' \in BOOLEAN
      /\ gated' => todo' = R!Needing(R!OwedSince)
      /\ \A d \in todo' : R!SettledAt(d) <= now
      /\ UNCHANGED <<now, ticked, ids, through, buffer, torn, open, throughTotals, wedged, aside, cloud, drain, draining,
                     lateData, lateKept, unnoted, report>>
  BY DEF R!StartPass, R!Needing, R!edge, R!lateVars, R!streams
<1>2. /\ R!Archived' = R!Archived /\ R!Buffered' = R!Buffered /\ R!OutOfOrder' = R!OutOfOrder
      /\ R!Owed' = R!Owed
  BY <1>1 DEF R!Archived, R!Buffered, R!OutOfOrder, R!Owed
<1>3. GateTypes' /\ Accounted'
  <2>1. trouble' \in 0..MaxTrouble
    BY <1>1 DEF GateTypes, R!Trouble, GateBounds
  <2> QED
    BY <1>1, <1>2, <2>1 DEF GateTypes, Accounted
<1>4. R!StaleIsRebuilt'
  BY <1>1, <1>2, StaleStays
<1>5. ASSUME NEW d \in R!Needing(R!OwedSince), NEW r \in R!RowsOf(d), r \notin cloud \cup aside, r \notin R!Buffered, r \notin torn
      PROVE  r \in R!OutOfOrder
  <2>1. d \in R!Days /\ R!SettledAt(d) <= now /\ R!End(d) <= R!OwedSince
    BY DEF R!Needing
  <2>2. r \in Nat /\ r < R!End(d) /\ R!End(d) \in Nat /\ R!SettledAt(d) = R!End(d) + GraceOfDay /\ now \in Nat /\ GraceOfDay \in Nat
    BY <2>1, DayEnds DEF GateTypes, GateBounds, Minutes
  <2>3. r \in 0..now /\ r < now
    BY <2>1, <2>2
  <2>4. PICK i \in DOMAIN ids : r = ids[i]
    BY <2>3, <1>5 DEF Accounted, R!Archived
  <2>5. i \in 1..Len(ids) /\ Len(ids) \in Nat /\ through \in 0..Len(ids) /\ DOMAIN ids = 1..Len(ids)
    BY <2>4 DEF GateTypes
  <2>6. ~(i \in 1..through)
    BY <1>5, <2>4 DEF Accounted
  <2>7. through + 1 \in 1..i /\ through # Len(ids) /\ through + 1 \in 1..Len(ids)
    <3>1. i \in Nat /\ 1 <= i /\ i <= Len(ids) /\ through \in Nat
      BY <2>5
    <3>2. through < i
      BY <2>6, <3>1
    <3>3. through + 1 \in Nat /\ 1 <= through + 1 /\ through + 1 <= i /\ Len(ids) \in Nat
      BY <2>5, <3>1, <3>2
    <3>4. through + 1 <= Len(ids) /\ through # Len(ids)
      BY <3>1, <3>2, <3>3
    <3> QED
      BY <3>1, <3>3, <3>4
  <2>8. ids[through + 1] >= R!End(d) /\ ids[through + 1] \in Int
    <3>1. R!From(through) = ids[through + 1] /\ ids[through + 1] \in Minutes
      BY <2>7 DEF R!From, GateTypes
    <3>2. R!From(throughTotals) \in Int
      <4>1. CASE throughTotals = Len(ids)
        BY <4>1 DEF R!From, R!NothingOwed, GateBounds
      <4>2. CASE throughTotals # Len(ids)
        <5>1. throughTotals + 1 \in 1..Len(ids)
          <6>1. throughTotals \in 0..Len(ids) /\ Len(ids) \in Nat
            BY <2>5 DEF GateTypes
          <6>2. throughTotals \in Nat /\ throughTotals <= Len(ids)
            BY <6>1
          <6>3. throughTotals < Len(ids)
            BY <4>2, <6>1, <6>2
          <6> QED
            BY <6>1, <6>2, <6>3
        <5>2. ids[throughTotals + 1] \in Minutes
          BY <5>1 DEF GateTypes
        <5> QED
          BY <4>2, <5>2 DEF R!From, Minutes
      <4> QED
        BY <4>1, <4>2
    <3>3. R!OwedSince \in Int /\ R!OwedSince <= ids[through + 1]
      BY <3>1, <3>2, LeastOfTwo DEF R!OwedSince, Minutes
    <3> QED
      BY <2>1, <2>2, <3>1, <3>3 DEF Minutes
  <2>9. ids[through + 1] > ids[i]
    BY <2>2, <2>4, <2>8
  <2> QED
    BY <2>4, <2>7, <2>9 DEF R!OutOfOrder
<1>6. PassHolds'
  <2>1. gated' => \A d \in todo' : R!RowsOf(d) \ cloud \subseteq R!Buffered \cup torn \cup R!OutOfOrder \cup aside
    BY <1>1, <1>5
  <2> QED
    BY <1>1, <1>2, <2>1 DEF PassHolds, R!SettledAt, R!RowsOf, R!End
<1> QED
  BY <1>3, <1>4, <1>6

LEMMA GenerateInv == ASSUME GateBounds, GateInv, NEW d \in R!Days, R!Generate(d) PROVE GateInv'
<1> USE DEF GateInv
<1>1. /\ d \in todo /\ todo' = todo \ {d} /\ gated' \in BOOLEAN /\ (todo' = {} \/ gated' = gated)
      /\ UNCHANGED <<now, ticked, ids, through, buffer, torn, open, throughTotals, wedged, aside, cloud, drain, draining,
                     unnoted>>
  BY DEF R!Generate, R!edge, R!streams, GateTypes
<1>2. R!Archived' = R!Archived /\ R!Buffered' = R!Buffered /\ R!OutOfOrder' = R!OutOfOrder /\ R!Owed' = R!Owed
  BY <1>1 DEF R!Archived, R!Buffered, R!OutOfOrder, R!Owed
<1>3. CASE UNCHANGED <<report, lateData, lateKept>> /\ trouble' \in 0..MaxTrouble
  <2>1. GateTypes' /\ Accounted' /\ PassHolds'
    BY <1>1, <1>2, <1>3 DEF GateTypes, Accounted, PassHolds, R!SettledAt, R!RowsOf, R!End
  <2>2. R!StaleIsRebuilt'
    BY <1>1, <1>2, <1>3, StaleStays
  <2> QED
    BY <2>1, <2>2
<1>4. CASE /\ report' = [report EXCEPT ![d] = [at |-> now, rows |-> cloud \cap R!RowsOf(d)]]
           /\ lateData' = R!Rebuilt(lateData, d) /\ lateKept' = R!Rebuilt(lateKept, d) /\ UNCHANGED trouble
  <2>1. lateData' \in LateRecord /\ lateKept' \in LateRecord
    BY <1>4 DEF GateTypes, LateRecord, R!Rebuilt
  <2>2. [at |-> now, rows |-> cloud \cap R!RowsOf(d)] \in [at : Int, rows : SUBSET Minutes]
    <3>1. now \in Int
      BY DEF GateTypes, Minutes
    <3>2. cloud \subseteq Minutes
      BY DEF GateTypes
    <3> QED
      BY <3>1, <3>2
  <2>3. report' \in [R!Days -> [at : Int, rows : SUBSET Minutes]]
    BY <1>4, <2>2 DEF GateTypes
  <2>4. GateTypes' /\ Accounted'
    BY <1>1, <1>2, <1>4, <2>1, <2>3 DEF GateTypes, Accounted
  <2>5. \A e \in R!Days : report'[e] = IF e = d THEN [at |-> now, rows |-> cloud \cap R!RowsOf(d)] ELSE report[e]
    BY <1>4 DEF GateTypes
  <2>6. PassHolds'
    <3>1. now <= now
      BY DEF GateTypes, Minutes
    <3>2. \A e \in R!Days : report'[e].at <= now
      BY <2>5, <3>1 DEF PassHolds
    <3> QED
      BY <1>1, <1>2, <3>2 DEF PassHolds, R!SettledAt, R!RowsOf, R!End
  <2>7. R!StaleIsRebuilt'
    <3> SUFFICES ASSUME NEW e \in R!Days, report'[e] # R!NoReport,
                        NEW r \in (cloud \cap R!RowsOf(e)) \ report'[e].rows
                 PROVE  r \in drain \cup R!Owed \cup unnoted \/ R!BuiltBeforeLate(e)' \/ report'[e].at < R!SettledAt(e)
      BY <1>1, <1>2 DEF R!StaleIsRebuilt, R!SettledAt, R!End
    <3>1. e # d /\ report'[e] = report[e]
      BY <2>5
    <3>2. lateData'.from = lateData.from /\ lateData'.until = lateData.until /\ lateData'.before = lateData.before \ {d}
      BY <1>4 DEF R!Rebuilt, GateTypes, LateRecord
    <3>3. R!BuiltBeforeLate(e) => R!BuiltBeforeLate(e)'
      BY <3>1, <3>2 DEF R!BuiltBeforeLate, R!End
    <3> QED
      BY <3>1, <3>3 DEF R!StaleIsRebuilt
  <2> QED
    BY <2>4, <2>6, <2>7
<1> QED
  BY <1>1, <1>3, <1>4 DEF R!Generate, R!Trouble, GateTypes, GateBounds

LEMMA FirstFew == ASSUME NEW n \in Nat PROVE Cardinality(1..n) = n
BY FS_Interval

\* What was buffered is not archived, so all of it is imported, in its order.
RowsIn(left) == {left[i] : i \in DOMAIN left}

LEMMA AllImported ==
  ASSUME GateTypes, R!Archived \cap R!Buffered = {}, NEW left \in Seq(Minutes), RowsIn(left) \subseteq R!Buffered
  PROVE  R!Imported(left) = ids \o left
<1>1. DOMAIN left = 1..Len(left) /\ Len(left) \in Nat /\ ids \in Seq(Minutes)
  BY DEF GateTypes
<1>2. R!New(left) = 1..Len(left)
  BY <1>1 DEF R!New, R!Archived, RowsIn
<1>3. Cardinality(R!New(left)) = Len(left)
  <2>1. Cardinality(1..Len(left)) = Len(left)
    BY <1>1, FirstFew
  <2> QED
    BY <1>2, <2>1
<1>4. ASSUME NEW k \in 1..Len(left) PROVE R!Nth(left, k) = k
  <2>1. ASSUME NEW i \in 1..Len(left) PROVE Cardinality({j \in R!New(left) : j <= i}) = i
    <3>1. {j \in R!New(left) : j <= i} = 1..i
      BY <1>1, <1>2
    <3>2. Cardinality(1..i) = i
      BY <1>1, FirstFew
    <3> QED
      BY <3>1, <3>2
  <2>2. \A i \in R!New(left) : Cardinality({j \in R!New(left) : j <= i}) = k <=> i = k
    BY <1>2, <2>1
  <2> QED
    BY <1>2, <2>2, SameCount DEF R!Nth
<1>5. [k \in 1..Cardinality(R!New(left)) |-> left[R!Nth(left, k)]] = left
  BY <1>1, <1>3, <1>4
<1> QED
  BY <1>5, SameCount DEF R!Imported

\* The rows of a buffer that is taken in are still accounted for, those a crash lost included.
LEMMA TakenIn ==
  ASSUME GateBounds, GateInv, NEW left \in Seq(Minutes), ids' = ids \o left, buffer' = <<>>,
         RowsIn(left) \subseteq R!Buffered, R!Buffered \subseteq cloud' \cup RowsIn(left) \cup torn',
         cloud \subseteq cloud', torn \subseteq torn',
         UNCHANGED <<now, ticked, through, throughTotals, aside>>
  PROVE  /\ ids' \in Seq(Minutes) /\ through' \in 0..Len(ids') /\ throughTotals' \in 0..Len(ids')
         /\ R!Owed \subseteq R!Owed' /\ Accounted'
<1> USE DEF GateInv
<1>3. /\ ids \in Seq(Minutes) /\ ids' \in Seq(Minutes)
      /\ Len(ids') = Len(ids) + Len(left) /\ Len(ids) \in Nat /\ Len(left) \in Nat
      /\ \A i \in 1..Len(ids) : ids'[i] = ids[i]
      /\ \A i \in 1..Len(left) : ids'[Len(ids) + i] = left[i]
  BY DEF GateTypes
<1>4. /\ R!Owed \subseteq R!Owed' /\ R!OutOfOrder \subseteq R!OutOfOrder' /\ R!Archived \subseteq R!Archived'
      /\ through' \in 0..Len(ids') /\ throughTotals' \in 0..Len(ids')
  <2>1. GateTypes /\ Len(ids') >= Len(ids)
    BY <1>3
  <2>2. ids' \in Seq(Minutes) /\ \A i \in 1..Len(ids) : ids'[i] = ids[i]
    BY <1>3
  <2> HIDE DEF GateInv
  <2> QED
    BY <2>1, <2>2, ArchiveGrows
<1>6. R!Archived' = R!Archived \cup RowsIn(left) /\ R!Buffered' = {}
  <2>1. DOMAIN ids' = 1..Len(ids') /\ DOMAIN left = 1..Len(left) /\ DOMAIN ids = 1..Len(ids)
    BY <1>3
  <2>2. \A i \in DOMAIN left : Len(ids) + i \in DOMAIN ids'
    BY <1>3, <2>1
  <2>3. R!Archived \cup RowsIn(left) \subseteq R!Archived'
    BY <1>3, <1>4, <2>1, <2>2 DEF R!Archived, RowsIn
  <2>4. ASSUME NEW i \in DOMAIN ids' PROVE ids'[i] \in R!Archived \cup RowsIn(left)
    <3>1. CASE i \in 1..Len(ids)
      BY <1>3, <2>1, <3>1 DEF R!Archived
    <3>2. CASE i \notin 1..Len(ids)
      <4>1. i - Len(ids) \in 1..Len(left) /\ i = Len(ids) + (i - Len(ids))
        BY <1>3, <2>1, <3>2
      <4> QED
        BY <1>3, <2>1, <4>1 DEF RowsIn
    <3> QED
      BY <3>1, <3>2
  <2>5. R!Buffered' = {}
    BY DEF R!Buffered
  <2> QED
    BY <2>3, <2>4, <2>5 DEF R!Archived
<1>7. Accounted'
  <2>1. \A i \in 1..through : ids'[i] \in cloud' \cup aside
    <3>1. \A i \in 1..through : i \in 1..Len(ids) /\ ids[i] \in cloud \cup aside
      BY DEF Accounted, GateTypes
    <3> QED
      BY <1>3, <3>1
  <2> QED
    BY <1>6, <2>1 DEF Accounted
<1> QED
  BY <1>3, <1>4, <1>7

\* What a stop leaves of the buffer, and where its rows are then.
LEMMA LeftBehind ==
  ASSUME GateBounds, GateInv, R!Restart
  PROVE  \E left \in Seq(Minutes), sent \in SUBSET R!Buffered :
           /\ cloud' = cloud \cup sent /\ RowsIn(left) \subseteq R!Buffered
           /\ torn' = torn \cup (R!Buffered \ (sent \cup RowsIn(left)))
           /\ unnoted' = unnoted \cup drain \cup sent \cup (IF lateData # lateKept THEN cloud ELSE {})
           /\ \/ ids' = R!Imported(left) /\ buffer' = <<>>
              \/ buffer' = left /\ UNCHANGED ids
<1>1. PICK n \in 0..(IF ticked THEN 0 ELSE Len(buffer)), left \in R!Leftovers :
        LET sent == {buffer[i] : i \in 1..n} IN
        /\ cloud' = cloud \cup sent
        /\ torn' = torn \cup (R!Buffered \ (sent \cup {left[i] : i \in DOMAIN left}))
        /\ IF open'
           THEN ids' = R!Imported(left) /\ buffer' = <<>>
           ELSE buffer' = left /\ UNCHANGED ids
        /\ unnoted' = unnoted \cup drain \cup sent \cup (IF lateData # lateKept THEN cloud ELSE {})
  BY DEF R!Restart
<1> DEFINE sent == {buffer[i] : i \in 1..n}
<1>2. buffer \in Seq(Minutes) /\ Len(buffer) \in Nat /\ DOMAIN buffer = 1..Len(buffer)
  BY DEF GateInv, GateTypes
<1>3. n \in 0..Len(buffer)
  BY <1>1, <1>2
<1>4. sent \in SUBSET R!Buffered
  BY <1>2, <1>3 DEF R!Buffered
<1>5. left \in Seq(Minutes) /\ RowsIn(left) \subseteq R!Buffered
  <2>1. left = buffer \/ left = <<>>
    BY <1>1 DEF R!Leftovers
  <2>2. CASE left = buffer
    BY <1>2, <2>2 DEF R!Buffered, RowsIn
  <2>3. CASE left = <<>>
    <3>1. <<>> \in Seq(Minutes) /\ DOMAIN left = {}
      BY <2>3
    <3> QED
      BY <2>3, <3>1 DEF RowsIn
  <2> QED
    BY <2>1, <2>2, <2>3
<1> QED
  BY <1>1, <1>4, <1>5 DEF RowsIn

LEMMA RestartInv == ASSUME GateBounds, GateInv, R!Restart PROVE GateInv'
<1> USE DEF GateInv
<1>1. /\ trouble' \in 0..MaxTrouble /\ lateData' = lateKept /\ open' \in BOOLEAN /\ gated' = TRUE
      /\ drain' = {} /\ draining' = FALSE /\ todo' = {}
      /\ UNCHANGED <<now, ticked, through, throughTotals, wedged, aside, lateKept, report>>
  BY DEF R!Restart, R!Trouble, GateTypes, GateBounds
<1>2. PICK left \in Seq(Minutes), sent \in SUBSET R!Buffered :
        /\ cloud' = cloud \cup sent /\ RowsIn(left) \subseteq R!Buffered
        /\ torn' = torn \cup (R!Buffered \ (sent \cup RowsIn(left)))
        /\ unnoted' = unnoted \cup drain \cup sent \cup (IF lateData # lateKept THEN cloud ELSE {})
        /\ \/ ids' = R!Imported(left) /\ buffer' = <<>>
           \/ buffer' = left /\ UNCHANGED ids
  BY LeftBehind
<1>3. R!Buffered \subseteq cloud' \cup RowsIn(left) \cup torn' /\ cloud \subseteq cloud' /\ torn \subseteq torn'
  BY <1>2
<1>4. /\ ids' \in Seq(Minutes) /\ buffer' \in Seq(Minutes)
      /\ through' \in 0..Len(ids') /\ throughTotals' \in 0..Len(ids')
      /\ R!Owed \subseteq R!Owed' /\ Accounted'
  <2>1. CASE ids' = R!Imported(left) /\ buffer' = <<>>
    <3>1. ids' = ids \o left
      BY <1>2, <2>1, AllImported DEF Accounted
    <3>2. buffer' \in Seq(Minutes)
      BY <2>1
    <3> HIDE DEF GateInv
    <3> QED
      BY <1>1, <1>2, <1>3, <2>1, <3>1, <3>2, TakenIn
  <2>2. CASE buffer' = left /\ UNCHANGED ids
    <3>1. R!Archived' = R!Archived /\ R!Buffered' = RowsIn(left) /\ R!Owed' = R!Owed
      BY <1>1, <2>2 DEF R!Archived, R!Buffered, R!Owed, RowsIn
    <3>2. Accounted'
      BY <1>1, <1>2, <1>3, <2>2, <3>1 DEF Accounted
    <3> QED
      BY <1>1, <1>2, <2>2, <3>1, <3>2 DEF GateTypes
  <2> QED
    BY <1>2, <2>1, <2>2
<1>5. GateTypes'
  <2>1. R!Buffered \subseteq Minutes
    BY DEF GateTypes, R!Buffered
  <2>2. unnoted' \subseteq Minutes /\ cloud' \subseteq Minutes
    BY <1>2, <2>1 DEF GateTypes
  <2> QED
    BY <1>1, <1>4, <2>2 DEF GateTypes
<1>6. PassHolds'
  BY <1>1 DEF PassHolds
<1>7. R!StaleIsRebuilt'
  <2> SUFFICES ASSUME NEW d \in R!Days, report[d] # R!NoReport,
                      NEW r \in (cloud' \cap R!RowsOf(d)) \ report[d].rows
               PROVE  r \in R!Owed' \cup unnoted' \/ R!BuiltBeforeLate(d)' \/ report[d].at < R!SettledAt(d)
    BY <1>1 DEF R!StaleIsRebuilt, R!SettledAt, R!End, R!RowsOf
  <2>1. CASE r \notin cloud
    BY <1>2, <2>1
  <2>2. CASE r \in cloud
    <3>1. lateData # lateKept => r \in unnoted'
      BY <1>2, <2>2
    <3>2. lateData = lateKept /\ R!BuiltBeforeLate(d) => R!BuiltBeforeLate(d)'
      BY <1>1 DEF R!BuiltBeforeLate, R!End
    <3>3. drain \cup unnoted \subseteq unnoted'
      BY <1>2
    <3>4. \/ r \in drain \cup R!Owed \cup unnoted \/ R!BuiltBeforeLate(d) \/ report[d].at < R!SettledAt(d)
      BY <2>2 DEF R!StaleIsRebuilt
    <3> QED
      BY <1>4, <3>1, <3>2, <3>3, <3>4
  <2> QED
    BY <2>1, <2>2
<1> QED
  BY <1>4, <1>5, <1>6, <1>7

\* The invariant holds from the beginning.
LEMMA GateInit == ASSUME GateBounds, R!Init PROVE GateInv
<1>1. GateTypes
  <2>1. R!NoLate \in LateRecord
    BY DEF GateBounds, R!NoLate, LateRecord
  <2>2. report \in [R!Days -> [at : Int, rows : SUBSET Minutes]]
    BY DEF R!Init, R!NoReport
  <2>3. ids \in Seq(Minutes) /\ buffer \in Seq(Minutes) /\ through \in 0..Len(ids)
    BY DEF R!Init
  <2>4. now \in Minutes /\ trouble \in 0..MaxTrouble
    BY DEF R!Init, GateBounds, Minutes
  <2> QED
    BY <2>1, <2>2, <2>3, <2>4 DEF R!Init, GateTypes
<1>2. R!Archived = {} /\ R!Buffered = {}
  BY DEF R!Init, R!Archived, R!Buffered
<1>3. Accounted
  BY <1>2 DEF R!Init, Accounted, GateBounds
<1>4. PassHolds
  BY DEF R!Init, PassHolds, R!NoReport
<1>5. R!StaleIsRebuilt
  BY DEF R!Init, R!StaleIsRebuilt
<1> QED
  BY <1>1, <1>3, <1>4, <1>5 DEF GateInv

LEMMA GateStep == ASSUME GateBounds, GateInv, [R!Next]_R!reportgate_vars PROVE GateInv'
<1>1. CASE R!Next
  BY <1>1, MinuteInv, ArchivesInv, DirectInv, SendInv, NoteLateInv, StartPassInv, GenerateInv, RestartInv, WedgeInv, Zenon
     DEF R!Next, R!Tick, R!Build
<1>2. CASE UNCHANGED R!reportgate_vars
  <2>1. UNCHANGED <<now, ticked, ids, through, buffer, torn, open, throughTotals, wedged, aside, cloud, drain, draining,
                    lateData, lateKept, unnoted, report, todo, gated, trouble>>
    BY <1>2 DEF R!reportgate_vars, R!edge, R!lateVars, R!streams
  <2> HIDE DEF GateInv
  <2>2. R!Archived' = R!Archived /\ R!Buffered' = R!Buffered /\ R!OutOfOrder' = R!OutOfOrder /\ R!Owed' = R!Owed
    BY <2>1 DEF R!Archived, R!Buffered, R!OutOfOrder, R!Owed
  <2>3. GateTypes' /\ Accounted' /\ PassHolds'
    BY <2>1, <2>2 DEF GateInv, GateTypes, Accounted, PassHolds, R!SettledAt, R!RowsOf, R!End
  <2>4. R!StaleIsRebuilt'
    BY <2>1, <2>2, StaleStays DEF GateInv
  <2> QED
    BY <2>3, <2>4 DEF GateInv
<1> QED
  BY <1>1, <1>2

LEMMA GateStays == ASSUME GateBounds PROVE R!Spec => []GateInv
BY GateInit, GateStep, PTL DEF R!Spec

\* Only a pass that still holds makes a report.
LEMMA GateMade ==
  ASSUME GateBounds, GateInv, [R!Next]_R!reportgate_vars
  PROVE  [\A d \in R!Days : gated /\ report'[d] # report[d] =>
           (R!RowsOf(d) \cap 0..now) \ cloud \subseteq R!Buffered \cup torn \cup R!OutOfOrder \cup aside]_R!reportgate_vars
<1> SUFFICES ASSUME NEW d \in R!Days, report'[d] # report[d]
             PROVE  d \in todo
  BY DEF GateInv, PassHolds
<1>1. PICK e \in R!Days : R!Generate(e)
  <2>1. report' # report
    OBVIOUS
  <2>2. ASSUME \/ R!MinutePasses \/ R!TickArchives \/ R!TickDirect \/ R!Send \/ R!NoteLate
               \/ R!StartPass \/ R!Restart \/ \E s \in R!Stream : R!Wedge(s) \/ R!Unwedge(s)
        PROVE  UNCHANGED report
    BY <2>2 DEF R!MinutePasses, R!TickArchives, R!TickDirect, R!Send, R!NoteLate, R!StartPass, R!Restart,
                R!Wedge, R!Unwedge
  <2> QED
    BY <2>1, <2>2 DEF R!Next, R!Tick, R!Build, R!reportgate_vars
<1>2. e \in todo /\ (report' = report \/ report' = [report EXCEPT ![e] = [at |-> now, rows |-> cloud \cap R!RowsOf(e)]])
  BY <1>1 DEF R!Generate
<1> QED
  BY <1>2 DEF GateInv, GateTypes

\* A settled day whose report lacks a row the cloud has is built again: the late-data
\* record covers it from the drain on, a restart of ingest and a pass that had begun
\* included, for any length of a day, any grace and any number of faults.  What no drain
\* notes - a row the tick sent itself or a drain cut by a crash - is excepted by name.
THEOREM StaleReportsRebuilt == AnySpec => []StaleIsRebuilt
<1>1. GateInv => StaleIsRebuilt
  BY DEF GateInv, StaleIsRebuilt
<1> QED
  BY <1>1, GateStays, OfReports, DaemonsAssumption, PTL

\* No pass that could ask the archive reports a day whose rows are not in the cloud yet:
\* what is missing is in the outage buffer, which the gate does not look at, was lost when
\* the buffer was being rewritten, was archived behind a newer row, or was refused and set
\* aside, which the cursor passes.
THEOREM ReportsMadeWhole == AnySpec => MadeWhole
<1>1. R!Spec => R!MadeWhole
  BY GateStays, GateMade, DaemonsAssumption, PTL DEF R!Spec, R!MadeWhole
<1> QED
  BY <1>1, OfReports DEF MadeWhole

-----------------------------------------------------------------------------
(***************************************************************************)
(* Held meters.                                                            *)
(***************************************************************************)
\* The rows of the upsert under way are on record.
AskedOnRecord == asked \subseteq record

RecordInv == H!EstimateKept /\ AskedOnRecord

\* What goes out is on record; what comes back is stored.
LEMMA HandleStep ==
  ASSUME RecordInv, UNCHANGED <<stored, asked>>, NEW events, H!Going(events)
  PROVE  RecordInv'
<1>1. CASE H!NoEstimate
  BY <1>1 DEF H!NoEstimate, RecordInv, H!EstimateKept, AskedOnRecord
<1>2. CASE \E row : H!Estimate(row)
  <2>1. PICK row : H!Estimate(row)
    BY <1>2
  <2>2. CASE UNCHANGED <<record, pending, slipped>>
    BY <2>2 DEF RecordInv, H!EstimateKept, AskedOnRecord
  <2>3. CASE H!Add({row}) /\ UNCHANGED slipped
    BY <2>3 DEF H!Add, RecordInv, H!EstimateKept, AskedOnRecord
  <2>4. CASE record' = record \cup {row} /\ slipped' = slipped \cup {row} /\ UNCHANGED pending
    BY <2>4 DEF RecordInv, H!EstimateKept, AskedOnRecord
  <2> QED
    BY <2>1, <2>2, <2>3, <2>4 DEF H!Estimate
<1> QED
  BY <1>1, <1>2 DEF H!Going, H!Handle

LEMMA TickStepKeeps == ASSUME RecordInv, H!TickStep PROVE RecordInv'
<1>1. CASE H!Tick
  <2>1. UNCHANGED <<stored, asked>> /\ \E events : H!Going(events)
    BY <1>1 DEF H!Tick
  <2> QED
    BY <2>1, HandleStep
<1>2. CASE H!NothingToSend
  BY <1>2 DEF H!NothingToSend, H!outbox, RecordInv, H!EstimateKept, AskedOnRecord
<1>3. CASE H!Flush
  BY <1>3 DEF H!Flush, H!outbox, RecordInv, H!EstimateKept, AskedOnRecord
<1>4. CASE H!Flushed
  <2>1. PICK took \in BOOLEAN, answered \in BOOLEAN :
          /\ answered => took
          /\ stored' = IF took THEN stored \cup asked ELSE stored
          /\ pending' = H!Emptied(answered)
          /\ slipped' = IF answered THEN slipped \cup (pending \ asked) ELSE slipped
    BY <1>4 DEF H!Flushed
  <2>2. record' = record /\ asked' = {}
    BY <1>4 DEF H!Flushed
  <2>3. CASE answered
    <3>1. pending' = {} /\ stored' = stored \cup asked /\ slipped' = slipped \cup (pending \ asked)
      BY <2>1, <2>3 DEF H!Emptied
    <3> QED
      BY <2>2, <3>1 DEF RecordInv, H!EstimateKept, AskedOnRecord
  <2>4. CASE ~answered
    <3>1. pending' = pending /\ slipped' = slipped /\ stored \subseteq stored' /\ stored' \subseteq stored \cup asked
      BY <2>1, <2>4 DEF H!Emptied
    <3> QED
      BY <2>2, <3>1 DEF RecordInv, H!EstimateKept, AskedOnRecord
  <2> QED
    BY <2>3, <2>4
<1> QED
  BY <1>1, <1>2, <1>3, <1>4 DEF H!TickStep

LEMMA RestartKeeps ==
  ASSUME RecordInv, H!Restart \/ \E events \in runs : H!RestartBetween(events)
  PROVE  RecordInv'
<1>1. asked' = {}
  BY DEF H!Restart, H!RestartBetween, H!Forget
<1>2. CASE H!Restart
  <2>1. UNCHANGED <<record, pending, slipped>> /\ stored \subseteq stored' /\ stored' \subseteq stored \cup asked
    BY <1>2 DEF H!Restart
  <2> QED
    BY <1>1, <2>1 DEF RecordInv, H!EstimateKept, AskedOnRecord
<1>3. CASE \E events \in runs : H!RestartBetween(events)
  <2>1. UNCHANGED <<pending, stored>> /\ \E row : record' = record \cup {row} /\ slipped' = slipped \cup {row}
    BY <1>3 DEF H!RestartBetween
  <2> QED
    BY <1>1, <2>1 DEF RecordInv, H!EstimateKept, AskedOnRecord
<1> QED
  BY <1>2, <1>3

LEMMA RecordStep == ASSUME RecordInv, H!Next PROVE RecordInv'
<1>1. CASE \E m \in Meter : H!StartsHolding(m) \/ H!MovesAgain(m) \/ H!FlagReturns(m)
  <2>1. UNCHANGED <<H!outbox, asked>>
    BY <1>1 DEF H!StartsHolding, H!MovesAgain, H!FlagReturns
  <2> QED
    BY <2>1 DEF H!outbox, RecordInv, H!EstimateKept, AskedOnRecord
<1>2. CASE H!TickStep
  BY <1>2, TickStepKeeps
<1>3. CASE H!NotSent
  BY <1>3 DEF H!NotSent, H!outbox, RecordInv, H!EstimateKept, AskedOnRecord
<1>4. CASE H!Notice
  <2>1. UNCHANGED <<stored, asked>> /\ \E events : H!Going(events)
    BY <1>4 DEF H!Notice, H!Noticed
  <2> QED
    BY <2>1, HandleStep
<1>5. CASE H!Restart \/ \E events \in runs : H!RestartBetween(events)
  BY <1>5, RestartKeeps
<1> QED
  BY <1>1, <1>2, <1>3, <1>4, <1>5 DEF H!Next

\* Every estimate on record is pending or in the cloud, but for those that slipped,
\* however ticks, notices, upserts and restarts interleave; and the cloud holds nothing
\* the record could not rebuild.
THEOREM EstimatesKept == AnySpec => []EstimateKept
<1>1. H!Init => RecordInv
  BY DEF H!Init, RecordInv, H!EstimateKept, AskedOnRecord
<1>2. RecordInv /\ [H!Next]_H!heldmeters_vars => RecordInv'
  <2> SUFFICES ASSUME RecordInv, [H!Next]_H!heldmeters_vars PROVE RecordInv'
    OBVIOUS
  <2>1. CASE UNCHANGED H!heldmeters_vars
    BY <2>1 DEF H!heldmeters_vars, H!outbox, RecordInv, H!EstimateKept, AskedOnRecord
  <2> QED
    BY <2>1, RecordStep
<1>3. RecordInv => EstimateKept
  BY DEF RecordInv, EstimateKept
<1> QED
  BY <1>1, <1>2, <1>3, OfMeters, PTL DEF H!Spec


\* The ticks freezeWatch counts without a flag are ticks since the flag was seen.
AbsenceCounted ==
  /\ tracked \in [Meter -> Int] /\ absent \in [Meter -> Nat] /\ since \in [Meter -> Nat]
  /\ \A m \in Meter : absent[m] # H!None => absent[m] <= since[m] + 1

\* Counters stop at the wait and are never negative.
LEMMA CappedNat ==
  ASSUME Delay, NEW n \in Nat
  PROVE  H!Capped(n) \in Nat /\ H!Capped(n) <= ClearAfter + 1 /\ (H!Capped(n) = n \/ H!Capped(n) = ClearAfter + 1)
BY DEF Delay, H!Capped

LEMMA TickCounts ==
  ASSUME Delay, AbsenceCounted, flag \in [Meter -> Int], H!Tick
  PROVE  /\ AbsenceCounted'
         /\ \A m \in Meter : tracked[m] # H!None /\ tracked'[m] = H!None => flag[m] = H!None /\ since[m] >= ClearAfter
<1> DEFINE known(present, m) ==
             IF m \in H!Cleared(present) THEN H!None ELSE IF m \in H!Started(present) THEN flag[m] ELSE tracked[m]
           noted(present, m) == m \in present /\ tracked[m] # H!None /\ m \notin H!Cleared(present)
           from(present, m) == IF noted(present, m) THEN H!AbsentFrom(m) ELSE absent[m]
           gone(present, m) == IF m \in H!Cleared(present) \cup H!Started(present) \/ from(present, m) = H!None
                               THEN H!None ELSE H!Capped(from(present, m) + 1)
           apart(present, m) == IF m \in present /\ flag[m] # H!None THEN 0 ELSE H!Capped(since[m] + 1)
<1>1. PICK present \in SUBSET Meter :
        /\ tracked' = [m \in Meter |-> known(present, m)]
        /\ absent' = [m \in Meter |-> gone(present, m)]
        /\ since' = [m \in Meter |-> apart(present, m)]
  BY Zenon DEF H!Tick
<1>2. ASSUME NEW m \in Meter
      PROVE  /\ known(present, m) \in Int /\ gone(present, m) \in Nat /\ apart(present, m) \in Nat
             /\ gone(present, m) # H!None => gone(present, m) <= apart(present, m) + 1
             /\ tracked[m] # H!None /\ known(present, m) = H!None => flag[m] = H!None /\ since[m] >= ClearAfter
  <2>1. /\ tracked[m] \in Int /\ absent[m] \in Nat /\ since[m] \in Nat /\ flag[m] \in Int
        /\ absent[m] # H!None => absent[m] <= since[m] + 1
    BY DEF AbsenceCounted
  <2>2. from(present, m) \in Nat
    BY <2>1 DEF H!AbsentFrom, H!None
  <2>3. known(present, m) \in Int /\ gone(present, m) \in Nat /\ apart(present, m) \in Nat
    BY <2>1, <2>2, CappedNat DEF H!None
  <2>4. m \in present /\ flag[m] # H!None => gone(present, m) = H!None
    BY <2>1 DEF H!AbsentFrom, H!None, H!Started, H!Cleared
  <2>5. ASSUME ~(m \in present /\ flag[m] # H!None), gone(present, m) # H!None
        PROVE  gone(present, m) <= apart(present, m) + 1
    <3>1. gone(present, m) = H!Capped(from(present, m) + 1) /\ from(present, m) # H!None
      BY <2>5
    <3>2. from(present, m) <= since[m] + 1
      BY <2>1, <2>5, <3>1 DEF H!AbsentFrom, H!None
    <3>3. apart(present, m) = H!Capped(since[m] + 1)
      BY <2>5
    <3>4. from(present, m) + 1 \in Nat /\ since[m] + 1 \in Nat
      BY <2>1, <2>2
    <3> HIDE DEF from, gone, apart
    <3> QED
      BY <2>1, <2>2, <3>1, <3>2, <3>3 DEF H!Capped, Delay
  <2>6. ASSUME tracked[m] # H!None, known(present, m) = H!None
        PROVE  flag[m] = H!None /\ since[m] >= ClearAfter
    <3>1. m \in H!Cleared(present)
      BY <2>6 DEF H!Started
    <3>2. flag[m] = H!None /\ H!AbsentFrom(m) > ClearAfter
      BY <3>1 DEF H!Cleared
    <3>3. H!AbsentFrom(m) <= since[m] + 1
      BY <2>1, <3>2 DEF H!AbsentFrom, H!None
    <3> QED
      BY <2>1, <3>2, <3>3 DEF Delay, H!AbsentFrom, H!None
  <2> QED
    BY <2>1, <2>3, <2>4, <2>5, <2>6
<1> HIDE DEF known, gone, apart
<1> QED
  BY <1>1, <1>2 DEF AbsenceCounted

LEMMA FlagTyped ==
  ASSUME hold \in [Meter -> Int], flag \in [Meter -> Int], [H!Next]_H!heldmeters_vars
  PROVE  hold' \in [Meter -> Int] /\ flag' \in [Meter -> Int]
<1>1. CASE \E m \in Meter : H!StartsHolding(m) \/ H!MovesAgain(m) \/ H!FlagReturns(m)
  BY <1>1 DEF H!StartsHolding, H!MovesAgain, H!FlagReturns, H!None
<1>2. CASE UNCHANGED H!site
  BY <1>2 DEF H!site
<1> QED
  BY <1>1, <1>2, Zenon DEF H!Next, H!TickStep, H!Tick, H!NothingToSend, H!Flush, H!Flushed, H!NotSent,
     H!Notice, H!Noticed, H!Restart, H!RestartBetween,
     H!heldmeters_vars

CountInv == AbsenceCounted /\ hold \in [Meter -> Int] /\ flag \in [Meter -> Int]

LEMMA CountStep ==
  ASSUME Delay, CountInv, [H!Next]_H!heldmeters_vars
  PROVE  /\ CountInv'
         /\ \A m \in Meter : tracked[m] # H!None /\ tracked'[m] = H!None /\ tickStage' = "uploading"
              => flag[m] = H!None /\ since[m] >= ClearAfter
<1>1. hold' \in [Meter -> Int] /\ flag' \in [Meter -> Int]
  BY FlagTyped DEF CountInv
<1>2. CASE H!Tick
  BY <1>1, <1>2, TickCounts DEF CountInv
<1>3. CASE H!Restart \/ \E events \in runs : H!RestartBetween(events)
  <2>1. /\ tracked' = [m \in Meter |-> H!None] /\ absent' = [m \in Meter |-> H!None]
        /\ since' = [m \in Meter |-> ClearAfter + 1] /\ tickStage' = "waiting"
    BY <1>3 DEF H!Restart, H!RestartBetween, H!Forget
  <2> QED
    BY <1>1, <2>1 DEF CountInv, AbsenceCounted, Delay, H!None
<1>4. CASE UNCHANGED H!watch
  BY <1>1, <1>4 DEF H!watch, CountInv, AbsenceCounted
<1> QED
  BY <1>2, <1>3, <1>4, Zenon DEF H!Next, H!TickStep, H!NothingToSend, H!Flush, H!Flushed, H!NotSent,
     H!Notice, H!Noticed, H!heldmeters_vars,
     H!StartsHolding, H!MovesAgain, H!FlagReturns

\* A hold is ended, and its estimate asked for, only when its meter really moves and no tick
\* of the last ClearAfter saw its flag: a bridge that answers without the flag, or not at
\* all, does not end it, over restarts that read the file anew.
THEOREM HoldsEndedForGood == AnySpec => EndedForGood
<1>1. H!Init => CountInv
  BY DaemonsAssumption DEF H!Init, CountInv, AbsenceCounted, H!None, Delay
<1>2. CountInv /\ [H!Next]_H!heldmeters_vars => CountInv'
  BY CountStep, DaemonsAssumption
<1>3. CountInv /\ [H!Next]_H!heldmeters_vars
        => [\A m \in Meter : tracked[m] # H!None /\ tracked'[m] = H!None /\ tickStage' = "uploading"
              => flag[m] = H!None /\ since[m] >= ClearAfter]_H!heldmeters_vars
  BY CountStep, DaemonsAssumption
<1>4. H!Spec => H!EndedForGood
  BY <1>1, <1>2, <1>3, PTL DEF H!Spec, H!EndedForGood
<1> QED
  BY <1>4, OfMeters DEF EndedForGood

-----------------------------------------------------------------------------
(***************************************************************************)
(* The watch and the recovery of the fleet.                                *)
(***************************************************************************)
\* What the recovery's file says of the last restart is true, unless a write failed.
FileTrue == unwritten \/ keptRestart = restarted

\* Each step keeps the file true.
LEMMA FileTrueStep == ASSUME FileTrue, F!Next PROVE FileTrue'
<1>1. CASE \E d \in Device : F!DeviceFails(d) \/ F!DeviceReturns(d) \/ F!NodeGivesUp(d)
  BY <1>1 DEF FileTrue, F!DeviceFails, F!DeviceReturns, F!NodeGivesUp, F!recovery
<1>2. CASE F!Tick
  <2>1. unwritten' = unwritten /\ keptRestart' = F!Older(keptRestart, Cooldown) /\ restarted' = F!Older(restarted, Cooldown)
    BY <1>2 DEF F!Tick
  <2> QED
    BY <2>1 DEF FileTrue
<1>3. CASE F!IngestRestarts
  BY <1>3 DEF FileTrue, F!IngestRestarts, F!recovery
<1>4. CASE F!Check
  <2>1. CASE F!NoRestart \/ F!RestartRefused \/ F!CheckFails
    BY <2>1 DEF FileTrue, F!NoRestart, F!RestartRefused, F!CheckFails
  <2>2. CASE F!RestartNodeRed
    BY <2>2 DEF FileTrue, F!RestartNodeRed
  <2> QED
    BY <1>4, <2>1, <2>2 DEF F!Check
<1>5. CASE F!Reboot
  BY <1>5 DEF FileTrue, F!Reboot
<1> QED
  BY <1>1, <1>2, <1>3, <1>4, <1>5 DEF F!Next

LEMMA FileTrueAlways == F!Spec => []FileTrue
<1>1. F!Init => FileTrue
  BY DEF F!Init, FileTrue
<1>2. FileTrue /\ [F!Next]_F!fleetwatch_vars => FileTrue'
  <2> SUFFICES ASSUME FileTrue, [F!Next]_F!fleetwatch_vars PROVE FileTrue'
    OBVIOUS
  <2>1. CASE UNCHANGED F!fleetwatch_vars
    BY <2>1 DEF FileTrue, F!fleetwatch_vars, F!recovery
  <2> QED
    BY <2>1, FileTrueStep
<1> QED
  BY <1>1, <1>2, PTL DEF F!Spec

\* Only the recovery makes Node-RED come up anew, and only once its file allows it.
LEMMA OnlyTheRecovery ==
  ASSUME F!Next, restarting', ~restarting
  PROVE  keptRestart >= Cooldown
<1>1. CASE \E d \in Device : F!DeviceFails(d) \/ F!DeviceReturns(d) \/ F!NodeGivesUp(d)
  BY <1>1 DEF F!DeviceFails, F!DeviceReturns, F!NodeGivesUp
<1>2. CASE F!Tick \/ F!Reboot
  BY <1>2 DEF F!Tick, F!Reboot
<1>3. CASE F!IngestRestarts
  BY <1>3 DEF F!IngestRestarts, F!fleet
<1>4. CASE F!Check
  <2>1. CASE F!NoRestart \/ F!RestartRefused \/ F!CheckFails
    BY <2>1 DEF F!NoRestart, F!RestartRefused, F!CheckFails, F!fleet
  <2>2. CASE F!RestartNodeRed
    BY <2>2 DEF F!RestartNodeRed, F!Decide
  <2> QED
    BY <1>4, <2>1, <2>2 DEF F!Check
<1> QED
  BY <1>1, <1>2, <1>3, <1>4 DEF F!Next

\* "acts at most once an hour", over reboots and refused restarts, for any cooldown:
\* the only exception is a restart its file does not say.
THEOREM SpacedRestarts == AnySpec => RestartsSpaced
<1>1. FileTrue /\ [F!Next]_F!fleetwatch_vars
        => [restarting' /\ ~restarting => restarted >= Cooldown \/ unwritten]_F!fleetwatch_vars
  <2> SUFFICES ASSUME FileTrue, [F!Next]_F!fleetwatch_vars, restarting', ~restarting, ~unwritten,
                      F!fleetwatch_vars' # F!fleetwatch_vars
               PROVE  restarted >= Cooldown
    OBVIOUS
  <2> QED
    BY OnlyTheRecovery DEF FileTrue
<1>2. F!Spec => F!RestartsSpaced
  BY <1>1, FileTrueAlways, PTL DEF F!Spec, F!RestartsSpaced
<1> QED
  BY <1>2, OfFleet DEF RestartsSpaced


\* The limits and counts the types speak of.
LEMMA OlderStays ==
  ASSUME NEW limit \in Nat, NEW age \in 0..limit
  PROVE  F!Older(age, limit) \in 0..limit
BY DEF F!Older, F!Least

LEMMA NoneCounted == ASSUME Sizes PROVE 0 \in 0..Cardinality(Device)
<1>1. Cardinality(Device) \in Nat
  BY FS_CardinalityType DEF Sizes
<1> QED
  BY <1>1

LEMMA DownCounted == ASSUME Sizes, F!TypeOK PROVE Cardinality(F!Down) \in 0..Cardinality(Device)
<1>1. F!Down \subseteq Device
  BY DEF F!TypeOK, F!Down
<1>2. Cardinality(F!Down) <= Cardinality(Device) /\ IsFiniteSet(F!Down)
  BY <1>1, FS_Subset DEF Sizes
<1> QED
  BY <1>2, FS_CardinalityType DEF Sizes

LEMMA FaultTyped == ASSUME Sizes, F!TypeOK, F!Fault \/ UNCHANGED faults PROVE faults' \in 0..MaxFaults
BY DEF Sizes, F!TypeOK, F!Fault

\* What the alarm writes at a minute it can see.
AlarmTyped ==
  /\ alarming \in BOOLEAN /\ streak \in 0..(EnterAfter + LeaveAfter)
  /\ notified \in 0..Cardinality(Device) /\ quiet \in 0..Remind /\ notice \in {"stuck", "recovered"}
  /\ faults \in 0..MaxFaults

LEMMA NoticeTyped ==
  ASSUME Sizes, F!TypeOK, F!NoNotice \/ \E word \in {"stuck", "recovered"} : F!Notice(word)
  PROVE  /\ notified' \in 0..Cardinality(Device) /\ quiet' \in 0..Remind
         /\ notice' \in {"stuck", "recovered"} /\ faults' \in 0..MaxFaults
<1>1. CASE F!NoNotice
  BY <1>1, OlderStays, SameCount DEF F!NoNotice, F!TypeOK, Sizes
<1>2. CASE \E word \in {"stuck", "recovered"} : F!Notice(word)
  BY <1>2, DownCounted, FaultTyped, SameCount DEF F!Notice, F!TypeOK, Sizes
<1> QED
  BY <1>1, <1>2

LEMMA ObserveTyped == ASSUME Sizes, F!TypeOK, F!Observe PROVE AlarmTyped'
<1>1. CASE F!Changes
  <2>1. F!NoNotice \/ \E word \in {"stuck", "recovered"} : F!Notice(word)
    BY <1>1 DEF F!Changes
  <2>2. alarming' \in BOOLEAN
    <3>1. F!Many \in BOOLEAN
      BY DownCounted DEF F!Many, Sizes
    <3>2. alarming' = F!Many \/ alarming' = alarming
      BY <1>1 DEF F!Changes
    <3> QED
      BY <3>1, <3>2 DEF F!TypeOK
  <2>3. streak' = 0 \/ (streak' = streak + 1 /\ streak + 1 < IF alarming THEN LeaveAfter ELSE EnterAfter)
    <3>1. streak' = 0 \/ (streak' = streak + 1 /\ ~F!Settled)
      BY <1>1 DEF F!Changes
    <3>2. ~F!Settled => streak + 1 < IF alarming THEN LeaveAfter ELSE EnterAfter
      BY DEF F!Settled, Sizes, F!TypeOK
    <3> QED
      BY <3>1, <3>2
  <2>4. streak' \in 0..(EnterAfter + LeaveAfter)
    <3>1. EnterAfter \in Nat /\ LeaveAfter \in Nat /\ streak \in Nat
      BY DEF Sizes, F!TypeOK
    <3> QED
      BY <2>3, <3>1
  <2> QED
    BY <2>1, <2>2, <2>4, NoticeTyped DEF AlarmTyped
<1>2. CASE F!Stays
  <2>1. F!NoNotice \/ \E word \in {"stuck", "recovered"} : F!Notice(word)
    BY <1>2 DEF F!Stays
  <2>2. alarming' \in BOOLEAN /\ streak' \in 0..(EnterAfter + LeaveAfter)
    BY <1>2 DEF F!Stays, F!TypeOK, Sizes
  <2> QED
    BY <2>1, <2>2, NoticeTyped DEF AlarmTyped
<1> QED
  BY <1>1, <1>2 DEF F!Observe

\* Each step keeps the types.
LEMMA TickTyped == ASSUME Sizes, F!TypeOK, F!Tick PROVE F!TypeOK'
<1>1. /\ nextCheck' \in 0..(CheckEvery + FirstCheck) /\ keptRestart' \in 0..Cooldown
      /\ restarted' \in 0..Cooldown /\ booted' \in 0..Grace
  BY OlderStays DEF F!Tick, F!TypeOK, Sizes
<1>2. /\ session' \subseteq reachable' /\ reachable' \subseteq Device /\ restarting' = FALSE
      /\ streaks' = streaks /\ unwritten' = unwritten
  BY DEF F!Tick, F!TypeOK
<1>3. CASE F!Observe
  <2>1. everOnline' = everOnline \cup session /\ history' = history \cup session /\ unseeded' = unseeded
    BY <1>3 DEF F!Observe
  <2> QED
    BY <1>1, <1>2, <1>3, <2>1, ObserveTyped, SameCount DEF F!TypeOK, AlarmTyped
<1>4. CASE F!BridgeSilent
  <2>1. quiet' \in 0..Remind /\ faults' \in 0..MaxFaults
    BY <1>4, OlderStays, FaultTyped DEF F!BridgeSilent, F!TypeOK, Sizes
  <2> QED
    BY <1>1, <1>2, <1>4, <2>1 DEF F!BridgeSilent, F!TypeOK
<1> QED
  BY <1>3, <1>4 DEF F!Tick

LEMMA CheckTyped == ASSUME Sizes, F!TypeOK, F!Check PROVE F!TypeOK'
<1>1. nextCheck' \in 0..(CheckEvery + FirstCheck)
  BY DEF F!Check, Sizes
<1>2. F!Streaks \in [Device -> 0..F!StreakToRestart]
  BY DEF F!Streaks, F!StreakToRestart, F!Least, F!TypeOK
<1>3. faults' \in 0..MaxFaults
  <2>1. F!Fault \/ UNCHANGED faults
    BY DEF F!Check, F!NoRestart, F!RestartNodeRed, F!RestartRefused, F!CheckFails
  <2> QED
    BY <2>1, FaultTyped
<1>4. CASE F!NoRestart \/ F!RestartRefused \/ F!CheckFails
  BY <1>1, <1>2, <1>3, <1>4 DEF F!Check, F!NoRestart, F!RestartRefused, F!CheckFails, F!alarm, F!fleet, F!TypeOK
<1>5. CASE F!RestartNodeRed
  <2>1. /\ streaks' \in [Device -> 0..F!StreakToRestart] /\ keptRestart' \in 0..Cooldown
        /\ restarted' \in 0..Cooldown /\ unwritten' \in BOOLEAN
    <3>1. [d \in Device |-> 0] \in [Device -> 0..F!StreakToRestart] /\ 0 \in 0..Cooldown
      BY DEF F!StreakToRestart, Sizes
    <3>2. streaks \in [Device -> 0..F!StreakToRestart] /\ keptRestart \in 0..Cooldown
      BY DEF F!TypeOK
    <3> QED
      BY <1>5, <3>1, <3>2 DEF F!RestartNodeRed
  <2>2. session' = {} /\ restarting' = TRUE /\ UNCHANGED <<reachable, history, F!alarm, booted>>
    BY <1>5 DEF F!Check, F!RestartNodeRed
  <2> QED
    BY <1>1, <1>3, <2>1, <2>2 DEF F!alarm, F!TypeOK
<1> QED
  BY <1>4, <1>5 DEF F!Check

LEMMA FleetTypeStep == ASSUME Sizes, F!TypeOK, F!Next PROVE F!TypeOK'
<1>1. CASE \E d \in Device : F!DeviceFails(d) \/ F!DeviceReturns(d) \/ F!NodeGivesUp(d)
  <2>1. faults' \in 0..MaxFaults
    BY <1>1, FaultTyped DEF F!DeviceFails, F!DeviceReturns, F!NodeGivesUp
  <2>2. /\ session' \subseteq reachable' /\ reachable' \subseteq Device
        /\ UNCHANGED <<restarting, history, F!alarm, F!recovery>>
    BY <1>1 DEF F!DeviceFails, F!DeviceReturns, F!NodeGivesUp, F!TypeOK
  <2> QED
    BY <2>1, <2>2 DEF F!alarm, F!recovery, F!TypeOK
<1>2. CASE F!IngestRestarts
  <2>1. faults' \in 0..MaxFaults
    BY <1>2, FaultTyped DEF F!IngestRestarts
  <2>2. /\ everOnline' \subseteq history /\ unseeded' \in BOOLEAN /\ history' = history
        /\ alarming' = FALSE /\ streak' = 0 /\ notified' = 0 /\ quiet' = 0 /\ notice' = notice
    BY <1>2 DEF F!IngestRestarts, F!fleet
  <2>3. 0 \in 0..(EnterAfter + LeaveAfter) /\ 0 \in 0..Remind /\ 0 \in 0..Grace
    BY DEF Sizes
  <2> QED
    BY <1>2, <2>1, <2>2, <2>3, NoneCounted, SameCount DEF F!IngestRestarts, F!fleet, F!recovery, F!TypeOK
<1>3. CASE F!Reboot
  <2>1. faults' \in 0..MaxFaults
    BY <1>3, FaultTyped DEF F!Reboot
  <2>2. /\ everOnline' \subseteq history /\ unseeded' \in BOOLEAN /\ history' = history
        /\ alarming' = FALSE /\ streak' = 0 /\ notified' = 0 /\ quiet' = 0 /\ notice' = notice
    BY <1>3 DEF F!Reboot, F!fleet
  <2>3. 0 \in 0..(EnterAfter + LeaveAfter) /\ 0 \in 0..Remind /\ 0 \in 0..Grace
    BY DEF Sizes
  <2>4. FirstCheck \in 0..(CheckEvery + FirstCheck)
    BY DEF Sizes
  <2> QED
    BY <1>3, <2>1, <2>2, <2>3, <2>4, NoneCounted, SameCount DEF F!Reboot, F!TypeOK
<1> QED
  BY <1>1, <1>2, <1>3, TickTyped, CheckTyped DEF F!Next

\* The alarm and the recovery keep their types, for any limits and number of faults: in
\* particular a streak never outgrows its limit, and a session is of a device that answers.
THEOREM FleetTypeCorrect == AnySpec => []F!TypeOK
<1> USE DaemonsAssumption
<1>1. F!Init => F!TypeOK
  <2> SUFFICES ASSUME F!Init PROVE F!TypeOK
    OBVIOUS
  <2>1. [d \in Device |-> 0] \in [Device -> 0..F!StreakToRestart]
    BY DEF F!StreakToRestart
  <2>2. /\ 0 \in 0..(EnterAfter + LeaveAfter) /\ 0 \in 0..Remind /\ Grace \in 0..Grace
        /\ Cooldown \in 0..Cooldown /\ CheckEvery \in 0..(CheckEvery + FirstCheck) /\ 0 \in 0..MaxFaults
    BY DEF Sizes
  <2> QED
    BY <2>1, <2>2, NoneCounted, SameCount DEF F!Init, F!TypeOK
<1>2. F!TypeOK /\ [F!Next]_F!fleetwatch_vars => F!TypeOK'
  <2> SUFFICES ASSUME F!TypeOK, [F!Next]_F!fleetwatch_vars PROVE F!TypeOK'
    OBVIOUS
  <2>1. CASE UNCHANGED F!fleetwatch_vars
    BY <2>1 DEF F!fleetwatch_vars, F!fleet, F!alarm, F!recovery, F!TypeOK
  <2> QED
    BY <2>1, FleetTypeStep
<1> QED
  BY <1>1, <1>2, OfFleet, PTL DEF F!Spec
=============================================================================
