----------------------------- MODULE ClockShift -----------------------------
(***************************************************************************)
(* Re-timing the minutes logged against a wrong clock (noteClock in        *)
(* ingest.mjs, clockWatch.mjs, shiftTimes in archiveDb.mjs).  The Pi has   *)
(* no clock of its own: after a power cut it goes on from a saved time,    *)
(* and the clock steps when the internet is back.  Ingest sees the step at *)
(* its next tick and moves the rows it has archived since its start.       *)
(*                                                                         *)
(* The archive is the readings of one device, stamped by the bridge when   *)
(* the device reports; a tick archives the last report, again if it is     *)
(* still the last.  `at` is the time it was, which no program knows.       *)
(***************************************************************************)
EXTENDS Integers, Sequences, FiniteSets

CONSTANTS
  Behind, Ahead,  \* how far the clock may be off after a power cut
  MaxNow,       \* bound: time
  MaxRows,      \* bound: rows ticks archive
  MaxLives,     \* bound: starts of ingest
  MaxTrouble    \* bound: re-timings that fail

Errors == {-Behind, Ahead}

VARIABLES
  now,          \* the time it is
  off,          \* the clock shows now + off
  reading,      \* what the bridge has of the device
  rows,         \* the archive, by id: [at, ts, origin], and of its insertion whether the
                \* stamp was right and the clock unsynchronised (history)
  cursor,       \* rows the cloud has
  buffer,       \* rows in the outage buffer
  running,
  last,         \* the error at the last tick: what the next compares with
  clockUnsyncedAtStart,
  clockMarkIds,
  ticking,      \* a tick has noted the clock and not yet archived
  measured,     \* the rows of this life have been moved (history)
  uploaded,     \* ... and which of them the cloud had by then (history)
  lives, trouble

clock_vars == <<now, off, reading, rows, cursor, buffer, running, last, clockUnsyncedAtStart,
  clockMarkIds, ticking, measured, uploaded, lives, trouble>>

NotObserved == [error |-> 0, seen |-> FALSE]
Observed(e) == [error |-> e, seen |-> TRUE]

\* From before the power cut, a row in the archive and perhaps one in the buffer.
Init ==
  /\ now = 0 /\ off \in Errors
  /\ rows = <<[at |-> -9, ts |-> -9, origin |-> "ingest", right |-> TRUE, unsynced |-> FALSE]>>
  /\ cursor \in 0..1 /\ buffer \in {<<>>, <<[at |-> -8, ts |-> -8]>>}
  /\ reading = [at |-> 0, ts |-> off]
  /\ running = FALSE /\ last = NotObserved /\ clockUnsyncedAtStart = FALSE /\ clockMarkIds = 0
  /\ ticking = FALSE /\ measured = FALSE /\ uploaded = 0 /\ lives = 0 /\ trouble = 0

-----------------------------------------------------------------------------
(***************************************************************************)
(* The archive.                                                            *)
(***************************************************************************)
Stamps == {rows[i].ts : i \in DOMAIN rows}

\* insertRows: a device has one row for a time; another one is ignored.
Inserted(r, origin, unsynced) ==
  IF r.ts \in Stamps THEN rows
  ELSE Append(rows, [at |-> r.at, ts |-> r.ts, origin |-> origin,
                     right |-> r.ts = r.at, unsynced |-> unsynced])

\* Mutant: every row the cloud lacks is of this life.
AfterCursor == cursor
\* The rows archived since the start.
AfterMark == clockMarkIds

\* shiftTimes: what the cloud has stays as it is.
Shifted(step) ==
  [i \in DOMAIN rows |->
     IF i > AfterMark /\ i > cursor THEN [rows[i] EXCEPT !.ts = @ + step] ELSE rows[i]]

\* A row may land on one that is not moved: then none is.
Lands(moved) == \A i, j \in DOMAIN moved : moved[i].ts = moved[j].ts => i = j

-----------------------------------------------------------------------------
(***************************************************************************)
(* Ingest.                                                                 *)
(***************************************************************************)
\* openArchiveOrFallBack: the mark is taken before the buffer is imported. Whether
\* the clock is synchronised may be unknown.
Start ==
  /\ ~running /\ lives < MaxLives /\ lives' = lives + 1 /\ running' = TRUE
  /\ clockMarkIds' = Len(rows)
  /\ clockUnsyncedAtStart' \in {off # 0, FALSE}
  /\ rows' = (IF buffer = <<>> THEN rows ELSE Inserted(buffer[1], "buffer", clockUnsyncedAtStart'))
  /\ buffer' = <<>>
  /\ UNCHANGED <<now, off, reading, cursor, last, ticking, measured, uploaded, trouble>>

\* noteClock: the step since the last tick, and once in a life the rows it moves.
NoteClock ==
  LET step == off - last.error IN
  /\ running /\ ~ticking /\ ticking' = TRUE /\ last' = Observed(off)
  /\ \/ (~last.seen \/ step = 0 \/ ~clockUnsyncedAtStart)
        /\ UNCHANGED <<rows, clockUnsyncedAtStart, measured, uploaded, trouble>>
     \/ /\ last.seen /\ step # 0 /\ clockUnsyncedAtStart /\ clockUnsyncedAtStart' = FALSE
        /\ \/ Lands(Shifted(step)) /\ rows' = Shifted(step) /\ measured' = TRUE
              /\ uploaded' = cursor /\ UNCHANGED trouble
           \/ ~Lands(Shifted(step)) /\ UNCHANGED <<rows, measured, uploaded, trouble>>
           \/ trouble < MaxTrouble /\ trouble' = trouble + 1 /\ UNCHANGED <<rows, measured, uploaded>>
  /\ UNCHANGED <<now, off, reading, cursor, buffer, running, clockMarkIds, lives>>

\* The rest of the tick: what the bridge has is archived.
Archive ==
  /\ running /\ ticking /\ ticking' = FALSE
  /\ Len(rows) <= MaxRows \/ reading.ts \in Stamps
  /\ rows' = Inserted(reading, "ingest", clockUnsyncedAtStart)
  /\ UNCHANGED <<now, off, reading, cursor, buffer, running, last, clockUnsyncedAtStart,
                 clockMarkIds, measured, uploaded, lives, trouble>>

Upload ==
  /\ running /\ cursor < Len(rows) /\ cursor' \in (cursor + 1)..Len(rows)
  /\ UNCHANGED <<now, off, reading, rows, buffer, running, last, clockUnsyncedAtStart,
                 clockMarkIds, ticking, measured, uploaded, lives, trouble>>

\* Ingest stops; with the power, the clock goes wrong, and what the bridge had is gone.
Stop ==
  /\ running /\ running' = FALSE /\ last' = NotObserved /\ ticking' = FALSE
  /\ measured' = FALSE /\ uploaded' = 0 /\ clockUnsyncedAtStart' = FALSE
  /\ \/ UNCHANGED <<off, reading>>
     \/ off' \in Errors /\ reading' = [at |-> now, ts |-> now + off']
  /\ UNCHANGED <<now, rows, cursor, buffer, clockMarkIds, lives, trouble>>

-----------------------------------------------------------------------------
(***************************************************************************)
(* The world.                                                              *)
(***************************************************************************)
TimePasses ==
  /\ now < MaxNow /\ now' = now + 1
  /\ UNCHANGED <<off, reading, rows, cursor, buffer, running, last, clockUnsyncedAtStart,
                 clockMarkIds, ticking, measured, uploaded, lives, trouble>>

DeviceReports ==
  /\ reading' = [at |-> now, ts |-> now + off]
  /\ UNCHANGED <<now, off, rows, cursor, buffer, running, last, clockUnsyncedAtStart,
                 clockMarkIds, ticking, measured, uploaded, lives, trouble>>

Synchronise ==
  /\ off # 0 /\ off' = 0
  /\ UNCHANGED <<now, reading, rows, cursor, buffer, running, last, clockUnsyncedAtStart,
                 clockMarkIds, ticking, measured, uploaded, lives, trouble>>

Next ==
  \/ Start \/ NoteClock \/ Archive \/ Upload \/ Stop
  \/ TimePasses \/ DeviceReports \/ Synchronise

Spec == Init /\ [][Next]_clock_vars

-----------------------------------------------------------------------------
TypeOK ==
  /\ now \in 0..MaxNow /\ off \in Errors \cup {0}
  /\ \A i \in DOMAIN rows : rows[i].at \in Int /\ rows[i].ts \in Int /\ rows[i].origin \in {"ingest", "buffer"}
  /\ cursor \in 0..Len(rows) /\ clockMarkIds \in 0..Len(rows) /\ uploaded \in 0..Len(rows)
  /\ running \in BOOLEAN /\ ticking \in BOOLEAN /\ measured \in BOOLEAN
  /\ clockUnsyncedAtStart \in BOOLEAN
  /\ lives \in 0..MaxLives /\ trouble \in 0..MaxTrouble

\* Once the step has been measured, every row bears the time it was, unless the cloud
\* had it by then, it came out of the buffer, an earlier life of ingest stamped it wrong,
\* or it was stamped on one side of the step and archived on the other side of its
\* measurement: such a row is moved though it was right, or left though it was wrong.
StampsTrue ==
  measured =>
    \A i \in DOMAIN rows :
      \/ rows[i].ts = rows[i].at
      \/ i <= uploaded \/ rows[i].origin = "buffer"
      \/ i <= clockMarkIds /\ ~rows[i].right
      \/ rows[i].right = rows[i].unsynced
=============================================================================
