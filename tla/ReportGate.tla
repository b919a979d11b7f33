----------------------------- MODULE ReportGate -----------------------------
(***************************************************************************)
(* Day reports and the rows they are made of (reportPass and noteLate in   *)
(* ingest.mjs, reports.mjs, lateData.mjs): a day is reported an hour after *)
(* it ended, not before the edge has sent its rows, and again when rows of *)
(* it came late.  Weeks and months differ in length and grace only.        *)
(*                                                                         *)
(* A row is its minute: every tick has readings and totals.  Of the totals *)
(* only what is still owed matters here; the anomalies, a third stream of  *)
(* some of the minutes, are like them.  A tick whose archive fails, or     *)
(* that has none, sends its rows itself, or leaves them in the buffer,     *)
(* which the gate does not look at.                                        *)
(***************************************************************************)
EXTENDS Integers, Sequences, FiniteSets

CONSTANTS
  DayLen,       \* minutes of a day
  Grace,        \* DAY_GRACE_HOURS and LATE_AFTER_MS, an hour each
  MaxNow,       \* bound: time
  MaxTrouble    \* bound: refused ticks, failed requests and writes, refusing tables,
                \* archives that do not answer, and restarts, together

Days == 0..(MaxNow \div DayLen)
RowsOf(d) == (d * DayLen)..(d * DayLen + DayLen - 1)
End(d) == (d + 1) * DayLen
SettledAt(d) == End(d) + Grace

VARIABLES
  now,          \* the minute
  ticked,       \* this minute has been taken
  ids,          \* the archive's rows in the order they were archived
  through,      \* upload cursor of the readings: how many of them are behind it
  throughTotals,  \* ... of the totals
  buffer,       \* rows in the outage buffer, oldest first
  torn,         \* rows a stop in the middle of rewriting it took out of it (history)
  open,         \* this life of ingest has an archive
  wedged,       \* streams whose table refuses every row
  aside,        \* readings the table refused alone: set aside behind the cursor
  cloud,        \* readings in the database
  drain,        \* minutes this drain has moved the cursors over so far; its end notes them
  draining,
  late,         \* the late-data record: [from, until, before], before: the days reported
                \* before its arrivedAt
  lateKept,     \* ... as it is in its file
  report,       \* day -> what its report was made from: [at, rows], or NoReport
  todo,         \* days the running pass has still to build
  gated,        \* ... and whether it could ask the archive what is owed
  unnoted,      \* rows that reached the cloud without being noted (history)
  trouble

edge == <<now, ticked, ids, through, buffer, torn>>
streams == <<open, throughTotals, wedged, aside>>
lateVars == <<late, lateKept, unnoted>>
reportgate_vars == <<edge, streams, cloud, drain, draining, lateVars, report, todo, gated, trouble>>

NoLate == [from |-> MaxNow + 1, until |-> -1, before |-> {}]
NoReport == [at |-> -1, rows |-> {}]

NothingOwed == MaxNow + 1
Stream == {"readings", "totals"}

Trouble == trouble < MaxTrouble /\ trouble' = trouble + 1
Archived == {ids[i] : i \in DOMAIN ids}
Buffered == {buffer[i] : i \in DOMAIN buffer}
Owed == {ids[i] : i \in (through + 1)..Len(ids)}
Least(S) == CHOOSE m \in S : \A n \in S : m <= n
Greatest(S) == CHOOSE m \in S : \A n \in S : n <= m

-----------------------------------------------------------------------------
(***************************************************************************)
(* Rows on their way.                                                      *)
(***************************************************************************)
MinutePasses ==
  /\ ticked /\ now < MaxNow /\ now' = now + 1 /\ ticked' = FALSE
  /\ UNCHANGED <<ids, through, buffer, torn, streams, cloud, drain, draining, lateVars, report, todo, gated, trouble>>

TickArchives ==
  /\ open /\ ~ticked /\ ticked' = TRUE /\ ids' = Append(ids, now)
  /\ UNCHANGED <<now, through, buffer, torn, streams, cloud, drain, draining, lateVars, report, todo, gated, trouble>>

\* runIngestCycle: there is no archive, or it refuses the tick. What is buffered goes up
\* first, then this row; what the database refuses is buffered.
TickDirect ==
  /\ ~ticked /\ ticked' = TRUE
  /\ IF open THEN Trouble ELSE UNCHANGED trouble
  /\ \E n \in 0..(Len(buffer) + 1) :
       LET all == Append(buffer, now) IN
       /\ cloud' = cloud \cup {all[i] : i \in 1..n}
       /\ buffer' = SubSeq(all, n + 1, Len(all))
       /\ unnoted' = unnoted \cup {all[i] : i \in 1..n}
  /\ UNCHANGED <<now, ids, through, torn, streams, drain, draining, late, lateKept, report, todo, gated>>

Rows(n, m) == {ids[i] : i \in (n + 1)..m}
\* The cursor of a stream after a batch of n, or where a refusing table holds it.
Upto(s, cursor, n) == IF s \in wedged THEN cursor ELSE Least({cursor + n, Len(ids)})

\* Batches are taken. uploadedSpan covers what the cursors moved over.
Taken(r, t) ==
  /\ r > through \/ t > throughTotals
  /\ cloud' = cloud \cup Rows(through, r) /\ drain' = drain \cup Rows(through, r) \cup Rows(throughTotals, t)
  /\ through' = r /\ throughTotals' = t
  /\ UNCHANGED <<aside, trouble>>

\* Some of the readings are, and the answer is lost, or the others are set aside: the
\* cursor and the span cover them too.
TakenInPart(r) ==
  /\ Trouble /\ UNCHANGED throughTotals
  /\ \E some \in SUBSET Rows(through, r) \ {{}} :
       /\ cloud' = cloud \cup some
       /\ \/ UNCHANGED <<through, drain, aside>>
          \/ through' = r /\ drain' = drain \cup Rows(through, r) /\ aside' = aside \cup (Rows(through, r) \ some)

\* drainArchive: batches from the cursors on, oldest first, of every stream in one request;
\* when that is refused, stream by stream, and a table that refuses everything holds its own.
Send ==
  /\ open /\ draining' = TRUE
  /\ \E n \in 1..Len(ids) :
       LET r == Upto("readings", through, n)
           t == Upto("totals", throughTotals, n) IN
       Taken(r, t) \/ TakenInPart(r)
  /\ UNCHANGED <<now, ticked, ids, buffer, torn, open, wedged, lateVars, report, todo, gated>>

\* A table begins to refuse every row (a migration is missing), or takes them again.
Wedge(s) ==
  /\ s \notin wedged /\ Trouble /\ wedged' = wedged \cup {s}
  /\ UNCHANGED <<edge, open, throughTotals, aside, cloud, drain, draining, lateVars, report, todo, gated>>
Unwedge(s) ==
  /\ s \in wedged /\ wedged' = wedged \ {s}
  /\ UNCHANGED <<edge, open, throughTotals, aside, cloud, drain, draining, lateVars, report, todo, gated, trouble>>

\* Mutant: only a drain that sent nothing but old rows is late.
LateIfAllOld(span) == span # {} /\ now - Greatest(span) > Grace
\* noteLateUpload: a row older than an hour may already be reported.
IsLate(span) == span # {} /\ now - Least(span) > Grace

Widened(span) ==
  LET until == Greatest({Least({Greatest(span), now - Grace}), Least(span)}) IN
  [from |-> Least({late.from, Least(span)}), until |-> Greatest({late.until, until}),
   before |-> {d \in Days : report[d] # NoReport}]

\* noteLate, at the end of the drain; the file may not be written.
NoteLate ==
  /\ draining /\ draining' = FALSE /\ drain' = {}
  /\ IF IsLate(drain)
     THEN /\ late' = Widened(drain)
          /\ \/ lateKept' = late' /\ UNCHANGED trouble
             \/ UNCHANGED lateKept /\ Trouble
     ELSE UNCHANGED <<late, lateKept, trouble>>
  /\ UNCHANGED <<edge, streams, cloud, unnoted, report, todo, gated>>

-----------------------------------------------------------------------------
(***************************************************************************)
(* The report pass.                                                        *)
(***************************************************************************)
From(n) == IF n = Len(ids) THEN NothingOwed ELSE ids[n + 1]
\* Mutant: the newest over the streams, the comparison turned round.
OwedLast == Greatest({From(through), From(throughTotals)})
\* Mutant: the gate forgets the cursor of the readings.
OwedFirst == Least({From(0), From(throughTotals)})
\* owedSince: the first owed row by id, the oldest over the streams.
OwedSince == Least({From(through), From(throughTotals)})

BuiltBeforeLate(d) == d \in late.before /\ late.from < End(d) /\ late.until >= d * DayLen

\* daysNeedingReport: days in order, up to the first that has not settled or waits
\* for the edge; those without a report or with one made too early.
Needing(since) ==
  {d \in Days :
     /\ \E r \in cloud : r < End(d)
     /\ SettledAt(d) <= now /\ End(d) <= since
     /\ report[d] = NoReport \/ report[d].at < SettledAt(d) \/ BuiltBeforeLate(d)}

\* What the pass knows of the gate and the late rows is of its start. Without an archive,
\* or without an answer of it, there is no gate.
StartPass ==
  /\ todo = {}
  /\ \/ open /\ gated' = TRUE /\ todo' = Needing(OwedSince) /\ UNCHANGED trouble
     \/ ~open /\ gated' = FALSE /\ todo' = Needing(NothingOwed) /\ UNCHANGED trouble
     \/ open /\ gated' = FALSE /\ todo' = Needing(NothingOwed) /\ Trouble
  /\ todo' # {}
  /\ UNCHANGED <<edge, streams, cloud, drain, draining, lateVars, report>>

Rebuilt(record, d) == [record EXCEPT !.before = @ \ {d}]

\* generate_period_report, oldest day first; a failed one is left to another pass.
Generate(d) ==
  /\ d \in todo /\ d = Least(todo) /\ todo' = todo \ {d} /\ gated' = (gated \/ todo' = {})
  /\ \/ /\ report' = [report EXCEPT ![d] = [at |-> now, rows |-> cloud \cap RowsOf(d)]]
        /\ late' = Rebuilt(late, d) /\ lateKept' = Rebuilt(lateKept, d) /\ UNCHANGED trouble
     \/ Trouble /\ UNCHANGED <<report, late, lateKept>>
  /\ UNCHANGED <<edge, streams, cloud, drain, draining, unnoted>>

-----------------------------------------------------------------------------
\* What a stop leaves of the buffer: all of it, or nothing, when flushBuffer had sent some
\* rows and was writing the others back in place.
Leftovers == IF ticked THEN {buffer} ELSE {buffer, <<>>}

\* importBufferEntries: what is not there yet, behind all that is.
New(left) == {i \in DOMAIN left : \A j \in DOMAIN ids : ids[j] # left[i]}
Nth(left, k) == CHOOSE i \in New(left) : Cardinality({j \in New(left) : j <= i}) = k
Imported(left) == ids \o [k \in 1..Cardinality(New(left)) |-> left[Nth(left, k)]]

\* openArchiveOrFallBack: with an archive, what the buffer holds becomes owed.
Restart ==
  /\ Trouble /\ open' \in BOOLEAN
  /\ \E n \in 0..(IF ticked THEN 0 ELSE Len(buffer)), left \in Leftovers :
       LET sent == {buffer[i] : i \in 1..n} IN
       /\ cloud' = cloud \cup sent
       /\ torn' = torn \cup (Buffered \ (sent \cup {left[i] : i \in DOMAIN left}))
       /\ IF open'
          THEN ids' = Imported(left) /\ buffer' = <<>>
          ELSE buffer' = left /\ UNCHANGED ids
       /\ unnoted' = unnoted \cup drain \cup sent \cup (IF late # lateKept THEN cloud ELSE {})
  /\ late' = lateKept
  /\ drain' = {} /\ draining' = FALSE /\ todo' = {} /\ gated' = TRUE
  /\ UNCHANGED <<now, ticked, through, throughTotals, wedged, aside, lateKept, report>>

Init ==
  /\ now = 0 /\ ticked = FALSE /\ ids = <<>> /\ through = 0 /\ buffer = <<>> /\ torn = {}
  /\ open \in BOOLEAN /\ throughTotals = 0 /\ wedged = {} /\ aside = {}
  /\ cloud = {} /\ drain = {} /\ draining = FALSE
  /\ late = NoLate /\ lateKept = NoLate /\ unnoted = {}
  /\ report = [d \in Days |-> NoReport] /\ todo = {} /\ gated = TRUE /\ trouble = 0

Tick == TickArchives \/ TickDirect
Build == \E d \in Days : Generate(d)

Next ==
  \/ MinutePasses \/ Tick \/ Send \/ NoteLate \/ StartPass \/ Build \/ Restart
  \/ \E s \in Stream : Wedge(s) \/ Unwedge(s)

Spec == Init /\ [][Next]_reportgate_vars

\* Ticks come, the link works again, drains end and passes are made.
Fairness ==
  /\ WF_reportgate_vars(Tick) /\ WF_reportgate_vars(Send) /\ WF_reportgate_vars(NoteLate)
  /\ WF_reportgate_vars(StartPass) /\ WF_reportgate_vars(Build) /\ WF_reportgate_vars(MinutePasses)

FairSpec == Spec /\ Fairness
-----------------------------------------------------------------------------
\* Archived behind a newer row.
OutOfOrder == {ids[j] : j \in {j \in DOMAIN ids : \E i \in 1..j : ids[i] > ids[j]}}

\* A day is not reported before all its rows are up, whatever was sent, lost, sent
\* again or archived meanwhile, by a pass that could ask the archive. Four kinds of rows
\* slip through: buffered around the archive, lost from a buffer that was being rewritten,
\* archived behind a newer row, and set aside, which the cursor passes though the cloud
\* never has them.
MadeWhole ==
  [][\A d \in Days : gated /\ report'[d] # report[d] =>
       (RowsOf(d) \cap 0..now) \ cloud \subseteq Buffered \cup torn \cup OutOfOrder \cup aside]_reportgate_vars

\* A report that lacks a row the cloud has is built again, unless nobody noted the row:
\* it went around the archive, or a crash came between the upload and the note.
StaleIsRebuilt ==
  \A d \in Days : report[d] # NoReport =>
    \A r \in (cloud \cap RowsOf(d)) \ report[d].rows :
      r \in drain \cup Owed \cup unnoted \/ BuiltBeforeLate(d) \/ report[d].at < SettledAt(d)

\* Every day that has settled since the first row is reported in the end, unless some
\* stream is wedged again and again or for good: its oldest row holds every report back.
Reported ==
  <>[](wedged = {}) =>
    <>[](\A d \in Days : SettledAt(d) <= now /\ (\E r \in cloud : r < End(d)) => report[d] # NoReport)
=============================================================================
