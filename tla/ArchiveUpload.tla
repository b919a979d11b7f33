---------------------------- MODULE ArchiveUpload ----------------------------
(***************************************************************************)
(* drainArchive: how the rows the edge's archive owes the cloud get there. *)
(*                                                                         *)
(* Rows have archive ids, per stream, in the order they were committed,    *)
(* and a cursor in the archive says how far the cloud has them. A drain    *)
(* tries the streams together in one all-or-nothing request, and after a   *)
(* refusal stream by stream; a refused batch is halved down to the rows    *)
(* that are refused, which are set aside.                                  *)
(*                                                                         *)
(* Ticks are serial, so nothing is archived while a drain runs. Marking a  *)
(* device's minutes frozen (noteFreezes) is not awaited by the tick: it    *)
(* can run wherever the drain waits for an answer.                         *)
(***************************************************************************)
EXTENDS Naturals, Sequences, FiniteSets

CONSTANTS
  NStreams,        \* streams, numbered in STREAMS order; 1 is `readings`
  MaxRows,         \* bound: rows archived per stream
  RefusedRows,     \* <<stream, id>> of the rows the database refuses for good
  MinBatch, MaxBatch,  \* MIN_UPLOAD_BATCH and UPLOAD_BATCH
  TablesRefuse,    \* whether a whole table may start to refuse every row ...
  MidDrain,        \* ... even while a drain runs
  Broken,          \* the tables that refuse from the start
  BudgetRunsOut,   \* whether a drain may spend its time budget
  MaxFreezes,      \* bound: freezes marked
  MaxCrashes       \* bound: restarts of the ingest process

Stream == 1..NStreams
Id == 1..MaxRows
Readings == 1

ASSUME ParametersAssumption ==
  /\ NStreams \in Nat \ {0} /\ MaxRows \in Nat
  /\ RefusedRows \subseteq Stream \X Id
  /\ MinBatch \in Nat \ {0} /\ MaxBatch \in Nat /\ MinBatch <= MaxBatch
  /\ TablesRefuse \in BOOLEAN /\ MidDrain \in BOOLEAN /\ BudgetRunsOut \in BOOLEAN
  /\ Broken \subseteq Stream
  /\ MaxFreezes \in Nat /\ MaxCrashes \in Nat

VARIABLES
  archived,    \* newest archive id per stream
  cursor,      \* upload_cursor: everything up to here is with the cloud
  cloud,       \* <<stream, id>> of the rows in the cloud
  rejects,     \* upload_rejects: <<stream, id>> of the rows set aside
  refusing,    \* tables that refuse whatever they are sent
  phase,       \* where the drain is
  at,          \* the stream the drain is at
  upto,        \* last id of the batch read, per stream
  asked,       \* isolate: the last id answered for
  ends,        \* isolate: the ends of the segments still to ask about
  accepted,    \* isolate: rows accepted so far
  streak,      \* isolate: refusals in a row
  failed,      \* isolate: rows refused on their own
  erred,       \* the drain has an error to report
  batch,       \* uploadBatch: rows per stream in the next drain
  flagged,     \* readings the archive marks frozen
  read,        \* the flagged readings when the batch was read
  marked,      \* readings whose copy in the cloud carries the flag
  resend,      \* resendIds: readings to send again
  resending,   \* the readings being sent again
  overtaken,   \* history: flagged while an unflagged copy was on its way
  forgot,      \* history: to be sent again, and forgotten by a restart
  freezes, crashes

archive == <<archived, cursor, rejects>>
isolation == <<asked, ends, accepted, streak, failed>>
freezing == <<flagged, resend, resending, overtaken, forgot, freezes>>
vars == <<archived, cursor, cloud, rejects, refusing, phase, at, upto, asked,
          ends, accepted, streak, failed, erred, batch, flagged, read, marked,
          resend, resending, overtaken, forgot, freezes, crashes>>

Phase == {"idle", "all", "allSent", "advancing", "stream", "sent", "isolating",
          "settingAside", "resending"}

Least(a, b) == IF a < b THEN a ELSE b
RowsOf(s, lo, hi) == {<<s, i>> : i \in lo..hi}
ReadingIds(R) == {i \in Id : <<Readings, i>> \in R}

\* pending: the oldest rows above the cursor, at most a batch of them.
BatchEnd(s) == Least(archived[s], cursor[s] + batch)
Batch(s) == RowsOf(s, cursor[s] + 1, upto[s])
BatchOfAll == UNION {Batch(s) : s \in Stream}

Refusable(R, s) == s \in refusing \/ R \cap RefusedRows # {}

\* An upsert replaces the cloud's copy, and with it the flag it carries.
Stored(R) ==
  /\ cloud' = cloud \cup R
  /\ marked' = (marked \ ReadingIds(R)) \cup (ReadingIds(R) \cap read)

Init ==
  /\ archived = [s \in Stream |-> 0]
  /\ cursor = [s \in Stream |-> 0]
  /\ cloud = {} /\ rejects = {}
  /\ refusing = Broken
  /\ phase = "idle" /\ at = 1
  /\ upto = [s \in Stream |-> 0]
  /\ asked = 0 /\ ends = <<>> /\ accepted = 0 /\ streak = 0 /\ failed = {}
  /\ erred = FALSE /\ batch = MaxBatch
  /\ flagged = {} /\ read = {} /\ marked = {}
  /\ resend = {} /\ resending = {} /\ overtaken = {} /\ forgot = {}
  /\ freezes = 0 /\ crashes = 0

\* insertTick: one commit for the whole tick, before anything is sent.
Archive(T) ==
  /\ phase = "idle" /\ T # {}
  /\ \A s \in T : archived[s] < MaxRows
  /\ archived' = [s \in Stream |-> IF s \in T THEN archived[s] + 1 ELSE archived[s]]
  /\ UNCHANGED <<cursor, cloud, rejects, refusing, phase, at, upto, isolation,
                 erred, batch, read, marked, freezing, crashes>>

\* The tick's sync, when an upload is due: rows owed or not, it carries the health
\* row. ingest_upload may not be there (404, asked again an hour later): the drain
\* then starts with the streams.
Start ==
  /\ phase = "idle"
  /\ phase' \in {"all", "stream"}
  /\ at' = 1 /\ erred' = FALSE
  /\ UNCHANGED <<archive, cloud, refusing, upto, isolation, batch, read, marked,
                 freezing, crashes>>

(***************************************************************************)
(* Every stream in one request.                                            *)
(***************************************************************************)
AskAll ==
  /\ phase = "all"
  /\ IF \E s \in Stream : cursor[s] < archived[s]
       THEN /\ phase' = "allSent"
            /\ upto' = [s \in Stream |-> BatchEnd(s)]
            /\ read' = flagged
       ELSE phase' = "stream" /\ UNCHANGED <<upto, read>>
  /\ at' = 1
  /\ UNCHANGED <<archive, cloud, refusing, isolation, erred, batch, marked,
                 freezing, crashes>>

AllStored ==
  /\ phase = "allSent"
  /\ \A s \in Stream : Batch(s) # {} => ~Refusable(Batch(s), s)
  /\ Stored(BatchOfAll)
  /\ phase' = "advancing" /\ at' = 1
  /\ UNCHANGED <<archive, refusing, upto, isolation, erred, batch, read,
                 freezing, crashes>>

\* The cursors move, one transaction per stream.
Advance ==
  /\ phase = "advancing"
  /\ cursor' = [cursor EXCEPT ![at] = upto[at]]
  /\ IF at = NStreams THEN phase' = "all" /\ at' = 1 ELSE phase' = phase /\ at' = at + 1
  /\ UNCHANGED <<archived, cloud, rejects, refusing, upto, isolation, erred,
                 batch, read, marked, freezing, crashes>>

\* Mutant: the cursors move whatever the answer was.
AllRefusedMoved ==
  /\ phase = "allSent"
  /\ phase' = "advancing" /\ at' = 1
  /\ UNCHANGED <<archive, cloud, refusing, upto, isolation, erred, batch, read,
                 marked, freezing, crashes>>

\* Refused, for a row or for the call itself (no such function, the health row):
\* nothing moved, and the streams are tried one by one.
AllRefused ==
  /\ phase = "allSent"
  /\ phase' = "stream" /\ at' = 1
  /\ UNCHANGED <<archive, cloud, refusing, upto, isolation, erred, batch, read,
                 marked, freezing, crashes>>

(***************************************************************************)
(* Stream by stream.                                                       *)
(***************************************************************************)
AskStream ==
  /\ phase = "stream" /\ at <= NStreams
  /\ IF cursor[at] < archived[at]
       THEN /\ phase' = "sent" /\ at' = at
            /\ upto' = [upto EXCEPT ![at] = BatchEnd(at)]
            /\ read' = flagged
       ELSE phase' = phase /\ at' = at + 1 /\ UNCHANGED <<upto, read>>
  /\ UNCHANGED <<archive, cloud, refusing, isolation, erred, batch, marked,
                 freezing, crashes>>

StreamStored ==
  /\ phase = "sent" /\ ~Refusable(Batch(at), at)
  /\ Stored(Batch(at))
  /\ cursor' = [cursor EXCEPT ![at] = upto[at]]
  /\ phase' = "stream"
  /\ UNCHANGED <<archived, rejects, refusing, at, upto, isolation, erred, batch,
                 read, freezing, crashes>>

\* Mutant: a refused batch is left for the next drain, never halved.
StreamRefusedLeft ==
  /\ phase = "sent" /\ Refusable(Batch(at), at)
  /\ phase' = "stream" /\ at' = at + 1 /\ erred' = TRUE
  /\ UNCHANGED <<archive, cloud, refusing, upto, isolation, batch, read, marked,
                 freezing, crashes>>

\* A refusal of the batch: isolate asks again, first for the batch as a whole.
StreamRefused ==
  /\ phase = "sent" /\ Refusable(Batch(at), at)
  /\ phase' = "isolating"
  /\ asked' = cursor[at] /\ ends' = <<upto[at]>>
  /\ accepted' = 0 /\ streak' = 0 /\ failed' = {}
  /\ UNCHANGED <<archive, cloud, refusing, at, upto, erred, batch, read, marked,
                 freezing, crashes>>

(***************************************************************************)
(* isolate: depth-first halving. What is left to ask about is the rows     *)
(* after `asked`, cut at `ends`.                                           *)
(***************************************************************************)
Asking == phase = "isolating" /\ ends # <<>>
Segment == RowsOf(at, asked + 1, ends[1])
SegmentSize == ends[1] - asked
BatchSize == upto[at] - cursor[at]

\* Math.ceil(Math.log2(n)).
CeilLog2(n) == CHOOSE k \in 0..n : 2 ^ k >= n /\ \A j \in 0..n : j < k => 2 ^ j < n

SegmentStored ==
  /\ Asking /\ ~Refusable(Segment, at)
  /\ Stored(Segment)
  /\ accepted' = accepted + SegmentSize /\ streak' = 0
  /\ asked' = ends[1] /\ ends' = Tail(ends)
  /\ UNCHANGED <<archive, refusing, phase, at, upto, failed, erred, batch, read,
                 freezing, crashes>>

\* Refusals in a row with nothing accepted, more than it takes to come down to a
\* single row: the table is blamed, not the rows.
Hopeless == accepted = 0 /\ streak + 1 > CeilLog2(BatchSize) + 1

SegmentHalved ==
  /\ Asking /\ Refusable(Segment, at) /\ ~Hopeless
  /\ streak' = streak + 1
  /\ IF SegmentSize = 1
       THEN /\ failed' = failed \cup {ends[1]}
            /\ asked' = ends[1] /\ ends' = Tail(ends)
       ELSE /\ ends' = <<asked + ((SegmentSize + 1) \div 2)>> \o ends
            /\ UNCHANGED <<failed, asked>>
  /\ UNCHANGED <<archive, cloud, refusing, phase, at, upto, accepted, erred,
                 batch, read, marked, freezing, crashes>>

NextStream ==
  /\ phase' = "stream" /\ at' = at + 1 /\ erred' = TRUE
  /\ UNCHANGED <<archive, cloud, refusing, upto, isolation, batch, read, marked,
                 freezing, crashes>>

TableBlamed == Asking /\ Refusable(Segment, at) /\ Hopeless /\ NextStream

\* Mutant: rows are set aside even when not one of them was accepted.
NothingAcceptedMutant == FALSE

\* Nothing accepted in the end: nothing is set aside either.
NothingAccepted == accepted = 0

IsolationVain == phase = "isolating" /\ ends = <<>> /\ NothingAccepted /\ NextStream

IsolationDone ==
  /\ phase = "isolating" /\ ends = <<>> /\ ~NothingAccepted
  /\ phase' = "settingAside"
  /\ UNCHANGED <<archive, cloud, refusing, at, upto, isolation, erred, batch,
                 read, marked, freezing, crashes>>

SetAside ==
  /\ phase = "settingAside"
  /\ \E i \in failed :
       /\ \A j \in failed : i <= j
       /\ rejects' = rejects \cup {<<at, i>>}
       /\ failed' = failed \ {i}
  /\ UNCHANGED <<archived, cursor, cloud, refusing, phase, at, upto, asked, ends,
                 accepted, streak, erred, batch, read, marked, freezing, crashes>>

\* Mutant: the cursor moves before the refused rows are set aside.
PassEarly ==
  /\ phase = "settingAside"
  /\ cursor' = [cursor EXCEPT ![at] = upto[at]]
  /\ phase' = IF failed = {} THEN "stream" ELSE phase
  /\ UNCHANGED <<archived, cloud, rejects, refusing, at, upto, isolation, erred,
                 batch, read, marked, freezing, crashes>>

Pass ==
  /\ phase = "settingAside" /\ failed = {}
  /\ cursor' = [cursor EXCEPT ![at] = upto[at]]
  /\ phase' = "stream"
  /\ UNCHANGED <<archived, cloud, rejects, refusing, at, upto, isolation, erred,
                 batch, read, marked, freezing, crashes>>

(***************************************************************************)
(* The ways a drain ends.                                                  *)
(***************************************************************************)

Larger(a, b) == IF a > b THEN a ELSE b

\* No answer, from the network or the database, to rows or, with nothing owed, to
\* the health row alone: the drain ends there, whether the rows landed or not. A
\* timeout halves the next batch, an outage does not, and isolate does not say
\* which it was.
AnswerLost ==
  /\ \/ /\ phase = "allSent"
        /\ \/ /\ \A s \in Stream : Batch(s) # {} => ~Refusable(Batch(s), s)
              /\ Stored(BatchOfAll)
           \/ UNCHANGED <<cloud, marked>>
     \/ /\ phase = "all" /\ (\A s \in Stream : cursor[s] = archived[s])
        /\ UNCHANGED <<cloud, marked>>
     \/ /\ phase = "sent"
        /\ \/ ~Refusable(Batch(at), at) /\ Stored(Batch(at))
           \/ UNCHANGED <<cloud, marked>>
     \/ /\ Asking
        /\ \/ ~Refusable(Segment, at) /\ Stored(Segment)
           \/ UNCHANGED <<cloud, marked>>
  /\ batch' \in IF phase = "isolating" THEN {batch}
                ELSE {batch, Larger(MinBatch, batch \div 2)}
  /\ phase' = "idle"
  /\ UNCHANGED <<archive, refusing, at, upto, isolation, erred, read, freezing,
                 crashes>>

\* The time budget is looked at before each batch. Once it is spent no stream
\* starts another, and the drain ends as if all had been seen to.
BudgetSpent ==
  /\ BudgetRunsOut /\ (phase = "all" \/ (phase = "stream" /\ at <= NStreams))
  /\ phase' = "stream" /\ at' = NStreams + 1
  /\ UNCHANGED <<archive, cloud, refusing, upto, isolation, erred, batch, read,
                 marked, freezing, crashes>>

\* Every stream has been seen to. A drain without an error grows the batch, when
\* it was quick, and is followed by the readings to be sent again.
Finish ==
  /\ phase = "stream" /\ at > NStreams
  /\ batch' \in IF erred THEN {batch} ELSE {batch, Least(MaxBatch, batch * 2)}
  /\ IF erred \/ resend = {}
       THEN phase' = "idle" /\ UNCHANGED <<resend, resending>>
       ELSE phase' = "resending" /\ resending' = resend /\ resend' = {}
  /\ UNCHANGED <<archive, cloud, refusing, at, upto, isolation, erred, read,
                 marked, flagged, overtaken, forgot, freezes, crashes>>

(***************************************************************************)
(* Frozen measurements.                                                    *)
(***************************************************************************)

\* Other work of the process runs between ticks and where the drain waits.
Waiting == phase \in {"idle", "allSent", "sent", "resending"} \/ Asking

Uploaded(F) == F \cap 1..cursor[Readings]

\* The readings on their way to the cloud as they were read.
InFlight ==
  IF phase = "allSent" \/ (phase \in {"sent", "isolating"} /\ at = Readings)
    THEN ReadingIds(Batch(Readings)) ELSE {}

\* Mutant: what the cloud already has is not sent again.
FlagNotResent(F) ==
  /\ Waiting /\ freezes < MaxFreezes /\ freezes' = freezes + 1
  /\ F # {} /\ F \subseteq 1..archived[Readings] \ flagged
  /\ flagged' = flagged \cup F
  /\ overtaken' = overtaken \cup (F \cap InFlight)
  /\ UNCHANGED <<archive, cloud, refusing, phase, at, upto, isolation, erred,
                 batch, read, marked, resend, resending, forgot, crashes>>

\* flagFrozen: a device's minutes are marked back to where its freeze started;
\* those at or below the cursor are to be sent again.
Flag(F) ==
  /\ Waiting /\ freezes < MaxFreezes /\ freezes' = freezes + 1
  /\ F # {} /\ F \subseteq 1..archived[Readings] \ flagged
  /\ flagged' = flagged \cup F
  /\ resend' = resend \cup Uploaded(F)
  /\ overtaken' = overtaken \cup (F \cap InFlight)
  /\ UNCHANGED <<archive, cloud, refusing, phase, at, upto, isolation, erred,
                 batch, read, marked, resending, forgot, crashes>>

AgainRows == {<<Readings, i>> : i \in resending}

\* resendFlagged: one upsert of rows read as they are now.
ResendStored ==
  /\ phase = "resending" /\ ~Refusable(AgainRows, Readings)
  /\ cloud' = cloud \cup AgainRows
  /\ marked' = marked \cup resending
  /\ resending' = {} /\ phase' = "idle"
  /\ UNCHANGED <<archive, refusing, at, upto, isolation, erred, batch, flagged,
                 read, resend, overtaken, forgot, freezes, crashes>>

PutBack ==
  /\ resend' = resend \cup resending /\ resending' = {}
  /\ phase' = "idle"
  /\ UNCHANGED <<archive, refusing, at, upto, isolation, erred, batch, flagged,
                 read, overtaken, forgot, freezes, crashes>>

\* No answer: they are put back, to be sent after a later drain.
ResendFailed ==
  /\ phase = "resending" /\ ~Refusable(AgainRows, Readings)
  /\ \/ cloud' = cloud \cup AgainRows /\ marked' = marked \cup resending
     \/ UNCHANGED <<cloud, marked>>
  /\ PutBack

\* A refusal is treated alike, and so is no answer to what would be refused.
ResendRefused ==
  /\ phase = "resending" /\ Refusable(AgainRows, Readings)
  /\ PutBack /\ UNCHANGED <<cloud, marked>>

(***************************************************************************)
(* The world: a table starts or stops refusing, the process restarts.      *)
(***************************************************************************)
TableTurns(s) ==
  /\ TablesRefuse /\ (phase = "idle" \/ MidDrain)
  /\ refusing' = IF s \in refusing THEN refusing \ {s} ELSE refusing \cup {s}
  /\ UNCHANGED <<archive, cloud, phase, at, upto, isolation, erred, batch, read,
                 marked, freezing, crashes>>

Restart ==
  /\ crashes < MaxCrashes /\ crashes' = crashes + 1
  /\ phase' = "idle" /\ batch' = MaxBatch
  /\ resend' = {} /\ resending' = {}
  /\ forgot' = forgot \cup resend \cup resending
  /\ UNCHANGED <<archive, cloud, refusing, at, upto, isolation, erred, flagged,
                 read, marked, overtaken, freezes>>

DrainStep ==
  \/ AskAll \/ AllStored \/ Advance \/ AllRefused
  \/ AskStream \/ StreamStored \/ StreamRefused
  \/ SegmentStored \/ SegmentHalved \/ TableBlamed
  \/ IsolationVain \/ IsolationDone \/ SetAside \/ Pass
  \/ Finish \/ ResendStored \/ ResendRefused

Fault ==
  \/ AnswerLost \/ BudgetSpent \/ ResendFailed
  \/ \E s \in Stream : TableTurns(s)
  \/ Restart

Next ==
  \/ \E T \in SUBSET Stream : Archive(T)
  \/ Start \/ DrainStep
  \/ \E F \in SUBSET Id : Flag(F)
  \/ Fault

Spec == Init /\ [][Next]_vars

(***************************************************************************)
(* Fairness. Ticks come every minute and their code runs to the end (weak  *)
(* fairness of starting a drain and of its steps). Link and database may   *)
(* be away for as long as they like and any number of times, but there is  *)
(* a last time: a drain of many requests needs all of them answered, and   *)
(* that some are answered again and again is not enough. Nothing is        *)
(* assumed of new rows or of freezes.                                      *)
(***************************************************************************)
FaultsEnd == <>[][~Fault]_vars

Fairness == WF_vars(Start) /\ WF_vars(DrainStep) /\ FaultsEnd

FairSpec == Spec /\ Fairness

(***************************************************************************)
(* Properties.                                                             *)
(***************************************************************************)
Row == Stream \X Id

RowsTyped ==
  /\ archived \in [Stream -> 0..MaxRows]
  /\ cursor \in [Stream -> 0..MaxRows]
  /\ upto \in [Stream -> 0..MaxRows]
  /\ cloud \subseteq Row
  /\ rejects \subseteq Row
  /\ refusing \subseteq Stream
DrainTyped ==
  /\ phase \in Phase
  /\ at \in 1..(NStreams + 1)
  /\ phase \in {"advancing", "sent", "isolating", "settingAside"} => at \in Stream
  /\ erred \in BOOLEAN
  /\ batch \in MinBatch..MaxBatch
  /\ crashes \in 0..MaxCrashes
IsolationTyped ==
  /\ asked \in 0..MaxRows
  /\ ends \in Seq(0..MaxRows)
  /\ accepted \in Nat
  /\ streak \in Nat
  /\ failed \subseteq Id
FreezesTyped ==
  /\ flagged \subseteq Id /\ read \subseteq Id /\ marked \subseteq Id
  /\ resend \subseteq Id /\ resending \subseteq Id
  /\ overtaken \subseteq Id /\ forgot \subseteq Id
  /\ freezes \in 0..MaxFreezes
TypeOK == RowsTyped /\ DrainTyped /\ IsolationTyped /\ FreezesTyped

\* Every row the cursor has passed is with the cloud or set aside in the archive,
\* whatever mixture of whole-batch requests, halving, lost answers, table
\* refusals and restarts moved the cursor there (archiveUpload.mjs:4-5, "moves
\* each stream's cursor only over rows the cloud accepted").
NothingSkipped ==
  \A s \in Stream : \A i \in Id : i <= cursor[s] => <<s, i>> \in cloud \cup rejects

\* A batch is in range, and the batches of an answered request are in the cloud
\* until their cursors have moved.
BatchesRead ==
  /\ \A s \in Stream : cursor[s] <= archived[s]
  /\ phase \in {"allSent", "advancing"} =>
       \A s \in Stream : cursor[s] <= upto[s] /\ upto[s] <= archived[s]
  /\ phase \in {"sent", "isolating", "settingAside"} =>
       cursor[at] < upto[at] /\ upto[at] <= archived[at]
  /\ phase = "advancing" =>
       \A s \in Stream : \A i \in Id :
         s >= at /\ cursor[s] < i /\ i <= upto[s] => <<s, i>> \in cloud

\* The segments left to ask about are in order, after the last answer.
SegmentsOrdered ==
  \A k \in 1..Len(ends) :
    asked < ends[k] /\ \A j \in 1..Len(ends) : j < k => ends[j] < ends[k]

\* isolate's account of a batch: the segments left cover everything from the last
\* answer to the end of the batch, and every row answered for is in the cloud,
\* set aside, or among the failed.
Answered(hi) ==
  \A i \in Id : cursor[at] < i /\ i <= hi => <<at, i>> \in cloud \cup rejects \/ i \in failed
IsolationCovers ==
  /\ phase = "isolating" =>
       /\ IF ends = <<>> THEN asked = upto[at] ELSE ends[Len(ends)] = upto[at]
       /\ cursor[at] <= asked
       /\ Answered(asked)
  /\ phase = "settingAside" => Answered(upto[at])
  /\ phase \in {"isolating", "settingAside"} =>
       \A i \in failed : cursor[at] < i /\ i <= upto[at]

\* The cloud holds rows of the archive, and only such are sent again.
KeptOnly ==
  /\ \A r \in cloud : r[2] <= archived[r[1]]
  /\ \A i \in resend \cup resending : i <= archived[Readings]

IInv ==
  /\ TypeOK /\ NothingSkipped /\ BatchesRead
  /\ SegmentsOrdered /\ IsolationCovers /\ KeptOnly

\* A table that refuses everything costs no row: what is set aside is a row the
\* database refuses for itself (archiveUpload.mjs:18-21), as long as a table does
\* not start to refuse while it is being drained.
OnlyRefusedSetAside == rejects \subseteq RefusedRows

\* A reading marked frozen after the fact is never left in the cloud as a
\* measurement without something that still sends it: it is above the cursor, or
\* to be sent again. What is not covered was overtaken by its own upload, or
\* forgotten by a restart.
FlagOwed ==
  \A i \in flagged :
    \/ <<Readings, i>> \notin cloud \/ i \in marked
    \/ i > cursor[Readings]
    \/ i \in resend \cup resending \cup overtaken \cup forgot

\* One bad row, or one broken table, holds up nothing else: every other row
\* reaches the cloud (archiveUpload.mjs:13-17).
Good(s, i) == s \notin Broken /\ <<s, i>> \notin RefusedRows
Delivered ==
  \A s \in Stream, i \in Id :
    Good(s, i) => [](i <= archived[s] => <>(<<s, i>> \in cloud))

\* The drain implements the outbox.
Promise == INSTANCE Outbox WITH through <- cursor, present <- cloud, aside <- rejects
Implements == Promise!ObSpec
=============================================================================
