----------------------------- MODULE HeldMeters -----------------------------
(***************************************************************************)
(* Meters that hold one reading, and the estimates of what they counted    *)
(* meanwhile (freezeWatch.mjs, estimateOutbox.mjs, noteFreezes and         *)
(* sendEstimates in ingest.mjs).  Each tick's readings are watched for     *)
(* holds that start or end; the telling and the estimating go on beside    *)
(* the tick, one event after the other, waiting for the notice to be       *)
(* taken; the tick, at its end, sends the estimates that are pending.      *)
(***************************************************************************)
EXTENDS Integers, Sequences, SequencesExt, TLC

CONSTANTS
  Meter,        \* meters, as numbers: a tick lists them in order
  ClearAfter,   \* CLEAR_AFTER_MS, in ticks
  MaxHolds,     \* bound: holds of one meter
  MaxTrouble    \* bound: dropped flags, missing meters, failed requests, restarts, together

Hold == 1..MaxHolds
None == 0

VARIABLES
  hold,         \* the meter's newest hold
  flag,         \* the hold the bridge reports, or None
  tracked,      \* freezeWatch: the hold it knows of
  absent,       \* ... and for how many ticks its flag has been gone: absentFrom, or None
  since,        \* ticks since the flag was seen last (history)
  runs,         \* the noteFreezes that wait: events still to be handled
  stage,        \* where the tick is
  record, pending,  \* the two files of the outbox
  asked,        \* rows of the upsert under way
  stored,       \* rows the cloud has
  slipped,      \* rows that left the pending file unsent, or never got there (history)
  unestimated,  \* holds estimateEndedHold made no rows of (history)
  forgotten,    \* holds a restart forgot (history)
  strife

site == <<hold, flag>>
watch == <<tracked, absent, since>>
outbox == <<record, pending, stored, slipped, unestimated>>
heldmeters_vars == <<site, watch, runs, stage, outbox, asked, forgotten, strife>>

Strife == strife < MaxTrouble /\ strife' = strife + 1
Ordered(S) == SetToSortSeq(S, LAMBDA a, b : a < b)
Capped(n) == IF n > ClearAfter THEN ClearAfter + 1 ELSE n

-----------------------------------------------------------------------------
(***************************************************************************)
(* Meters, as the bridge reports them.                                     *)
(***************************************************************************)
\* The bridge takes hours to report a hold: the last one has been cleared by then.
StartsHolding(m) ==
  /\ flag[m] = None /\ hold[m] < MaxHolds /\ tracked[m] = None
  /\ hold' = [hold EXCEPT ![m] = @ + 1] /\ flag' = [flag EXCEPT ![m] = hold[m] + 1]
  /\ UNCHANGED <<watch, runs, stage, outbox, asked, forgotten, strife>>

MovesAgain(m) ==
  /\ flag[m] # None /\ flag' = [flag EXCEPT ![m] = None]
  /\ UNCHANGED <<hold, watch, runs, stage, outbox, asked, forgotten, strife>>

\* A flag that comes back, with the same start.
FlagReturns(m) ==
  /\ flag[m] = None /\ hold[m] # None /\ Strife
  /\ flag' = [flag EXCEPT ![m] = hold[m]]
  /\ UNCHANGED <<hold, watch, runs, stage, outbox, asked, forgotten>>

-----------------------------------------------------------------------------
(***************************************************************************)
(* The outbox.                                                             *)
(***************************************************************************)
\* Mutant: the record is left to the flush.
AddPending(rows) == pending' = pending \cup rows /\ UNCHANGED record
\* add: on record first, then pending.
Add(rows) == record' = record \cup rows /\ pending' = pending \cup rows

\* estimateEndedHold, tried once: rows are added, or there are none (the register did not
\* step, or is not the meter's own, or the archive threw), or add threw between its two
\* files. What is thrown is logged.
Estimate(row) ==
  \/ Add({row}) /\ UNCHANGED <<slipped, unestimated>>
  \/ unestimated' = unestimated \cup {row} /\ UNCHANGED <<record, pending, slipped>>
  \/ record' = record \cup {row} /\ slipped' = slipped \cup {row} /\ UNCHANGED <<pending, unestimated>>

NoEstimate == UNCHANGED <<record, pending, slipped, unestimated>>

\* An event that started tells the operator; one that cleared is estimated first.
Handle(event) == IF event.kind = "cleared" THEN Estimate(<<event.meter, event.hold>>) ELSE NoEstimate

\* noteFreezes up to the notice it waits for: the rest of its events.
Going(events) == IF events = <<>> THEN NoEstimate ELSE Handle(Head(events))
Rest(events) == IF Len(events) < 2 THEN {} ELSE {Tail(events)}

Noticed(events) ==
  /\ events \in runs /\ Going(events) /\ runs' = (runs \ {events}) \cup Rest(events)
  /\ UNCHANGED <<site, watch, stage, asked, stored, forgotten, strife>>

-----------------------------------------------------------------------------
(***************************************************************************)
(* The tick.                                                               *)
(***************************************************************************)
Started(present) == {m \in present : flag[m] # None /\ tracked[m] = None}

\* Mutant: a flag that is back leaves the clearing under way.
AbsentStays(m) == IF flag[m] = None /\ absent[m] = None THEN 1 ELSE absent[m]
\* absentFrom: the first unflagged tick, until the flag is back.
AbsentFrom(m) == IF flag[m] # None THEN None ELSE IF absent[m] = None THEN 1 ELSE absent[m]

Cleared(present) == {m \in present : flag[m] = None /\ tracked[m] # None /\ AbsentFrom(m) > ClearAfter}

Event(kind, m) == [kind |-> kind, meter |-> m, hold |-> IF kind = "started" THEN flag[m] ELSE tracked[m]]
EventsOf(kind, meters) == [i \in DOMAIN Ordered(meters) |-> Event(kind, Ordered(meters)[i])]

\* observe: a meter that is missing from the tick is neither held nor moving.
Tick ==
  \E present \in SUBSET Meter :
    LET started == Started(present)
        cleared == Cleared(present)
        events  == EventsOf("started", started) \o EventsOf("cleared", cleared)
        known(m) == IF m \in cleared THEN None ELSE IF m \in started THEN flag[m] ELSE tracked[m]
        seen(m) == m \in present /\ tracked[m] # None /\ m \notin cleared
    IN
    /\ stage = "waiting" /\ stage' = "uploading"
    /\ IF present = Meter THEN UNCHANGED strife ELSE Strife
    /\ tracked' = [m \in Meter |-> known(m)]
    /\ absent' = [m \in Meter |->
                    LET from == IF seen(m) THEN AbsentFrom(m) ELSE absent[m] IN
                    IF m \in cleared \cup started \/ from = None THEN None ELSE Capped(from + 1)]
    /\ since' = [m \in Meter |-> IF m \in present /\ flag[m] # None THEN 0 ELSE Capped(since[m] + 1)]
    /\ Going(events) /\ runs' = runs \cup Rest(events)
    /\ UNCHANGED <<site, asked, stored, forgotten>>
\* sendEstimates, after an upload that went through; an upload may wait for its turn,
\* but not for ever.
NothingToSend ==
  /\ stage = "uploading" /\ pending = {} /\ stage' = "waiting"
  /\ UNCHANGED <<site, watch, runs, outbox, asked, forgotten, strife>>

NotSent ==
  /\ stage = "uploading" /\ pending # {} /\ Strife /\ stage' = "waiting"
  /\ UNCHANGED <<site, watch, runs, outbox, asked, forgotten>>

Flush ==
  /\ stage = "uploading" /\ pending # {} /\ stage' = "flushing" /\ asked' = pending
  /\ UNCHANGED <<site, watch, runs, outbox, forgotten, strife>>

\* Mutant: what failed is taken for sent.
EmptiedAnyway(answered) == {}
\* The file is emptied only once the upsert is taken.
Emptied(answered) == IF answered THEN {} ELSE pending

Flushed ==
  /\ stage = "flushing" /\ stage' = "waiting" /\ asked' = {}
  /\ \E took, answered \in BOOLEAN :
       /\ answered => took
       /\ IF answered THEN UNCHANGED strife ELSE Strife
       /\ stored' = IF took THEN stored \cup asked ELSE stored
       /\ pending' = Emptied(answered)
       /\ slipped' = IF answered THEN slipped \cup (pending \ asked) ELSE slipped
  /\ UNCHANGED <<site, watch, runs, record, unestimated, forgotten>>

-----------------------------------------------------------------------------
Underway == UNION {{e \in Range(r) : e.kind = "cleared"} : r \in runs}

\* Stopped and started: what was watched is watched anew, while its flag is up.
Forget ==
  /\ Strife
  /\ forgotten' = forgotten \cup {<<e.meter, e.hold>> : e \in Underway}
                            \cup {<<m, tracked[m]>> : m \in {m \in Meter : tracked[m] # None}}
  /\ tracked' = [m \in Meter |-> None] /\ absent' = [m \in Meter |-> None]
  /\ since' = [m \in Meter |-> ClearAfter + 1]
  /\ runs' = {} /\ stage' = "waiting" /\ asked' = {}

Restart ==
  /\ Forget /\ stored' \in {stored, stored \cup asked}
  /\ UNCHANGED <<site, record, pending, slipped, unestimated>>

\* ... between the two writes of an estimate.
RestartBetween(events) ==
  /\ events \in runs /\ Head(events).kind = "cleared" /\ Forget
  /\ LET row == <<Head(events).meter, Head(events).hold>> IN
     record' = record \cup {row} /\ slipped' = slipped \cup {row}
  /\ UNCHANGED <<site, pending, stored, unestimated>>

Init ==
  /\ hold = [m \in Meter |-> None] /\ flag = [m \in Meter |-> None]
  /\ tracked = [m \in Meter |-> None] /\ absent = [m \in Meter |-> None]
  /\ since = [m \in Meter |-> ClearAfter + 1]
  /\ runs = {} /\ stage = "waiting"
  /\ record = {} /\ pending = {} /\ asked = {} /\ stored = {} /\ slipped = {} /\ unestimated = {}
  /\ forgotten = {}
  /\ strife = 0

TickStep == Tick \/ NothingToSend \/ Flush \/ Flushed
Notice == \E events \in runs : Noticed(events)

Next ==
  \/ \E m \in Meter : StartsHolding(m) \/ MovesAgain(m) \/ FlagReturns(m)
  \/ TickStep \/ NotSent \/ Notice
  \/ Restart \/ (\E events \in runs : RestartBetween(events))

Spec == Init /\ [][Next]_heldmeters_vars

\* Ticks come, requests are answered or given up, and a hold ends.
Fairness ==
  /\ WF_heldmeters_vars(TickStep) /\ WF_heldmeters_vars(Notice)
  /\ WF_heldmeters_vars(\E m \in Meter : MovesAgain(m))

FairSpec == Spec /\ Fairness
-----------------------------------------------------------------------------
(***************************************************************************)
(* Properties.                                                             *)
(***************************************************************************)
\* Every estimate on record is pending or in the cloud, through refused, lost and
\* repeated upserts and restarts, but for those that slipped; and the cloud's table can
\* be rebuilt from the record.
EstimateKept ==
  /\ record \subseteq pending \cup stored \cup slipped
  /\ pending \cup stored \subseteq record

\* A hold is taken for ended only after its flag was gone for all of the wait: a flag
\* that drops and comes back neither tells the operator nor starts an estimate.
EndedForGood ==
  [][\A m \in Meter : tracked[m] # None /\ tracked'[m] = None /\ stage' = "uploading"
       => flag[m] = None /\ since[m] >= ClearAfter]_heldmeters_vars

\* A hold that was watched to its end gets its estimate in the cloud, though upserts are
\* refused and lost. But it is estimated only once: not if no rows were made of it then,
\* by what the register says or by a fault; and not if its rows slipped or a restart
\* forgot it.
HoldEstimated ==
  \A m \in Meter : \A h \in Hold :
    tracked[m] = h ~> (<<m, h>> \in stored \cup unestimated \cup slipped \cup forgotten)

\* "the rows wait in a file (`pending`) until an upsert takes them" (estimateOutbox.mjs:5)
RowsWait == [][pending \ pending' \subseteq stored']_heldmeters_vars
=============================================================================
