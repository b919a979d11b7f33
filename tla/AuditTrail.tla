----------------------------- MODULE AuditTrail -----------------------------
(***************************************************************************)
(* The command audit trail: how the row that records a command travels     *)
(* from the process that issued it to the cloud's `commands` table.        *)
(*                                                                         *)
(* Three processes share files on the edge's card:                         *)
(*   the proxy      records a person's command in its in-flight file,      *)
(*                  dispatches, writes the outcome, then settles: uploads  *)
(*                  the row or appends it to its outage queue;             *)
(*   the scheduler  inserts in the cloud first and appends to an outage    *)
(*                  queue of its own only when the cloud cannot be reached;*)
(*   ingest         drains both queues: renames the queue aside, uploads   *)
(*                  row by row, and puts back what it could not upload.    *)
(*                                                                         *)
(* Each process is a JavaScript event loop: its synchronous code is not    *)
(* interleaved with its own other work, but every file operation is a step *)
(* that the other two processes, or a crash, can come between. Rewriting a *)
(* queue in place is two: the file is truncated, then written.             *)
(***************************************************************************)
EXTENDS Naturals, Sequences, FiniteSets

CONSTANTS
  ProxyCmds,       \* commands people send through the proxy
  SchedCmds,       \* commands the scheduler fires
  Dispatchable,    \* commands that reach hardware; the others are dry runs
  Unwritable,      \* commands whose row the database may answer with a refusal
                   \* (about the row or about its caller: a right that lapsed)
  MaxCrashes,      \* bound: process crashes in a behaviour
  MaxPowerCuts     \* bound: power cuts in a behaviour

Cmd == ProxyCmds \cup SchedCmds
NoRow == "none"

ASSUME CmdsAssumption ==
  /\ NoRow \notin Cmd
  /\ ProxyCmds \cap SchedCmds = {}
  /\ Dispatchable \subseteq Cmd
  /\ Unwritable \subseteq Cmd

ASSUME BoundsAssumption == MaxCrashes \in Nat /\ MaxPowerCuts \in Nat

Writer == {"proxy", "scheduler"}
WriterOf(c) == IF c \in ProxyCmds THEN "proxy" ELSE "scheduler"

Status == {"dispatching", "dry_run", "dispatched", "failed"}
Row == [cmd : Cmd, status : Status]

\* auditedDispatch decides the opening status before it records anything.
Opening(c) == IF c \in Dispatchable THEN "dispatching" ELSE "dry_run"

VARIABLES
  stage,        \* where each command's handler is
  outcome,      \* what dispatch answered, in the handler's memory
  moved,        \* commands whose hardware acted
  inflight,     \* the proxy's in-flight file: command -> status, or NoRow
  queue,        \* the outage queue file of each writer
  draining,     \* the rotated file of each writer
  cloud,        \* rows of the commands table
  rowId,        \* scheduler: the id insertAudit returned, "remote" or "buffered"
  patching,     \* scheduler: the entries updateAudit has read and not yet written,
                \* and, from its truncation on, the file its descriptor is of
  starting,     \* the proxy is in recoverInflight
  handed,       \* records recoverInflight has appended so far
  drain,        \* ingest in drainCommandAudit: what it read and has not sent
  blank,        \* files that exist without a row in them
  synced,       \* how many leading rows of each file are on the card
  overwritten,  \* history: commands a whole-file rewrite dropped
  torn,         \* history: commands lost with a rewrite that never landed
  cutOff,       \* history: commands whose row a power cut took
  crashes, powerCuts

files == <<inflight, queue, draining, cloud, blank>>
memory == <<stage, outcome, rowId, patching, starting, handed, drain>>
history == <<overwritten, torn, cutOff, crashes, powerCuts>>
vars == <<stage, outcome, moved, inflight, queue, draining, cloud, rowId,
          patching, starting, handed, drain, blank, synced, overwritten, torn,
          cutOff, crashes, powerCuts>>

Stage == {"new", "inserting", "recorded", "acted", "noted", "asked", "handed",
          "done", "refused", "lost"}
Phase == {"idle", "uploading", "failed", "restoring", "rewriting", "acking"}
Idle == [phase |-> "idle", file |-> "proxy", left |-> <<>>, live |-> <<>>]
NotPatching == [cmd |-> NoRow, entries |-> <<>>, into |-> "none"]

CmdsIn(s) == {s[i].cmd : i \in 1..Len(s)}
RowOf(c, st) == [cmd |-> c, status |-> st]
Record(c) == RowOf(c, inflight[c])
InCloud(c) == \E r \in cloud : r.cmd = c

\* What counts of a rotated file: while ingest drains it, the rows ingest has read
\* and not sent, because the file is removed at the end whatever it holds by then.
Pending(w) ==
  IF drain.phase # "idle" /\ drain.file = w THEN drain.left ELSE draining[w]

\* A row that a process holds in memory while it rewrites a queue it has truncated.
InHand(c) ==
  \/ patching.into # "none" /\ c \in CmdsIn(patching.entries)
  \/ drain.phase = "rewriting" /\ c \in CmdsIn(drain.live)

\* Some file on the edge, or the cloud, holds a row for the command.
InQueues(c) == \E w \in Writer : c \in CmdsIn(queue[w]) \cup CmdsIn(Pending(w))
Held(c) == InCloud(c) \/ InQueues(c) \/ (c \in ProxyCmds /\ inflight[c] # NoRow)

\* Commands that lose their last copy after the record with a rewrite that does not land.
Copied(c) == InCloud(c) \/ InQueues(c) \/ InHand(c)
LostInHand == {c \in Cmd : InHand(c) /\ ~Copied(c)'}

\* No process has work under way and no file is there.
Quiet ==
  /\ outcome = [c \in Cmd |-> "none"]
  /\ moved = {}
  /\ inflight = [c \in ProxyCmds |-> NoRow]
  /\ queue = [w \in Writer |-> <<>>]
  /\ draining = [w \in Writer |-> <<>>]
  /\ cloud = {}
  /\ rowId = [c \in SchedCmds |-> "none"]
  /\ patching = NotPatching
  /\ starting = FALSE
  /\ handed = {}
  /\ drain = Idle
  /\ blank = {}
  /\ synced = [queue |-> [w \in Writer |-> 0], draining |-> [w \in Writer |-> 0]]
  /\ overwritten = {}
  /\ torn = {}
  /\ cutOff = {}
  /\ crashes = 0

Init == stage = [c \in Cmd |-> "new"] /\ powerCuts = 0 /\ Quiet

Goto(c, s) == stage' = [stage EXCEPT ![c] = s]
\* appendToBuffer: one line at the end, in a file that is there from then on.
Enqueue(w, row) ==
  /\ queue' = [queue EXCEPT ![w] = Append(@, row)]
  /\ blank' = blank \ {<<"queue", w>>}

(***************************************************************************)
(* A process runs its synchronous code to the end before its other work.   *)
(***************************************************************************)
ProxyFree == ~starting /\ \A c \in ProxyCmds : stage[c] # "handed"
SchedulerFree == patching = NotPatching

(***************************************************************************)
(* The proxy.                                                              *)
(***************************************************************************)

\* insertAudit of createLocalFirstAudit: one line, flushed to the card. A dry
\* run has nothing more to record.
RecordOnEdge(c) ==
  /\ ProxyFree /\ stage[c] = "new"
  /\ inflight' = [inflight EXCEPT ![c] = Opening(c)]
  /\ Goto(c, IF c \in Dispatchable THEN "recorded" ELSE "noted")
  /\ UNCHANGED <<outcome, moved, queue, draining, blank, cloud, rowId, patching,
                 starting, handed, drain, synced, history>>

\* The card cannot be written: the command is refused before hardware.
RecordFails(c) ==
  /\ ProxyFree /\ stage[c] = "new"
  /\ Goto(c, "refused")
  /\ UNCHANGED <<outcome, moved, files, rowId, patching, starting, handed,
                 drain, synced, history>>

\* dispatch: the relay moves and answers, or the answer is a failure. A failure
\* is no proof that the relay stood still: the answer may be what was lost.
Dispatch(c) ==
  /\ IF c \in ProxyCmds THEN ProxyFree ELSE SchedulerFree
  /\ stage[c] = "recorded"
  /\ \E answer \in {"dispatched", "failed"}, acts \in BOOLEAN :
       /\ answer = "dispatched" => acts
       /\ outcome' = [outcome EXCEPT ![c] = answer]
       /\ moved' = IF acts THEN moved \cup {c} ELSE moved
  /\ Goto(c, "acted")
  /\ UNCHANGED <<files, rowId, patching, starting, handed, drain, synced, history>>

\* Mutant: the outcome is never written into the record.
NoteSkipped(c) ==
  /\ ProxyFree /\ stage[c] = "acted"
  /\ Goto(c, "noted")
  /\ UNCHANGED <<outcome, moved, files, rowId, patching, starting, handed,
                 drain, synced, history>>

\* updateAudit of createLocalFirstAudit.
NoteOnEdge(c) ==
  /\ ProxyFree /\ stage[c] = "acted"
  /\ inflight' = [inflight EXCEPT ![c] = outcome[c]]
  /\ Goto(c, "noted")
  /\ UNCHANGED <<outcome, moved, queue, draining, blank, cloud, rowId, patching,
                 starting, handed, drain, synced, history>>

\* Mutant: settle does not wait for the outcome.
SettleAskEarly(c) ==
  /\ ProxyFree /\ stage[c] \in {"acted", "noted"}
  /\ \/ cloud' = cloud \cup {Record(c)}
     \/ UNCHANGED cloud
  /\ Goto(c, "asked")
  /\ UNCHANGED <<outcome, moved, inflight, queue, draining, blank, rowId, patching,
                 starting, handed, drain, synced, history>>

\* settle asks the cloud to take the row. Whether it landed and whether the
\* answer arrives are two different things.
SettleAsk(c) ==
  /\ ProxyFree /\ stage[c] = "noted"
  /\ \/ cloud' = cloud \cup {Record(c)}
     \/ UNCHANGED cloud
  /\ Goto(c, "asked")
  /\ UNCHANGED <<outcome, moved, inflight, queue, draining, blank, rowId, patching,
                 starting, handed, drain, synced, history>>

\* The answer says the row was stored: the record leaves the in-flight file.
SettleUploaded(c) ==
  /\ ProxyFree /\ stage[c] = "asked" /\ Record(c) \in cloud
  /\ inflight' = [inflight EXCEPT ![c] = NoRow]
  /\ Goto(c, "done")
  /\ UNCHANGED <<outcome, moved, queue, draining, blank, cloud, rowId, patching,
                 starting, handed, drain, synced, history>>

\* Any other answer, or none: the row is appended to the outage queue ...
SettleQueue(c) ==
  /\ ProxyFree /\ stage[c] = "asked"
  /\ Enqueue("proxy", Record(c))
  /\ Goto(c, "handed")
  /\ UNCHANGED <<outcome, moved, inflight, draining, cloud, rowId, patching,
                 starting, handed, drain, synced, history>>

\* ... and only then taken out of the in-flight file.
SettleForget(c) ==
  /\ stage[c] = "handed"
  /\ inflight' = [inflight EXCEPT ![c] = NoRow]
  /\ Goto(c, "done")
  /\ UNCHANGED <<outcome, moved, queue, draining, blank, cloud, rowId, patching,
                 starting, handed, drain, synced, history>>

\* recoverInflight, one append at a time ...
RecoverOne(c) ==
  /\ starting /\ inflight[c] # NoRow /\ c \notin handed
  /\ Enqueue("proxy", Record(c))
  /\ handed' = handed \cup {c}
  /\ UNCHANGED <<stage, outcome, moved, inflight, draining, cloud, rowId,
                 patching, starting, drain, synced, history>>

\* ... then the file is removed and the proxy serves.
RecoverDone ==
  /\ starting
  /\ \A c \in ProxyCmds : inflight[c] # NoRow => c \in handed
  /\ inflight' = [c \in ProxyCmds |-> NoRow]
  /\ starting' = FALSE
  /\ handed' = {}
  /\ UNCHANGED <<stage, outcome, moved, queue, draining, blank, cloud, rowId, patching,
                 drain, synced, history>>

(***************************************************************************)
(* The scheduler.                                                          *)
(***************************************************************************)

\* insertAudit of createBufferedAudit asks the cloud first.
Insert(c) ==
  /\ SchedulerFree /\ stage[c] = "new"
  /\ \/ cloud' = cloud \cup {RowOf(c, Opening(c))}
     \/ UNCHANGED cloud
  /\ Goto(c, "inserting")
  /\ UNCHANGED <<outcome, moved, inflight, queue, draining, blank, rowId, patching,
                 starting, handed, drain, synced, history>>

Recorded(c, id) ==
  /\ rowId' = [rowId EXCEPT ![c] = id]
  /\ Goto(c, IF c \in Dispatchable THEN "recorded" ELSE "done")

InsertAnswered(c) ==
  /\ SchedulerFree /\ stage[c] = "inserting" /\ InCloud(c)
  /\ Recorded(c, "remote")
  /\ UNCHANGED <<outcome, moved, files, patching, starting, handed, drain,
                 synced, history>>

\* A refusal is an answer about this row: nothing is queued, nothing is sent.
InsertRefused(c) ==
  /\ SchedulerFree /\ stage[c] = "inserting" /\ c \in Unwritable
  /\ Goto(c, "refused")
  /\ UNCHANGED <<outcome, moved, files, rowId, patching, starting, handed,
                 drain, synced, history>>

\* No answer: the row is queued on the edge instead, landed or not.
InsertBuffered(c) ==
  /\ SchedulerFree /\ stage[c] = "inserting"
  /\ Enqueue("scheduler", RowOf(c, Opening(c)))
  /\ Recorded(c, "buffered")
  /\ UNCHANGED <<outcome, moved, inflight, draining, cloud, patching, starting,
                 handed, drain, synced, history>>

\* updateAudit by a remote id: one PATCH, whose failure is only reported.
NoteRemote(c) ==
  /\ SchedulerFree /\ stage[c] = "acted" /\ rowId[c] = "remote"
  /\ \/ cloud' = {r \in cloud : r.cmd # c} \cup {RowOf(c, outcome[c])}
     \/ UNCHANGED cloud
  /\ Goto(c, "done")
  /\ UNCHANGED <<outcome, moved, inflight, queue, draining, blank, rowId, patching,
                 starting, handed, drain, synced, history>>

\* updateAudit by a buffered id reads the whole queue ...
PatchRead(c) ==
  /\ SchedulerFree /\ stage[c] = "acted" /\ rowId[c] = "buffered"
  /\ c \in CmdsIn(queue["scheduler"])
  /\ patching' = [cmd |-> c, entries |-> queue["scheduler"], into |-> "none"]
  /\ UNCHANGED <<stage, outcome, moved, files, rowId, starting, handed, drain,
                 synced, history>>

\* ... reports the outcome as not recorded when ingest has taken the row ...
PatchMissed(c) ==
  /\ SchedulerFree /\ stage[c] = "acted" /\ rowId[c] = "buffered"
  /\ c \notin CmdsIn(queue["scheduler"])
  /\ Goto(c, "done")
  /\ UNCHANGED <<outcome, moved, files, rowId, patching, starting, handed,
                 drain, synced, history>>

\* The first entry of the command carries the outcome; the others stay.
Patched(entries, c) ==
  [i \in 1..Len(entries) |->
     IF entries[i].cmd = c /\ \A j \in 1..(i - 1) : entries[j].cmd # c
       THEN RowOf(c, outcome[c]) ELSE entries[i]]

\* ... and otherwise rewrites the whole file in place. writeBuffer first truncates it
\* (a row appended since it was read goes here) ...
PatchTruncate(c) ==
  /\ patching.cmd = c /\ patching.into = "none"
  /\ queue' = [queue EXCEPT !["scheduler"] = <<>>]
  /\ blank' = blank \cup {<<"queue", "scheduler">>}
  /\ overwritten' = overwritten
       \cup (CmdsIn(queue["scheduler"]) \ CmdsIn(patching.entries))
  /\ synced' = [synced EXCEPT !.queue["scheduler"] = 0]
  /\ patching' = [patching EXCEPT !.into = "queue"]
  /\ UNCHANGED <<stage, outcome, moved, inflight, draining, cloud, rowId, starting,
                 handed, drain, torn, cutOff, crashes, powerCuts>>

\* ... and then writes the rows, over whatever the file holds by then: the queue, the
\* rotated file if ingest has renamed it, or a file ingest has removed since.
PatchWrite(c) ==
  /\ patching.cmd = c /\ patching.into # "none"
  /\ \/ /\ patching.into = "queue"
        /\ queue' = [queue EXCEPT !["scheduler"] = Patched(patching.entries, c)]
        /\ overwritten' = overwritten
             \cup (CmdsIn(queue["scheduler"]) \ CmdsIn(patching.entries))
        /\ synced' = [synced EXCEPT !.queue["scheduler"] = 0]
        /\ UNCHANGED draining
     \/ /\ patching.into = "draining"
        /\ draining' = [draining EXCEPT !["scheduler"] = Patched(patching.entries, c)]
        /\ overwritten' = overwritten
             \cup (CmdsIn(draining["scheduler"]) \ CmdsIn(patching.entries))
        /\ synced' = [synced EXCEPT !.draining["scheduler"] = 0]
        /\ UNCHANGED queue
     \/ /\ patching.into = "gone"
        /\ UNCHANGED <<queue, draining, overwritten, synced>>
  /\ blank' = blank \ {<<patching.into, "scheduler">>}
  /\ patching' = NotPatching
  /\ Goto(c, "done")
  /\ UNCHANGED <<outcome, moved, inflight, cloud, rowId, starting, handed, drain,
                 cutOff, crashes, powerCuts>>
  /\ torn' = torn \cup LostInHand

(***************************************************************************)
(* Ingest.                                                                 *)
(***************************************************************************)

Rotated(w) == draining[w] # <<>> \/ <<"draining", w>> \in blank
Queued(w) == queue[w] # <<>> \/ <<"queue", w>> \in blank

Uploading(w, entries) ==
  IF entries = <<>> THEN Idle
  ELSE [phase |-> "uploading", file |-> w, left |-> entries, live |-> <<>>]

\* The queue is renamed over the rotated file, with whoever has it open.
Rename(w) ==
  /\ draining' = [draining EXCEPT ![w] = queue[w]]
  /\ queue' = [queue EXCEPT ![w] = <<>>]
  /\ blank' = (blank \ {<<"queue", w>>, <<"draining", w>>})
               \cup (IF <<"queue", w>> \in blank THEN {<<"draining", w>>} ELSE {})
  /\ synced' = [queue |-> [synced.queue EXCEPT ![w] = 0],
                draining |-> [synced.draining EXCEPT ![w] = synced.queue[w]]]
  /\ patching' = IF w = "scheduler" /\ patching.into = "queue"
                   THEN [patching EXCEPT !.into = "draining"] ELSE patching
  /\ drain' = Uploading(w, queue[w])

\* Mutant: only a fresh rotation is drained; what a crash left stays behind.
TakeFreshOnly(w) ==
  /\ drain.phase = "idle" /\ ~Rotated(w) /\ Queued(w) /\ Rename(w)
  /\ UNCHANGED <<stage, outcome, moved, inflight, cloud, rowId, starting, handed,
                 history>>

\* takeBufferedCommands: a rotated file a crash left behind comes first, and otherwise
\* the queue is renamed aside in one step. A file without rows is left where it is:
\* drainCommandAudit goes on to the next, and a rotated one keeps the queue waiting.
Take(w) ==
  /\ drain.phase = "idle"
  /\ \/ /\ draining[w] # <<>>
        /\ drain' = Uploading(w, draining[w])
        /\ UNCHANGED <<queue, draining, blank, synced, patching>>
     \/ /\ ~Rotated(w) /\ Queued(w)
        /\ Rename(w)
  /\ UNCHANGED <<stage, outcome, moved, inflight, cloud, rowId, starting, handed,
                 history>>

\* One upsert, answered.
Send ==
  /\ drain.phase = "uploading" /\ drain.left # <<>>
  /\ cloud' = cloud \cup {Head(drain.left)}
  /\ drain' = [drain EXCEPT !.left = Tail(@)]
  /\ UNCHANGED <<stage, outcome, moved, inflight, queue, draining, blank, rowId,
                 patching, starting, handed, synced, history>>

\* One upsert that failed, or whose answer was lost: the drain stops there.
SendFails ==
  /\ drain.phase = "uploading" /\ drain.left # <<>>
  /\ \/ cloud' = cloud \cup {Head(drain.left)}
     \/ UNCHANGED cloud
  /\ drain' = [drain EXCEPT !.phase = "failed"]
  /\ UNCHANGED <<stage, outcome, moved, inflight, queue, draining, blank, rowId,
                 patching, starting, handed, synced, history>>

\* restoreUndrained reads what was appended since the rotation, which is nothing when
\* the scheduler has just truncated the file ...
RestoreRead ==
  /\ drain.phase = "failed"
  /\ drain' = [drain EXCEPT !.phase = "restoring", !.live = queue[drain.file]]
  /\ UNCHANGED <<stage, outcome, moved, files, rowId, patching, starting,
                 handed, synced, history>>

\* Mutant: what was appended meanwhile is written back, the remainder is not.
PutBackDropsRemainder == drain.live

PutBack == drain.left \o drain.live

\* ... truncates the queue ...
RestoreTruncate ==
  /\ drain.phase = "restoring"
  /\ queue' = [queue EXCEPT ![drain.file] = <<>>]
  /\ blank' = blank \cup {<<"queue", drain.file>>}
  /\ overwritten' = overwritten \cup (CmdsIn(queue[drain.file]) \ CmdsIn(PutBack))
  /\ synced' = [synced EXCEPT !.queue[drain.file] = 0]
  /\ drain' = [drain EXCEPT !.phase = "rewriting"]
  /\ UNCHANGED <<stage, outcome, moved, inflight, draining, cloud, rowId,
                 patching, starting, handed, torn, cutOff, crashes, powerCuts>>

\* ... writes the remainder in front of what it read, over what came in between ...
RestoreWrite ==
  /\ drain.phase = "rewriting"
  /\ queue' = [queue EXCEPT ![drain.file] = PutBack]
  /\ blank' = blank \ {<<"queue", drain.file>>}
  /\ overwritten' = overwritten \cup (CmdsIn(queue[drain.file]) \ CmdsIn(PutBack))
  /\ synced' = [synced EXCEPT !.queue[drain.file] = 0]
  /\ drain' = [drain EXCEPT !.phase = "acking", !.left = <<>>, !.live = <<>>]
  /\ UNCHANGED <<stage, outcome, moved, inflight, draining, cloud, rowId,
                 patching, starting, handed, torn, cutOff, crashes, powerCuts>>

\* ... and removes the rotated file, as it does when everything went up.
Acknowledge ==
  /\ \/ drain.phase = "acking"
     \/ drain.phase = "uploading" /\ drain.left = <<>>
  /\ draining' = [draining EXCEPT ![drain.file] = <<>>]
  /\ blank' = blank \ {<<"draining", drain.file>>}
  /\ synced' = [synced EXCEPT !.draining[drain.file] = 0]
  /\ patching' = IF drain.file = "scheduler" /\ patching.into = "draining"
                   THEN [patching EXCEPT !.into = "gone"] ELSE patching
  /\ drain' = Idle
  /\ UNCHANGED <<stage, outcome, moved, inflight, queue, cloud, rowId, starting,
                 handed, history>>

(***************************************************************************)
(* Crashes. The files stay; what a process held in memory is gone.         *)
(***************************************************************************)
Settled == {"new", "done", "refused", "lost"}
Drop(cmds) == stage' = [c \in Cmd |->
                 IF c \in cmds /\ stage[c] \notin Settled THEN "lost" ELSE stage[c]]

ProxyCrash ==
  /\ crashes < MaxCrashes /\ crashes' = crashes + 1
  /\ Drop(ProxyCmds)
  /\ starting' = TRUE /\ handed' = {}
  /\ UNCHANGED <<outcome, moved, files, rowId, patching, drain, synced,
                 overwritten, torn, cutOff, powerCuts>>

SchedulerCrash ==
  /\ crashes < MaxCrashes /\ crashes' = crashes + 1
  /\ Drop(SchedCmds)
  /\ patching' = NotPatching
  /\ UNCHANGED <<outcome, moved, files, rowId, starting, handed, drain, synced,
                 overwritten, cutOff, powerCuts>>
  /\ torn' = torn \cup LostInHand

IngestCrash ==
  /\ crashes < MaxCrashes /\ crashes' = crashes + 1
  /\ drain' = Idle
  /\ UNCHANGED <<stage, outcome, moved, files, rowId, patching, starting,
                 handed, synced, overwritten, cutOff, powerCuts>>
  /\ torn' = torn \cup LostInHand

\* The kernel writes a file's cached pages to the card. Only a power cut to come
\* can tell the difference.
Writeback(w) ==
  /\ powerCuts < MaxPowerCuts
  /\ synced' = [queue |-> [synced.queue EXCEPT ![w] = Len(queue[w])],
                draining |-> [synced.draining EXCEPT ![w] = Len(draining[w])]]
  /\ synced' # synced
  /\ UNCHANGED <<memory, moved, files, history>>

Longest == Len(queue["proxy"]) + Len(queue["scheduler"])
             + Len(draining["proxy"]) + Len(draining["scheduler"])

\* The lengths files can be left with: what is on the card stays.
Survivors(onCard, file) ==
  {n \in [Writer -> 0..Longest] : \A w \in Writer : n[w] \in onCard[w]..Len(file[w])}

\* The files that are there.
Paths == {f \in {"queue", "draining"} \X Writer :
            IF f[1] = "queue" THEN Queued(f[2]) ELSE Rotated(f[2])}

\* A power cut stops every process and takes rows that were still only in the
\* page cache: nothing flushes appendToBuffer or writeBuffer. A file that loses all its
\* rows may be there without them, or be gone.
PowerCut ==
  /\ powerCuts < MaxPowerCuts /\ powerCuts' = powerCuts + 1
  /\ \E q \in Survivors(synced.queue, queue), d \in Survivors(synced.draining, draining) :
       /\ queue' = [w \in Writer |-> SubSeq(queue[w], 1, q[w])]
       /\ draining' = [w \in Writer |-> SubSeq(draining[w], 1, d[w])]
       /\ synced' = [queue |-> q, draining |-> d]
       /\ blank' \in SUBSET {f \in Paths : IF f[1] = "queue" THEN q[f[2]] = 0
                                                          ELSE d[f[2]] = 0}
  /\ Drop(Cmd)
  /\ starting' = TRUE /\ handed' = {}
  /\ patching' = NotPatching /\ drain' = Idle
  /\ cutOff' = cutOff \cup {c \in Cmd : (InQueues(c) \/ InHand(c)) /\ ~InQueues(c)'}
  /\ UNCHANGED <<outcome, moved, inflight, cloud, rowId, overwritten, torn, crashes>>

ProxyStep(c) ==
  \/ RecordOnEdge(c) \/ RecordFails(c) \/ NoteOnEdge(c)
  \/ SettleAsk(c) \/ SettleUploaded(c) \/ SettleQueue(c) \/ SettleForget(c)
  \/ RecoverOne(c)

SchedulerStep(c) ==
  \/ Insert(c) \/ InsertAnswered(c) \/ InsertRefused(c) \/ InsertBuffered(c)
  \/ NoteRemote(c) \/ PatchRead(c) \/ PatchMissed(c)
  \/ PatchTruncate(c) \/ PatchWrite(c)

IngestStep ==
  \/ \E w \in Writer : Take(w)
  \/ Send \/ SendFails \/ RestoreRead \/ RestoreTruncate \/ RestoreWrite
  \/ Acknowledge

Fault ==
  \/ ProxyCrash \/ SchedulerCrash \/ IngestCrash \/ PowerCut
  \/ \E w \in Writer : Writeback(w)

Next ==
  \/ \E c \in ProxyCmds : ProxyStep(c)
  \/ RecoverDone
  \/ \E c \in SchedCmds : SchedulerStep(c)
  \/ \E c \in Cmd : Dispatch(c)
  \/ IngestStep
  \/ Fault

Spec == Init /\ [][Next]_vars

(***************************************************************************)
(* Fairness. The proxy and the scheduler run their handlers to the end and *)
(* ingest ticks every minute (weak fairness). The cloud refuses or is away *)
(* for as long as it likes but not for ever: an upsert tried again and     *)
(* again is answered in the end (strong fairness of Send). Nothing is      *)
(* assumed of new commands, of crashes or of the cards' writeback.         *)
(***************************************************************************)
Fairness ==
  /\ \A c \in ProxyCmds :
       /\ WF_vars(Dispatch(c)) /\ WF_vars(NoteOnEdge(c)) /\ WF_vars(SettleAsk(c))
       /\ WF_vars(SettleUploaded(c) \/ SettleQueue(c)) /\ WF_vars(SettleForget(c))
       /\ WF_vars(RecoverOne(c))
  /\ WF_vars(RecoverDone)
  /\ \A c \in SchedCmds :
       /\ WF_vars(SchedulerStep(c) /\ stage[c] # "new") /\ WF_vars(Dispatch(c))
  /\ WF_vars(IngestStep)
  /\ \A w \in Writer : SF_vars(Take(w))
  /\ SF_vars(Send)

FairSpec == Spec /\ Fairness

(***************************************************************************)
(* Properties.                                                             *)
(***************************************************************************)

TypeOK ==
  /\ stage \in [Cmd -> Stage]
  /\ outcome \in [Cmd -> {"none", "dispatched", "failed"}]
  /\ moved \subseteq Cmd
  /\ inflight \in [ProxyCmds -> Status \cup {NoRow}]
  /\ queue \in [Writer -> Seq(Row)]
  /\ draining \in [Writer -> Seq(Row)]
  /\ cloud \subseteq Row
  /\ rowId \in [SchedCmds -> {"none", "remote", "buffered"}]
  /\ patching \in [cmd : SchedCmds \cup {NoRow}, entries : Seq(Row),
                  into : {"none", "queue", "draining", "gone"}]
  /\ starting \in BOOLEAN
  /\ handed \subseteq ProxyCmds
  /\ drain \in [phase : Phase, file : Writer, left : Seq(Row), live : Seq(Row)]
  /\ blank \subseteq {"queue", "draining"} \X Writer
  /\ synced \in [queue : [Writer -> Nat], draining : [Writer -> Nat]]
  /\ overwritten \subseteq Cmd
  /\ torn \subseteq Cmd
  /\ cutOff \subseteq Cmd
  /\ crashes \in 0..MaxCrashes
  /\ powerCuts \in 0..MaxPowerCuts

\* What a handler has in memory agrees with what it has put on the edge.
Active == {"recorded", "acted", "noted", "asked", "handed"}
Consistent ==
  /\ \A c \in Cmd : stage[c] = "acted" => outcome[c] # "none"
  /\ \A c \in ProxyCmds : stage[c] \in Active => inflight[c] # NoRow
  /\ starting => \A c \in ProxyCmds : stage[c] \in Settled
  /\ \A c \in SchedCmds : patching.cmd = c => stage[c] = "acted"
  /\ drain.phase \in {"idle", "acking"} => drain.left = <<>>

\* The loss of a row is known: a rewrite dropped it, did not land, or a power cut took it.
LossKnown(c) == c \in overwritten \cup torn \cup cutOff

\* A row of the command is held outside the in-flight file, or its loss is known.
Elsewhere(c) == Copied(c) \/ LossKnown(c)

\* Custody of a row: who lets go of a copy knows of the next one, which is a file, the
\* cloud, or the memory of a process that is rewriting a queue.
\*   - a scheduler's command is queued or in the cloud before its relay is asked;
\*   - a record settle or recoverInflight is about to drop is held elsewhere;
\*   - what ingest has read and not sent is still in the rotated file, in case it stops.
Custody ==
  /\ \A c \in SchedCmds : stage[c] = "recorded" => Elsewhere(c)
  /\ \A c \in ProxyCmds : stage[c] = "handed" => Elsewhere(c)
  /\ \A c \in handed : Elsewhere(c)
  /\ \A c \in moved : Held(c) \/ InHand(c) \/ LossKnown(c)
  /\ \A c \in CmdsIn(drain.left) : c \in CmdsIn(draining[drain.file]) \cup overwritten

IInv == TypeOK /\ Consistent /\ Custody

\* A relay that moved is never forgotten (auditQueue.mjs:152-156), across every crash, with
\* three exceptions the code has. Its row is missing from every file and from the cloud only
\* when another process rewrote a whole queue file between reading and writing it; when a
\* rewrite in place stopped between its truncation and its write, or wrote to a file that
\* ingest had taken meanwhile (ingestBuffer.mjs:31-39); or when a power cut took a row still
\* in the page cache. Between truncation and write only the process that rewrites has it.
ForgottenOnlyByOverwrite ==
  \A c \in moved : Held(c) \/ InHand(c) \/ LossKnown(c)

\* Every copy of a row that counts: in the cloud, in the files, in flight, and in the memory
\* of a rewrite. A rotated file may also hold what ingest has sent.
RowsIn(s) == {s[i] : i \in 1..Len(s)}
Copies ==
  cloud \cup (UNION {RowsIn(queue[w]) \cup RowsIn(Pending(w)) : w \in Writer})
        \cup {Record(c) : c \in {p \in ProxyCmds : inflight[p] # NoRow}}
        \cup {r \in RowsIn(patching.entries) : patching.into # "none"}
        \cup {r \in RowsIn(drain.live) : drain.phase = "rewriting"}
AllRows == Copies \cup UNION {RowsIn(draining[w]) : w \in Writer}

\* No copy of a row, in any file or in the cloud, claims more or less than happened:
\* a row that says `dispatched` is of a relay that moved, one that says `dry_run` of a
\* relay nobody asked, and a person's command reads `dispatching` in the cloud only
\* when its handler was really interrupted (ADR-0014, Consequences).
RowsHonest ==
  \A r \in AllRows : /\ (r.status = "dispatched" => r.cmd \in moved)
                      /\ (r.status = "dry_run" => r.cmd \notin moved)
                      /\ (r \in cloud /\ r.status = "dispatching" /\ r.cmd \in ProxyCmds
                            => stage[r.cmd] = "lost")

\* Once a person's command has been settled, the outcome itself is in the trail, not only
\* the attempt: a later crash or drain does not fall back to a copy that still says
\* `dispatching`. The row goes missing altogether in the three ways named above.
OutcomeKept ==
  \A c \in ProxyCmds \cap Dispatchable :
    stage[c] = "done" => RowOf(c, outcome[c]) \in Copies \/ LossKnown(c)

\* The rotated file is there without a row and nobody is about to write one: ingest finds
\* it, reads nothing and goes on, at every tick, and the queue is not renamed again.
Stuck(w) ==
  /\ <<"draining", w>> \in blank
  /\ ~(w = "scheduler" /\ patching.into = "draining")

\* Everything recorded reaches the cloud in the end, unless a rewrite lost its row or the
\* queue it waits in is stuck behind an empty rotated file.
Delivered ==
  \A c \in Cmd :
    [](Held(c) \/ InHand(c) => <>(InCloud(c) \/ LossKnown(c) \/ Stuck(WriterOf(c))))

\* ingest drains the outage queue every minute (auditQueue.mjs:154-156): a row that waits in
\* the queue is taken out of it in the end. The code does not keep this: a queue file that a
\* power cut or a cut rewrite left without a row is renamed aside empty, and stays.
QueueDrained ==
  \A c \in Cmd : [](c \in CmdsIn(queue[WriterOf(c)]) =>
                     <>(c \notin CmdsIn(queue[WriterOf(c)])))
=============================================================================
