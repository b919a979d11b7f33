-------------------------- MODULE AuditTrailProofs --------------------------
(***************************************************************************)
(* Proofs about AuditTrail, for every set of commands and every number of  *)
(* crashes and power cuts.                                                 *)
(***************************************************************************)
EXTENDS AuditTrail, TLAPS

USE CmdsAssumption, BoundsAssumption

-----------------------------------------------------------------------------
(***************************************************************************)
(* Files as sequences of rows: which commands each operation leaves in one.*)
(***************************************************************************)

\* A file names only commands.
LEMMA CmdsInType ==
  ASSUME NEW s \in Seq(Row)
  PROVE  CmdsIn(s) \subseteq Cmd
<1>1. \A i \in 1..Len(s) : s[i] \in Row
  OBVIOUS
<1>2. QED
  BY <1>1 DEF CmdsIn, Row

\* An empty file names no command.
LEMMA EmptyFile == <<>> \in Seq(Row) /\ Len(<<>>) = 0 /\ CmdsIn(<<>>) = {}
BY DEF CmdsIn

\* Appending a row adds exactly its command.
LEMMA CmdsInAppend ==
  ASSUME NEW s \in Seq(Row), NEW r \in Row
  PROVE  /\ Append(s, r) \in Seq(Row)
         /\ CmdsIn(Append(s, r)) = CmdsIn(s) \cup {r.cmd}
<1>1. /\ Append(s, r) \in Seq(Row)
      /\ Len(Append(s, r)) = Len(s) + 1
      /\ Append(s, r)[Len(s) + 1] = r
      /\ \A i \in 1..Len(s) : Append(s, r)[i] = s[i]
  OBVIOUS
<1>2. 1..(Len(s) + 1) = 1..Len(s) \cup {Len(s) + 1}
  OBVIOUS
<1>3. QED
  BY <1>1, <1>2 DEF CmdsIn

\* Writing one run of rows in front of another keeps the commands of both.
LEMMA CmdsInConcat ==
  ASSUME NEW s \in Seq(Row), NEW t \in Seq(Row)
  PROVE  /\ s \o t \in Seq(Row)
         /\ CmdsIn(s \o t) = CmdsIn(s) \cup CmdsIn(t)
<1>1. /\ s \o t \in Seq(Row)
      /\ Len(s \o t) = Len(s) + Len(t)
      /\ \A i \in 1..Len(s) : (s \o t)[i] = s[i]
      /\ \A i \in 1..Len(t) : (s \o t)[Len(s) + i] = t[i]
  OBVIOUS
<1>2. CmdsIn(s) \subseteq CmdsIn(s \o t)
  BY <1>1 DEF CmdsIn
<1>3. ASSUME NEW i \in 1..Len(t)
      PROVE  t[i].cmd \in CmdsIn(s \o t)
  <2>1. Len(s) + i \in 1..Len(s \o t)
    BY <1>1
  <2>2. (s \o t)[Len(s) + i].cmd = t[i].cmd
    BY <1>1
  <2>3. QED
    BY <2>1, <2>2 DEF CmdsIn
<1>4. ASSUME NEW i \in 1..Len(s \o t)
      PROVE  (s \o t)[i].cmd \in CmdsIn(s) \cup CmdsIn(t)
  <2>1. CASE i \in 1..Len(s)
    BY <1>1, <2>1 DEF CmdsIn
  <2>2. CASE i \notin 1..Len(s)
    <3>1. i - Len(s) \in 1..Len(t) /\ (s \o t)[i] = t[i - Len(s)]
      BY <1>1, <2>2
    <3>2. QED
      BY <3>1 DEF CmdsIn
  <2>3. QED
    BY <2>1, <2>2
<1>5. CmdsIn(t) \subseteq CmdsIn(s \o t)
  BY <1>3 DEF CmdsIn
<1>6. CmdsIn(s \o t) \subseteq CmdsIn(s) \cup CmdsIn(t)
  BY <1>4 DEF CmdsIn
<1>7. QED
  BY <1>1, <1>2, <1>5, <1>6

\* Taking the first row off leaves the commands of the others.
LEMMA CmdsInTail ==
  ASSUME NEW s \in Seq(Row), s # <<>>
  PROVE  /\ Head(s) \in Row /\ Tail(s) \in Seq(Row)
         /\ CmdsIn(s) = {Head(s).cmd} \cup CmdsIn(Tail(s))
<1>1. /\ Head(s) \in Row /\ Tail(s) \in Seq(Row) /\ Head(s) = s[1]
      /\ Len(s) \in Nat /\ Len(s) >= 1 /\ Len(Tail(s)) = Len(s) - 1
      /\ \A i \in 1..(Len(s) - 1) : Tail(s)[i] = s[i + 1]
  OBVIOUS
<1>2. ASSUME NEW i \in 1..Len(s)
      PROVE  s[i].cmd \in {Head(s).cmd} \cup CmdsIn(Tail(s))
  <2>1. CASE i = 1
    BY <1>1, <2>1
  <2>2. CASE i # 1
    <3>1. i - 1 \in 1..Len(Tail(s)) /\ Tail(s)[i - 1] = s[i]
      BY <1>1, <2>2
    <3>2. QED
      BY <3>1 DEF CmdsIn
  <2>3. QED
    BY <2>1, <2>2
<1>3. \A i \in 1..Len(Tail(s)) : i + 1 \in 1..Len(s) /\ Tail(s)[i] = s[i + 1]
  BY <1>1
<1>4. 1 \in 1..Len(s)
  BY <1>1
<1>5. CmdsIn(s) \subseteq {Head(s).cmd} \cup CmdsIn(Tail(s))
  BY <1>2 DEF CmdsIn
<1>6. {Head(s).cmd} \cup CmdsIn(Tail(s)) \subseteq CmdsIn(s)
  BY <1>1, <1>3, <1>4 DEF CmdsIn
<1>7. QED
  BY <1>1, <1>5, <1>6

\* Rewriting one entry's outcome keeps the file's commands.
LEMMA CmdsInPatched ==
  ASSUME NEW s \in Seq(Row), NEW c \in Cmd, outcome[c] \in Status
  PROVE  /\ Patched(s, c) \in Seq(Row)
         /\ CmdsIn(Patched(s, c)) = CmdsIn(s)
<1>1. /\ DOMAIN Patched(s, c) = 1..Len(s)
      /\ \A i \in 1..Len(s) : Patched(s, c)[i] \in Row /\ Patched(s, c)[i].cmd = s[i].cmd
  <2>1. \A i \in 1..Len(s) : s[i] \in Row
    OBVIOUS
  <2>2. RowOf(c, outcome[c]) \in Row /\ RowOf(c, outcome[c]).cmd = c
    BY DEF Row, RowOf
  <2>3. QED
    BY <2>1, <2>2 DEF Patched
<1>2. Patched(s, c) \in Seq(Row) /\ Len(Patched(s, c)) = Len(s)
  <2>1. Patched(s, c) \in [1..Len(s) -> Row]
    BY <1>1 DEF Patched
  <2>2. QED
    BY <2>1
<1>3. QED
  BY <1>1, <1>2 DEF CmdsIn

-----------------------------------------------------------------------------
(***************************************************************************)
(* Types, and the agreement of memory with the files.                      *)
(***************************************************************************)

\* A record in the in-flight file is a row the queue and the cloud can hold.
LEMMA RecordIsRow ==
  ASSUME TypeOK, NEW c \in ProxyCmds, inflight[c] # NoRow
  PROVE  Record(c) \in Row /\ Record(c).cmd = c
BY DEF TypeOK, Record, RowOf, Row, Cmd

LEMMA OpeningIsRow ==
  ASSUME NEW c \in Cmd
  PROVE  /\ Opening(c) \in Status /\ Opening(c) # NoRow
         /\ RowOf(c, Opening(c)) \in Row /\ RowOf(c, Opening(c)).cmd = c
BY DEF Opening, RowOf, Row, Status, NoRow

\* The types of the files and of what a process holds of them, under names the provers need
\* not look into.
FilesType == [Writer -> Seq(Row)]
BlankType == SUBSET ({"queue", "draining"} \X Writer)
DrainType == [phase : Phase, file : Writer, left : Seq(Row), live : Seq(Row)]
PatchType == [cmd : SchedCmds \cup {NoRow}, entries : Seq(Row),
              into : {"none", "queue", "draining", "gone"}]
SyncedType == [queue : [Writer -> Nat], draining : [Writer -> Nat]]

Named ==
  /\ stage \in [Cmd -> Stage]
  /\ outcome \in [Cmd -> {"none", "dispatched", "failed"}]
  /\ moved \subseteq Cmd
  /\ inflight \in [ProxyCmds -> Status \cup {NoRow}]
  /\ queue \in FilesType
  /\ draining \in FilesType
  /\ cloud \subseteq Row
  /\ rowId \in [SchedCmds -> {"none", "remote", "buffered"}]
  /\ patching \in PatchType
  /\ starting \in BOOLEAN
  /\ handed \subseteq ProxyCmds
  /\ drain \in DrainType
  /\ blank \in BlankType
  /\ synced \in SyncedType
  /\ overwritten \subseteq Cmd
  /\ torn \subseteq Cmd
  /\ cutOff \subseteq Cmd
  /\ crashes \in 0..MaxCrashes
  /\ powerCuts \in 0..MaxPowerCuts

LEMMA TypesNamed == (TypeOK <=> Named) /\ (TypeOK' <=> Named')
BY DEF TypeOK, Named, FilesType, BlankType, DrainType, PatchType, SyncedType

\* One write at the end of a queue file keeps the files' type.
LEMMA EnqueueType ==
  ASSUME TypeOK, NEW w \in Writer, NEW r \in Row, Enqueue(w, r)
  PROVE  queue' \in FilesType /\ blank' \in BlankType
BY CmdsInAppend DEF TypeOK, Enqueue, FilesType, BlankType

\* The rows still to send, and the file a restore writes, are rows.
LEMMA DrainRows ==
  ASSUME TypeOK
  PROVE  /\ drain.left \in Seq(Row) /\ drain.live \in Seq(Row)
         /\ PutBack \in Seq(Row)
         /\ CmdsIn(PutBack) = CmdsIn(drain.left) \cup CmdsIn(drain.live)
<1>1. drain.left \in Seq(Row) /\ drain.live \in Seq(Row)
  BY DEF TypeOK
<1>2. QED
  BY <1>1, CmdsInConcat DEF PutBack

\* A drain begins with the rows it has read.
LEMMA UploadingType ==
  ASSUME NEW w \in Writer, NEW s \in Seq(Row)
  PROVE  /\ Uploading(w, s) \in DrainType
         /\ Uploading(w, s).left = s /\ Uploading(w, s).live = <<>>
         /\ Uploading(w, s).phase \in {"idle", "uploading"}
         /\ Uploading(w, s).phase = "idle" <=> s = <<>>
         /\ Uploading(w, s).phase # "idle" => Uploading(w, s).file = w
BY EmptyFile DEF Uploading, Idle, DrainType, Phase, Writer

\* An answered command's outcome is a row's status.
LEMMA OutcomeIsRow ==
  ASSUME TypeOK, Consistent, NEW c \in Cmd, stage[c] = "acted"
  PROVE  /\ outcome[c] \in Status
         /\ RowOf(c, outcome[c]) \in Row /\ RowOf(c, outcome[c]).cmd = c
BY DEF TypeOK, Consistent, RowOf, Row, Status

LEMMA TypesInit == Init => TypeOK /\ Consistent
<1> SUFFICES ASSUME Init PROVE TypeOK /\ Consistent
  OBVIOUS
<1>1. /\ queue \in [Writer -> Seq(Row)] /\ draining \in [Writer -> Seq(Row)]
      /\ synced \in [queue : [Writer -> Nat], draining : [Writer -> Nat]]
  BY EmptyFile DEF Init, Quiet
<1>2. /\ drain \in DrainType /\ drain.left = <<>>
      /\ patching \in PatchType
      /\ patching.cmd = NoRow
  BY EmptyFile DEF Init, Quiet, Idle, NotPatching, Phase, Writer, DrainType, PatchType
<1>3. stage \in [Cmd -> Stage] /\ \A c \in Cmd : stage[c] = "new"
  BY DEF Init, Quiet, Stage
<1>4. /\ outcome \in [Cmd -> {"none", "dispatched", "failed"}]
      /\ inflight \in [ProxyCmds -> Status \cup {NoRow}]
      /\ rowId \in [SchedCmds -> {"none", "remote", "buffered"}]
  BY DEF Init, Quiet
<1>5. TypeOK
  <2>1. /\ moved \subseteq Cmd /\ cloud \subseteq Row /\ handed \subseteq ProxyCmds
        /\ overwritten \subseteq Cmd /\ cutOff \subseteq Cmd /\ torn \subseteq Cmd
        /\ blank \subseteq {"queue", "draining"} \X Writer
    BY DEF Init, Quiet
  <2>2. crashes \in 0..MaxCrashes /\ powerCuts \in 0..MaxPowerCuts
    BY DEF Init, Quiet
  <2>3. starting \in BOOLEAN
    BY Zenon DEF Init, Quiet
  <2>4. QED
    BY <1>1, <1>2, <1>3, <1>4, <2>1, <2>2, <2>3 DEF TypeOK, DrainType, PatchType
<1>6. Consistent
  BY <1>2, <1>3 DEF Init, Quiet, Consistent, Active, Settled, Cmd
<1>7. QED
  BY <1>5, <1>6

\* Every step keeps the types and the agreement.
LEMMA TypesStep ==
  ASSUME IInv, [Next]_vars
  PROVE  TypeOK' /\ Consistent'
<1> USE DEF IInv, files, memory, history
<1>a. TypeOK /\ Named /\ Consistent /\ Custody
  BY TypesNamed
<1>1. ASSUME NEW c \in ProxyCmds, RecordOnEdge(c)
      PROVE  Named' /\ Consistent'
  BY <1>a, <1>1, OpeningIsRow DEF RecordOnEdge, Named, Consistent, Active, Settled, Stage, Goto, Cmd, ProxyFree
<1>2. ASSUME NEW c \in ProxyCmds, RecordFails(c)
      PROVE  Named' /\ Consistent'
  BY <1>a, <1>2 DEF RecordFails, Named, Consistent, Active, Settled, Stage, Goto, Cmd, ProxyFree
<1>3. ASSUME NEW c \in ProxyCmds, NoteOnEdge(c)
      PROVE  Named' /\ Consistent'
  BY <1>a, <1>3 DEF NoteOnEdge, Named, Consistent, Active, Settled, Stage, Goto, Cmd, ProxyFree, NoRow, Status
<1>4. ASSUME NEW c \in ProxyCmds, SettleAsk(c)
      PROVE  Named' /\ Consistent'
  <2>1. cloud' \subseteq Row
    BY <1>a, <1>4, RecordIsRow DEF SettleAsk, Named, Consistent, Active
  <2>2. QED
    BY <1>a, <1>4, <2>1 DEF SettleAsk, Named, Consistent, Active, Settled, Stage, Goto, Cmd, ProxyFree
<1>5. ASSUME NEW c \in ProxyCmds, SettleUploaded(c)
      PROVE  Named' /\ Consistent'
  BY <1>a, <1>5 DEF SettleUploaded, Named, Consistent, Active, Settled, Stage, Goto, Cmd, ProxyFree
<1>6. ASSUME NEW c \in ProxyCmds, SettleQueue(c)
      PROVE  Named' /\ Consistent'
  <2>1. queue' \in FilesType /\ blank' \in BlankType
    BY <1>a, <1>6, RecordIsRow, EnqueueType DEF SettleQueue, Consistent, Active, Writer
  <2>2. QED
    BY <1>a, <1>6, <2>1 DEF SettleQueue, Named, Consistent, Active, Settled, Stage, Goto, Cmd, ProxyFree
<1>7. ASSUME NEW c \in ProxyCmds, SettleForget(c)
      PROVE  Named' /\ Consistent'
  BY <1>a, <1>7 DEF SettleForget, Named, Consistent, Active, Settled, Stage, Goto, Cmd
<1>8. ASSUME NEW c \in ProxyCmds, RecoverOne(c)
      PROVE  Named' /\ Consistent'
  <2>1. queue' \in FilesType /\ blank' \in BlankType
    BY <1>a, <1>8, RecordIsRow, EnqueueType DEF RecoverOne, Writer
  <2>2. handed' \subseteq ProxyCmds
    BY <1>a, <1>8 DEF RecoverOne, TypeOK
  <2>3. QED
    BY <1>a, <1>8, <2>1, <2>2 DEF RecoverOne, Named, Consistent
<1>9. ASSUME RecoverDone
      PROVE  Named' /\ Consistent'
  BY <1>a, <1>9 DEF RecoverDone, Named, Consistent, Active, Settled, Stage, Goto, Cmd
<1>10. ASSUME NEW c \in SchedCmds, Insert(c)
      PROVE  Named' /\ Consistent'
  BY <1>a, <1>10, OpeningIsRow
     DEF Insert, Named, Consistent, Active, Settled, Stage, Goto, Cmd, SchedulerFree, NotPatching
<1>11. ASSUME NEW c \in SchedCmds, InsertAnswered(c)
      PROVE  Named' /\ Consistent'
  BY <1>a, <1>11
     DEF InsertAnswered, Named, Consistent, Active, Settled, Stage, Goto, Cmd, SchedulerFree, NotPatching,
         Recorded
<1>12. ASSUME NEW c \in SchedCmds, InsertRefused(c)
      PROVE  Named' /\ Consistent'
  BY <1>a, <1>12
     DEF InsertRefused, Named, Consistent, Active, Settled, Stage, Goto, Cmd, SchedulerFree, NotPatching
<1>13. ASSUME NEW c \in SchedCmds, InsertBuffered(c)
      PROVE  Named' /\ Consistent'
  <2>1. queue' \in FilesType /\ blank' \in BlankType
    BY <1>a, <1>13, OpeningIsRow, EnqueueType DEF InsertBuffered, Writer, Cmd
  <2>2. \E st \in {"recorded", "done"} : stage' = [stage EXCEPT ![c] = st]
    BY <1>13 DEF InsertBuffered, Recorded, Goto
  <2>3. rowId' = [rowId EXCEPT ![c] = "buffered"]
    BY <1>13 DEF InsertBuffered, Recorded
  <2>4. stage' \in [Cmd -> Stage] /\ rowId' \in [SchedCmds -> {"none", "remote", "buffered"}]
    <3>1. stage \in [Cmd -> Stage] /\ rowId \in [SchedCmds -> {"none", "remote", "buffered"}]
      BY <1>a DEF TypeOK
    <3>2. {"recorded", "done"} \subseteq Stage
      BY DEF Stage
    <3>3. QED
      BY <2>2, <2>3, <3>1, <3>2
  <2>5. UNCHANGED <<outcome, moved, inflight, draining, cloud, patching, starting, handed, drain, synced,
                    overwritten, torn, cutOff, crashes, powerCuts>>
    BY <1>13 DEF InsertBuffered
  <2>6. Named'
    BY <1>a, <2>1, <2>4, <2>5 DEF Named
  <2>7. patching.cmd = NoRow
    BY <1>13 DEF InsertBuffered, SchedulerFree, NotPatching
  <2>8. Consistent'
    BY <1>a, <2>2, <2>5, <2>7 DEF Named, Consistent, Active, Settled, Cmd
  <2>9. QED
    BY <2>6, <2>8
<1>14. ASSUME NEW c \in SchedCmds, NoteRemote(c)
      PROVE  Named' /\ Consistent'
  <2>1. cloud' \subseteq Row
    <3>1. cloud \subseteq Row /\ RowOf(c, outcome[c]) \in Row
      BY <1>a, <1>14, OutcomeIsRow DEF NoteRemote, Named, Cmd
    <3>2. QED
      BY <1>14, <3>1 DEF NoteRemote
  <2>2. QED
    BY <1>a, <1>14, <2>1
       DEF NoteRemote, Named, Consistent, Active, Settled, Stage, Goto, Cmd, SchedulerFree, NotPatching
<1>15. ASSUME NEW c \in SchedCmds, PatchRead(c)
      PROVE  Named' /\ Consistent'
  <2>1. patching' \in PatchType /\ patching'.cmd = c
    BY <1>a, <1>15 DEF PatchRead, TypeOK, PatchType, Writer
  <2>2. QED
    BY <1>a, <1>15, <2>1 DEF PatchRead, Named, Consistent
<1>16. ASSUME NEW c \in SchedCmds, PatchMissed(c)
      PROVE  Named' /\ Consistent'
  BY <1>a, <1>16
     DEF PatchMissed, Named, Consistent, Active, Settled, Stage, Goto, Cmd, SchedulerFree, NotPatching
<1>17. ASSUME NEW c \in SchedCmds, PatchTruncate(c)
      PROVE  Named' /\ Consistent'
  <2>1. queue' \in FilesType
    BY <1>a, <1>17, EmptyFile DEF PatchTruncate, TypeOK, FilesType
  <2>2. synced' \in SyncedType
    BY <1>a, <1>17 DEF PatchTruncate, TypeOK, SyncedType
  <2>3. overwritten' \subseteq Cmd /\ blank' \in BlankType
    BY <1>a, <1>17, CmdsInType DEF PatchTruncate, TypeOK, Writer, BlankType
  <2>4. patching' \in PatchType /\ patching'.cmd = patching.cmd
    BY <1>a, <1>17 DEF PatchTruncate, TypeOK, PatchType
  <2>5. QED
    BY <1>a, <1>17, <2>1, <2>2, <2>3, <2>4 DEF PatchTruncate, Named, Consistent
<1>32. ASSUME NEW c \in SchedCmds, PatchWrite(c)
      PROVE  Named' /\ Consistent'
  <2>1. c \in Cmd /\ stage[c] = "acted" /\ patching.entries \in Seq(Row)
    BY <1>a, <1>32 DEF PatchWrite, TypeOK, Consistent, Cmd
  <2>2. Patched(patching.entries, c) \in Seq(Row)
    BY <1>a, <2>1, OutcomeIsRow, CmdsInPatched
  <2>3. queue' \in FilesType /\ draining' \in FilesType
    <3>1. /\ queue' \in {queue, [queue EXCEPT !["scheduler"] = Patched(patching.entries, c)]}
          /\ draining' \in {draining, [draining EXCEPT !["scheduler"] = Patched(patching.entries, c)]}
      BY <1>32 DEF PatchWrite
    <3>2. QED
      BY <1>a, <2>2, <3>1 DEF TypeOK, Writer, FilesType, BlankType
  <2>4. synced' \in SyncedType
    <3>1. synced' \in {synced, [synced EXCEPT !.queue["scheduler"] = 0],
                      [synced EXCEPT !.draining["scheduler"] = 0]}
      BY <1>32 DEF PatchWrite
    <3>2. synced \in SyncedType /\ "scheduler" \in Writer
      BY <1>a DEF TypeOK, SyncedType, Writer
    <3>3. [synced EXCEPT !.queue["scheduler"] = 0] \in SyncedType
      BY <3>2 DEF SyncedType
    <3>4. [synced EXCEPT !.draining["scheduler"] = 0] \in SyncedType
      BY <3>2 DEF SyncedType
    <3>5. QED
      BY <3>1, <3>2, <3>3, <3>4
  <2>5. overwritten' \subseteq Cmd
    BY <1>a, <1>32, CmdsInType DEF PatchWrite, TypeOK, Writer
  <2>6. torn' \subseteq Cmd /\ blank' \in BlankType
    BY <1>a, <1>32 DEF PatchWrite, TypeOK, LostInHand, BlankType
  <2>7. patching' \in PatchType /\ patching'.cmd = NoRow
    BY <1>32, EmptyFile DEF PatchWrite, NotPatching, PatchType
  <2>8. QED
    BY <1>a, <1>32, <2>1, <2>3, <2>4, <2>5, <2>6, <2>7
       DEF PatchWrite, Named, Consistent, Active, Settled, Stage, Goto, Cmd
<1>18. ASSUME NEW c \in Cmd, Dispatch(c)
      PROVE  Named' /\ Consistent'
  BY <1>a, <1>18
     DEF Dispatch, ProxyFree, SchedulerFree, NotPatching, Named, Consistent, Active, Settled, Stage, Goto,
         Cmd
<1>19. ASSUME NEW w \in Writer, Take(w)
      PROVE  Named' /\ Consistent'
  <2>a. queue[w] \in Seq(Row) /\ draining[w] \in Seq(Row)
    BY <1>a DEF TypeOK
  <2>1. synced' \in SyncedType
    <3>1. CASE synced' = synced
      BY <1>a, <3>1 DEF TypeOK, SyncedType
    <3>2. CASE synced' = [queue |-> [synced.queue EXCEPT ![w] = 0],
                          draining |-> [synced.draining EXCEPT ![w] = synced.queue[w]]]
      BY <1>a, <1>19, <3>2 DEF TypeOK, SyncedType
    <3>3. QED
      BY <1>19, <3>1, <3>2 DEF Take, Rename
  <2>2. drain' \in DrainType /\ (drain'.phase \in {"idle", "acking"} => drain'.left = <<>>)
    <3>1. PICK s \in Seq(Row) : drain' = Uploading(w, s)
      BY <1>19, <2>a DEF Take, Rename
    <3>2. QED
      BY <3>1, UploadingType
  <2>b. UNCHANGED <<queue, draining, patching>> \/ Rename(w)
    BY <1>19 DEF Take
  <2>3. queue' \in FilesType /\ draining' \in FilesType
    <3>1. CASE UNCHANGED <<queue, draining, patching>>
      BY <1>a, <3>1 DEF Named
    <3>2. CASE Rename(w)
      BY <1>a, <2>a, <3>2, EmptyFile DEF Rename, TypeOK, FilesType
    <3>3. QED
      BY <2>b, <3>1, <3>2
  <2>4. patching' \in PatchType /\ patching'.cmd = patching.cmd
    <3>1. CASE UNCHANGED <<queue, draining, patching>>
      BY <1>a, <3>1 DEF TypeOK, PatchType
    <3>2. CASE Rename(w)
      <4>1. patching' \in {patching, [patching EXCEPT !.into = "draining"]}
        BY <3>2 DEF Rename
      <4>2. QED
        BY <1>a, <4>1 DEF TypeOK, PatchType, FilesType, BlankType
    <3>3. QED
      BY <2>b, <3>1, <3>2
  <2>5. blank' \in BlankType
    BY <1>a, <1>19 DEF Take, Rename, TypeOK, BlankType
  <2>6. UNCHANGED <<stage, outcome, moved, inflight, cloud, rowId, starting, handed, overwritten,
                    torn, cutOff, crashes, powerCuts>>
    BY <1>19 DEF Take
  <2>7. QED
    BY <1>a, <2>1, <2>2, <2>3, <2>4, <2>5, <2>6 DEF Named, Consistent
<1>20. ASSUME Send \/ SendFails
      PROVE  Named' /\ Consistent'
  <2>a. /\ drain.left \in Seq(Row) /\ drain.left # <<>>
        /\ Head(drain.left) \in Row /\ Tail(drain.left) \in Seq(Row)
    BY <1>a, <1>20, DrainRows, CmdsInTail DEF Send, SendFails
  <2>1. cloud' \subseteq Row
    BY <1>a, <1>20, <2>a DEF Send, SendFails, TypeOK
  <2>2. drain' \in DrainType /\ drain'.phase \in {"uploading", "failed"}
    BY <1>a, <1>20, <2>a DEF Send, SendFails, TypeOK, DrainType, Phase
  <2>3. UNCHANGED <<stage, outcome, moved, inflight, queue, draining, blank, rowId, patching, starting,
                    handed, synced, overwritten, torn, cutOff, crashes, powerCuts>>
    BY <1>20 DEF Send, SendFails
  <2>4. QED
    BY <1>a, <2>1, <2>2, <2>3 DEF Named, Consistent
<1>22. ASSUME RestoreRead
      PROVE  Named' /\ Consistent'
  <2>1. drain' \in DrainType /\ drain'.phase = "restoring"
    BY <1>a, <1>22 DEF RestoreRead, TypeOK, DrainType, Phase
  <2>2. QED
    BY <1>a, <1>22, <2>1 DEF RestoreRead, Named, Consistent
<1>21. ASSUME RestoreTruncate
      PROVE  Named' /\ Consistent'
  <2>1. queue' \in FilesType
    BY <1>a, <1>21, EmptyFile DEF RestoreTruncate, TypeOK, FilesType
  <2>2. synced' \in SyncedType
    BY <1>a, <1>21 DEF RestoreTruncate, TypeOK, SyncedType
  <2>3. overwritten' \subseteq Cmd /\ blank' \in BlankType
    BY <1>a, <1>21, CmdsInType DEF RestoreTruncate, TypeOK, BlankType
  <2>4. drain' \in DrainType /\ drain'.phase = "rewriting"
    BY <1>a, <1>21 DEF RestoreTruncate, TypeOK, DrainType, Phase
  <2>5. QED
    BY <1>a, <1>21, <2>1, <2>2, <2>3, <2>4 DEF RestoreTruncate, Named, Consistent
<1>23. ASSUME RestoreWrite
      PROVE  Named' /\ Consistent'
  <2>1. queue' \in FilesType
    BY <1>a, <1>23, DrainRows DEF RestoreWrite, TypeOK, FilesType
  <2>2. synced' \in SyncedType
    BY <1>a, <1>23 DEF RestoreWrite, TypeOK, SyncedType
  <2>3. overwritten' \subseteq Cmd /\ blank' \in BlankType
    BY <1>a, <1>23, CmdsInType DEF RestoreWrite, TypeOK, BlankType
  <2>4. drain' \in DrainType /\ drain'.left = <<>>
    BY <1>a, <1>23, EmptyFile DEF RestoreWrite, TypeOK, Phase, DrainType
  <2>5. QED
    BY <1>a, <1>23, <2>1, <2>2, <2>3, <2>4 DEF RestoreWrite, Named, Consistent
<1>24. ASSUME Acknowledge
      PROVE  Named' /\ Consistent'
  <2>1. synced' \in SyncedType
    BY <1>a, <1>24 DEF Acknowledge, TypeOK, SyncedType
  <2>2. drain' \in DrainType /\ drain'.left = <<>>
    BY <1>a, <1>24, EmptyFile DEF Acknowledge, Idle, Phase, Writer, DrainType
  <2>3. draining' \in FilesType
    BY <1>a, <1>24, EmptyFile DEF Acknowledge, TypeOK, FilesType
  <2>4. patching' \in PatchType /\ patching'.cmd = patching.cmd
    BY <1>a, <1>24 DEF Acknowledge, TypeOK, PatchType
  <2>5. blank' \in BlankType
    BY <1>a, <1>24 DEF Acknowledge, TypeOK, BlankType
  <2>6. QED
    BY <1>a, <1>24, <2>1, <2>2, <2>3, <2>4, <2>5 DEF Acknowledge, Named, Consistent
<1>25. ASSUME ProxyCrash
      PROVE  Named' /\ Consistent'
  BY <1>a, <1>25 DEF ProxyCrash, Named, Consistent, Active, Settled, Stage, Goto, Cmd, Drop
<1>26. ASSUME SchedulerCrash
      PROVE  Named' /\ Consistent'
  <2>1. patching' \in PatchType /\ patching'.cmd = NoRow /\ torn' \subseteq Cmd
    BY <1>a, <1>26, EmptyFile
       DEF SchedulerCrash, NotPatching, PatchType, LostInHand, TypeOK
  <2>2. QED
    BY <1>a, <1>26, <2>1 DEF SchedulerCrash, Named, Consistent, Active, Settled, Stage, Cmd, Drop
<1>27. ASSUME IngestCrash
      PROVE  Named' /\ Consistent'
  <2>1. drain' \in DrainType /\ drain'.left = <<>> /\ torn' \subseteq Cmd
    BY <1>a, <1>27, EmptyFile
       DEF IngestCrash, Idle, Phase, Writer, DrainType, LostInHand, TypeOK
  <2>2. QED
    BY <1>a, <1>27, <2>1 DEF IngestCrash, Named, Consistent, Active, Settled, Stage, Cmd
<1>28. ASSUME PowerCut
      PROVE  Named' /\ Consistent'
  <2>1. PICK q \in [Writer -> 0..Longest], d \in [Writer -> 0..Longest] :
          /\ \A w \in Writer : /\ q[w] \in synced.queue[w]..Len(queue[w])
                               /\ d[w] \in synced.draining[w]..Len(draining[w])
          /\ queue' = [w \in Writer |-> SubSeq(queue[w], 1, q[w])]
          /\ draining' = [w \in Writer |-> SubSeq(draining[w], 1, d[w])]
          /\ synced' = [queue |-> q, draining |-> d]
    BY <1>28 DEF PowerCut, Survivors
  <2>2. ASSUME NEW w \in Writer
        PROVE  /\ q[w] \in Nat /\ SubSeq(queue[w], 1, q[w]) \in Seq(Row)
               /\ d[w] \in Nat /\ SubSeq(draining[w], 1, d[w]) \in Seq(Row)
    <3>1. /\ queue[w] \in Seq(Row) /\ draining[w] \in Seq(Row)
          /\ synced.queue[w] \in Nat /\ synced.draining[w] \in Nat
      BY <1>a, <2>2 DEF TypeOK
    <3>2. q[w] \in 0..Len(queue[w]) /\ d[w] \in 0..Len(draining[w])
      BY <2>1, <2>2, <3>1
    <3>3. QED
      BY <3>1, <3>2
  <2>3. queue' \in FilesType /\ draining' \in FilesType
    BY <2>1, <2>2 DEF FilesType
  <2>4. synced' \in SyncedType
    <3>1. q \in [Writer -> Nat] /\ d \in [Writer -> Nat]
      BY <2>1, <2>2
    <3>2. QED
      BY <2>1, <3>1 DEF SyncedType
  <2>5. /\ stage' \in [Cmd -> Stage]
        /\ \A c \in Cmd : stage'[c] \in Settled
    BY <1>a, <1>28 DEF PowerCut, TypeOK, Drop, Stage, Settled
  <2>6. /\ drain' \in DrainType /\ drain'.left = <<>>
        /\ patching' \in PatchType
        /\ patching'.cmd = NoRow
    BY <1>28, EmptyFile DEF PowerCut, Idle, NotPatching, Phase, Writer, DrainType, PatchType
  <2>7. /\ cutOff' \subseteq Cmd /\ powerCuts' \in 0..MaxPowerCuts
        /\ handed' = {} /\ starting' = TRUE
        /\ UNCHANGED <<outcome, moved, inflight, cloud, rowId, overwritten, torn, crashes>>
    BY <1>a, <1>28 DEF PowerCut, TypeOK
  <2>b. blank' \in BlankType
    BY <1>28 DEF PowerCut, Paths, BlankType
  <2>8. Named'
    BY <1>a, <2>3, <2>4, <2>5, <2>6, <2>7, <2>b DEF Named
  <2>9. Consistent'
    BY <2>5, <2>6, <2>7 DEF Consistent, Active, Settled, Cmd
  <2>10. QED
    BY <2>8, <2>9
<1>29. ASSUME NEW w \in Writer, Writeback(w)
      PROVE  Named' /\ Consistent'
  <2>1. synced' \in SyncedType
    <3>1. \A v \in Writer : Len(queue[v]) \in Nat /\ Len(draining[v]) \in Nat
      BY <1>a DEF TypeOK
    <3>2. QED
      BY <1>a, <1>29, <3>1 DEF Writeback, TypeOK, SyncedType, FilesType, BlankType
  <2>2. QED
    BY <1>a, <1>29, <2>1 DEF Writeback, Named, Consistent
<1>30. ASSUME UNCHANGED vars
      PROVE  Named' /\ Consistent'
  BY <1>a, <1>30 DEF vars, Named, Consistent, Active, Settled, Stage, Goto, Cmd
<1>31. Named' /\ Consistent'
  <2>1. CASE \E c \in ProxyCmds : ProxyStep(c)
    BY <1>1, <1>2, <1>3, <1>4, <1>5, <1>6, <1>7, <1>8, <2>1 DEF ProxyStep
  <2>2. CASE \E c \in SchedCmds : SchedulerStep(c)
    BY <1>10, <1>11, <1>12, <1>13, <1>14, <1>15, <1>16, <1>17, <1>32, <2>2 DEF SchedulerStep
  <2>3. CASE IngestStep
    BY <1>19, <1>20, <1>21, <1>22, <1>23, <1>24, <2>3 DEF IngestStep
  <2>4. CASE Fault
    BY <1>25, <1>26, <1>27, <1>28, <1>29, <2>4 DEF Fault
  <2>5. QED
    BY <1>9, <1>18, <1>30, <2>1, <2>2, <2>3, <2>4 DEF Next
<1>33. QED
  BY <1>31, TypesNamed

-----------------------------------------------------------------------------
(***************************************************************************)
(* Custody: no step lets go of the only copy outside the in-flight file.   *)
(***************************************************************************)

\* A loss that is known stays known, and a command in the table stays in it.
LEMMA LossStays ==
  ASSUME IInv, [Next]_vars
  PROVE  /\ overwritten \subseteq overwritten' /\ torn \subseteq torn' /\ cutOff \subseteq cutOff'
         /\ \A k \in Cmd : InCloud(k) => InCloud(k)'
<1>1. ASSUME NEW c \in ProxyCmds, ProxyStep(c)
      PROVE  UNCHANGED <<overwritten, torn, cutOff>> /\ cloud \subseteq cloud'
  BY <1>1 DEF ProxyStep, RecordOnEdge, RecordFails, NoteOnEdge, SettleAsk, SettleUploaded,
       SettleQueue, SettleForget, RecoverOne, files, history
<1>2. ASSUME NEW c \in SchedCmds, SchedulerStep(c)
      PROVE  /\ overwritten \subseteq overwritten' /\ torn \subseteq torn' /\ cutOff' = cutOff
             /\ \A r \in cloud : \E t \in cloud' : t.cmd = r.cmd
  BY <1>2 DEF SchedulerStep, Insert, InsertAnswered, InsertRefused, InsertBuffered, NoteRemote,
       PatchRead, PatchMissed, PatchTruncate, PatchWrite, RowOf, files, history
<1>3. ASSUME IngestStep
      PROVE  /\ overwritten \subseteq overwritten' /\ UNCHANGED <<torn, cutOff>>
             /\ cloud \subseteq cloud'
  BY <1>3 DEF IngestStep, Take, Send, SendFails, RestoreRead, RestoreTruncate, RestoreWrite,
       Acknowledge, files, history
<1>4. ASSUME RecoverDone \/ Fault \/ (\E c \in Cmd : Dispatch(c)) \/ UNCHANGED vars
      PROVE  /\ overwritten' = overwritten /\ torn \subseteq torn' /\ cutOff \subseteq cutOff'
             /\ cloud' = cloud
  BY <1>4 DEF RecoverDone, Fault, ProxyCrash, SchedulerCrash, IngestCrash, PowerCut, Writeback,
       Dispatch, vars, files, history
<1>5. /\ overwritten \subseteq overwritten' /\ torn \subseteq torn' /\ cutOff \subseteq cutOff'
      /\ \A r \in cloud : \E t \in cloud' : t.cmd = r.cmd
  <2>1. CASE \E c \in ProxyCmds : ProxyStep(c)
    BY <1>1, <2>1
  <2>2. CASE \E c \in SchedCmds : SchedulerStep(c)
    BY <1>2, <2>2
  <2>3. CASE IngestStep
    BY <1>3, <2>3
  <2>4. CASE RecoverDone \/ Fault \/ (\E c \in Cmd : Dispatch(c)) \/ UNCHANGED vars
    BY <1>4, <2>4
  <2>5. QED
    BY <2>1, <2>2, <2>3, <2>4, Zenon DEF Next
<1>6. QED
  BY <1>5 DEF InCloud

\* The scheduler's rewrite keeps the commands it has read.
LEMMA PatchedCmds ==
  ASSUME IInv, NEW c \in SchedCmds, PatchWrite(c)
  PROVE  /\ c \in Cmd /\ patching.entries \in Seq(Row)
         /\ CmdsIn(Patched(patching.entries, c)) = CmdsIn(patching.entries)
BY OutcomeIsRow, CmdsInPatched DEF IInv, PatchWrite, TypeOK, Consistent, Cmd

\* A row in an outage queue is after every step in a file, in the cloud or in the hand of
\* the process that rewrites the queue, or its loss is known.
LEMMA QueueStays ==
  ASSUME IInv, TypeOK', [Next]_vars, NEW k \in Cmd, NEW v \in Writer, k \in CmdsIn(queue[v])
  PROVE  Elsewhere(k)'
<1> USE DEF IInv
<1>a. TypeOK /\ Consistent /\ queue \in [Writer -> Seq(Row)] /\ draining \in [Writer -> Seq(Row)]
  BY DEF TypeOK
<1>1. CASE queue' = queue
  BY <1>1 DEF Elsewhere, Copied, InQueues
<1>2. ASSUME NEW w \in Writer, NEW r \in Row, Enqueue(w, r)
      PROVE  Elsewhere(k)'
  <2>1. CmdsIn(queue[v]) \subseteq CmdsIn(queue'[v])
    BY <1>2, <1>a, CmdsInAppend DEF Enqueue
  <2>2. QED
    BY <2>1 DEF Elsewhere, Copied, InQueues
<1>3. ASSUME NEW c \in SchedCmds, PatchTruncate(c)
      PROVE  Elsewhere(k)'
  <2>1. CASE v # "scheduler"
    BY <1>3, <1>a, <2>1 DEF PatchTruncate, Elsewhere, Copied, InQueues
  <2>2. CASE v = "scheduler" /\ k \in CmdsIn(patching.entries)
    <3>1. patching'.into = "queue" /\ patching'.entries = patching.entries
      BY <1>3, <1>a DEF PatchTruncate, TypeOK
    <3>2. QED
      BY <3>1, <2>2 DEF Elsewhere, Copied, InHand
  <2>3. CASE v = "scheduler" /\ k \notin CmdsIn(patching.entries)
    BY <1>3, <2>3 DEF PatchTruncate, Elsewhere, LossKnown
  <2>4. QED
    BY <2>1, <2>2, <2>3
<1>4. ASSUME NEW c \in SchedCmds, PatchWrite(c), queue' # queue
      PROVE  Elsewhere(k)'
  <2>1. /\ queue' = [queue EXCEPT !["scheduler"] = Patched(patching.entries, c)]
        /\ overwritten' = overwritten \cup (CmdsIn(queue["scheduler"]) \ CmdsIn(patching.entries))
    BY <1>4 DEF PatchWrite
  <2>2. k \in CmdsIn(queue'[v]) \/ k \in overwritten'
    BY <1>4, <1>a, <2>1, PatchedCmds
  <2>3. QED
    BY <2>2 DEF Elsewhere, Copied, InQueues, LossKnown
<1>5. ASSUME NEW w \in Writer, Take(w), queue' # queue
      PROVE  Elsewhere(k)'
  <2>1. Rename(w)
    BY <1>5 DEF Take
  <2>2. CASE v # w
    BY <1>a, <2>1, <2>2 DEF Rename, Elsewhere, Copied, InQueues
  <2>3. CASE v = w
    <3>1. drain' = Uploading(v, queue[v]) /\ draining'[v] = queue[v]
      BY <1>a, <2>1, <2>3 DEF Rename
    <3>2. k \in CmdsIn(Pending(v)')
      BY <1>a, <3>1, UploadingType DEF Pending
    <3>3. QED
      BY <3>2 DEF Elsewhere, Copied, InQueues
  <2>4. QED
    BY <2>2, <2>3
<1>6. ASSUME RestoreTruncate
      PROVE  Elsewhere(k)'
  <2>1. /\ drain'.phase = "rewriting" /\ UNCHANGED <<drain.file, drain.left, drain.live>>
        /\ drain.file \in Writer
    BY <1>6, <1>a DEF RestoreTruncate, TypeOK
  <2>2. CASE v # drain.file
    BY <1>6, <1>a, <2>2 DEF RestoreTruncate, Elsewhere, Copied, InQueues
  <2>3. CASE v = drain.file /\ k \notin CmdsIn(PutBack)
    BY <1>6, <2>3 DEF RestoreTruncate, Elsewhere, LossKnown
  <2>4. CASE v = drain.file /\ k \in CmdsIn(drain.left)
    <3>1. k \in CmdsIn(Pending(v)')
      BY <2>1, <2>4 DEF Pending
    <3>2. QED
      BY <3>1 DEF Elsewhere, Copied, InQueues
  <2>5. CASE v = drain.file /\ k \in CmdsIn(drain.live)
    BY <2>1, <2>5 DEF Elsewhere, Copied, InHand
  <2>6. QED
    BY <1>a, <2>2, <2>3, <2>4, <2>5, DrainRows
<1>7. ASSUME RestoreWrite
      PROVE  Elsewhere(k)'
  <2>1. k \in CmdsIn(queue'[v]) \/ k \in overwritten'
    BY <1>7, <1>a DEF RestoreWrite
  <2>2. QED
    BY <2>1 DEF Elsewhere, Copied, InQueues, LossKnown
<1>8. ASSUME PowerCut
      PROVE  Elsewhere(k)'
  BY <1>8 DEF PowerCut, Elsewhere, Copied, InQueues, LossKnown
<1>9. ASSUME NEW c \in ProxyCmds, ProxyStep(c)
      PROVE  Elsewhere(k)'
  BY <1>1, <1>2, <1>9, <1>a, RecordIsRow
     DEF ProxyStep, RecordOnEdge, RecordFails, NoteOnEdge, SettleAsk, SettleUploaded, SettleQueue,
         SettleForget, RecoverOne, files, Writer, Consistent, Active
<1>10. ASSUME NEW c \in SchedCmds, SchedulerStep(c)
       PROVE  Elsewhere(k)'
  <2>1. CASE InsertBuffered(c)
    <3>1. RowOf(c, Opening(c)) \in Row /\ "scheduler" \in Writer
      BY OpeningIsRow DEF Cmd, Writer
    <3>2. QED
      BY <1>2, <2>1, <3>1 DEF InsertBuffered
  <2>2. CASE ~InsertBuffered(c) /\ ~PatchTruncate(c) /\ ~PatchWrite(c)
    BY <1>1, <1>10, <2>2 DEF SchedulerStep, Insert, InsertAnswered, InsertRefused, NoteRemote,
         PatchRead, PatchMissed, files
  <2>3. QED
    BY <1>1, <1>3, <1>4, <2>1, <2>2
<1>11. ASSUME IngestStep
       PROVE  Elsewhere(k)'
  BY <1>1, <1>5, <1>6, <1>7, <1>11 DEF IngestStep, Send, SendFails, RestoreRead, Acknowledge, files
<1>12. ASSUME RecoverDone \/ Fault \/ (\E c \in Cmd : Dispatch(c)) \/ UNCHANGED vars
       PROVE  Elsewhere(k)'
  BY <1>1, <1>8, <1>12 DEF RecoverDone, Fault, ProxyCrash, SchedulerCrash, IngestCrash, Writeback,
       Dispatch, vars, files
<1>13. QED
  BY <1>9, <1>10, <1>11, <1>12 DEF Next

\* So is a row of a rotated file that ingest has not sent.
LEMMA PendingStays ==
  ASSUME IInv, TypeOK', [Next]_vars, NEW k \in Cmd, NEW v \in Writer, k \in CmdsIn(Pending(v))
  PROVE  Elsewhere(k)'
<1> USE DEF IInv
<1>a. /\ TypeOK /\ Consistent /\ queue \in [Writer -> Seq(Row)] /\ draining \in [Writer -> Seq(Row)]
      /\ drain.file \in Writer /\ drain.left \in Seq(Row)
  BY DEF TypeOK
<1>b. k \in CmdsIn(Pending(v)') => Elsewhere(k)'
  BY DEF Elsewhere, Copied, InQueues
<1>c. k \in CmdsIn(queue'[v]) => Elsewhere(k)'
  BY DEF Elsewhere, Copied, InQueues
<1>d. k \in overwritten' => Elsewhere(k)'
  BY DEF Elsewhere, LossKnown
<1>1. CASE UNCHANGED <<draining, drain>>
  BY <1>1, <1>b DEF Pending
<1>2. ASSUME NEW c \in SchedCmds, PatchWrite(c), draining' # draining
      PROVE  Elsewhere(k)'
  <2>1. /\ draining' = [draining EXCEPT !["scheduler"] = Patched(patching.entries, c)]
        /\ overwritten' = overwritten \cup (CmdsIn(draining["scheduler"]) \ CmdsIn(patching.entries))
        /\ drain' = drain
    BY <1>2 DEF PatchWrite
  <2>2. CmdsIn(draining[v]) \subseteq CmdsIn(draining'[v]) \cup overwritten'
    BY <1>2, <1>a, <2>1, PatchedCmds
  <2>3. QED
    BY <1>b, <1>d, <2>1, <2>2 DEF Pending
<1>3. ASSUME NEW w \in Writer, Take(w)
      PROVE  Elsewhere(k)'
  <2>1. k \in CmdsIn(draining[v]) /\ draining[v] # <<>>
    BY <1>3, EmptyFile DEF Take, Pending
  <2>2. PICK s \in Seq(Row) : drain' = Uploading(w, s) /\ (draining[w] # <<>> => s = draining[w])
    BY <1>3, <1>a DEF Take, Rename, Rotated
  <2>3. draining'[v] = draining[v]
    BY <1>3, <1>a, <2>1 DEF Take, Rename, Rotated
  <2>4. CASE v = w
    BY <1>b, <2>1, <2>2, <2>3, <2>4, UploadingType DEF Pending
  <2>5. CASE v # w
    BY <1>b, <2>1, <2>2, <2>3, <2>5, UploadingType DEF Pending
  <2>6. QED
    BY <2>4, <2>5
<1>4. ASSUME Send
      PROVE  Elsewhere(k)'
  <2>1. /\ drain'.phase = "uploading" /\ drain'.file = drain.file /\ drain'.left = Tail(drain.left)
        /\ draining' = draining /\ drain.phase = "uploading" /\ drain.left # <<>>
        /\ cloud' = cloud \cup {Head(drain.left)}
    BY <1>4, <1>a DEF Send, TypeOK
  <2>2. CASE v # drain.file
    BY <1>b, <2>1, <2>2 DEF Pending
  <2>3. CASE v = drain.file
    <3>1. k = Head(drain.left).cmd \/ k \in CmdsIn(Tail(drain.left))
      BY <1>a, <2>1, <2>3, CmdsInTail DEF Pending
    <3>2. CASE k = Head(drain.left).cmd
      BY <2>1, <3>2 DEF Elsewhere, Copied, InCloud
    <3>3. CASE k \in CmdsIn(Tail(drain.left))
      BY <1>b, <2>1, <2>3, <3>3 DEF Pending
    <3>4. QED
      BY <3>1, <3>2, <3>3
  <2>4. QED
    BY <2>2, <2>3
<1>5. ASSUME SendFails \/ RestoreRead \/ RestoreTruncate
      PROVE  Elsewhere(k)'
  <2>1. draining' = draining /\ drain.phase # "idle"
    BY <1>5 DEF SendFails, RestoreRead, RestoreTruncate, files
  <2>2. drain'.phase # "idle" /\ drain'.file = drain.file /\ drain'.left = drain.left
    <3>1. CASE SendFails
      BY <1>a, <3>1 DEF SendFails, TypeOK
    <3>2. CASE RestoreRead
      BY <1>a, <3>2 DEF RestoreRead, TypeOK
    <3>3. CASE RestoreTruncate
      BY <1>a, <3>3 DEF RestoreTruncate, TypeOK
    <3>4. QED
      BY <1>5, <3>1, <3>2, <3>3
  <2>3. QED
    BY <1>b, <2>1, <2>2 DEF Pending
<1>6. ASSUME RestoreWrite
      PROVE  Elsewhere(k)'
  <2>1. /\ drain'.phase # "idle" /\ drain'.file = drain.file /\ draining' = draining
        /\ drain.phase # "idle" /\ queue' = [queue EXCEPT ![drain.file] = PutBack]
    BY <1>6, <1>a DEF RestoreWrite, TypeOK
  <2>2. CASE v # drain.file
    BY <1>b, <2>1, <2>2 DEF Pending
  <2>3. CASE v = drain.file
    <3>1. k \in CmdsIn(PutBack)
      BY <1>a, <2>1, <2>3, DrainRows DEF Pending
    <3>2. QED
      BY <1>a, <1>c, <2>1, <2>3, <3>1
  <2>4. QED
    BY <2>2, <2>3
<1>7. ASSUME Acknowledge
      PROVE  Elsewhere(k)'
  <2>1. /\ drain.left = <<>> /\ drain.phase # "idle" /\ drain' = Idle
        /\ draining' = [draining EXCEPT ![drain.file] = <<>>]
    BY <1>7, <1>a DEF Acknowledge, Consistent
  <2>2. v # drain.file
    BY <2>1, EmptyFile DEF Pending
  <2>3. QED
    BY <1>a, <1>b, <2>1, <2>2 DEF Pending, Idle
<1>8. ASSUME IngestCrash
      PROVE  Elsewhere(k)'
  <2>1. drain' = Idle /\ UNCHANGED <<draining, overwritten>>
    BY <1>8 DEF IngestCrash, files
  <2>2. k \in CmdsIn(draining[v]) \/ k \in overwritten
    BY DEF Pending, Custody
  <2>3. QED
    BY <1>b, <1>d, <2>1, <2>2 DEF Pending, Idle
<1>9. ASSUME PowerCut
      PROVE  Elsewhere(k)'
  BY <1>9 DEF PowerCut, Elsewhere, Copied, InQueues, LossKnown
<1>10. ASSUME NEW c \in ProxyCmds, ProxyStep(c)
       PROVE  Elsewhere(k)'
  BY <1>1, <1>10
     DEF ProxyStep, RecordOnEdge, RecordFails, NoteOnEdge, SettleAsk, SettleUploaded, SettleQueue,
         SettleForget, RecoverOne, files
<1>11. ASSUME NEW c \in SchedCmds, SchedulerStep(c)
       PROVE  Elsewhere(k)'
  <2>1. CASE PatchWrite(c)
    BY <1>1, <1>2, <2>1 DEF PatchWrite
  <2>2. CASE ~PatchWrite(c)
    BY <1>1, <1>11, <2>2 DEF SchedulerStep, Insert, InsertAnswered, InsertRefused, InsertBuffered,
         NoteRemote, PatchRead, PatchMissed, PatchTruncate, files
  <2>3. QED
    BY <2>1, <2>2
<1>12. ASSUME IngestStep
       PROVE  Elsewhere(k)'
  BY <1>3, <1>4, <1>5, <1>6, <1>7, <1>12 DEF IngestStep
<1>13. ASSUME RecoverDone \/ Fault \/ (\E c \in Cmd : Dispatch(c)) \/ UNCHANGED vars
       PROVE  Elsewhere(k)'
  BY <1>1, <1>8, <1>9, <1>13 DEF RecoverDone, Fault, ProxyCrash, SchedulerCrash, Writeback,
       Dispatch, vars, files, memory
<1>14. QED
  BY <1>10, <1>11, <1>12, <1>13 DEF Next

\* So is a row that a process holds while the queue it rewrites is truncated.
LEMMA HandStays ==
  ASSUME IInv, TypeOK', [Next]_vars, NEW k \in Cmd, InHand(k)
  PROVE  Elsewhere(k)'
<1> USE DEF IInv
<1>a. TypeOK /\ Consistent /\ queue \in [Writer -> Seq(Row)] /\ drain.file \in Writer
  BY DEF TypeOK
<1>1. CASE UNCHANGED <<patching, drain>>
  BY <1>1 DEF Elsewhere, Copied, InHand
<1>2. CASE LostInHand \subseteq torn'
  BY <1>2 DEF LostInHand, Elsewhere, LossKnown
<1>3. CASE drain' = drain /\ patching.into = "none"
  BY <1>3 DEF Elsewhere, Copied, InHand
<1>4. ASSUME drain.phase # "rewriting", patching'.entries = patching.entries,
             patching.into # "none" => patching'.into # "none"
      PROVE  Elsewhere(k)'
  BY <1>4 DEF Elsewhere, Copied, InHand
<1>5. ASSUME RestoreWrite
      PROVE  Elsewhere(k)'
  <2>1. CASE patching.into # "none" /\ k \in CmdsIn(patching.entries)
    BY <1>5, <2>1 DEF RestoreWrite, Elsewhere, Copied, InHand
  <2>2. CASE k \in CmdsIn(drain.live)
    <3>1. k \in CmdsIn(PutBack) /\ queue'[drain.file] = PutBack
      BY <1>5, <1>a, <2>2, DrainRows DEF RestoreWrite
    <3>2. QED
      BY <1>a, <3>1 DEF Elsewhere, Copied, InQueues
  <2>3. QED
    BY <2>1, <2>2 DEF InHand
<1>6. ASSUME IngestStep
      PROVE  Elsewhere(k)'
  <2>1. CASE RestoreWrite
    BY <1>5, <2>1
  <2>2. CASE ~RestoreWrite
    <3>1. /\ drain.phase # "rewriting"
          /\ patching' \in {patching, [patching EXCEPT !.into = "draining"], [patching EXCEPT !.into = "gone"]}
      BY <1>6, <2>2 DEF IngestStep, Take, Rename, Send, SendFails, RestoreRead, RestoreTruncate,
           RestoreWrite, Acknowledge
    <3>2. /\ patching'.entries = patching.entries
          /\ patching.into # "none" => patching'.into # "none"
      BY <1>a, <3>1 DEF TypeOK
    <3>3. QED
      BY <1>4, <3>1, <3>2
  <2>3. QED
    BY <2>1, <2>2
<1>7. ASSUME NEW c \in ProxyCmds, ProxyStep(c)
      PROVE  Elsewhere(k)'
  BY <1>1, <1>7
     DEF ProxyStep, RecordOnEdge, RecordFails, NoteOnEdge, SettleAsk, SettleUploaded, SettleQueue,
         SettleForget, RecoverOne
<1>8. ASSUME NEW c \in SchedCmds, SchedulerStep(c)
      PROVE  Elsewhere(k)'
  <2>1. CASE PatchWrite(c)
    BY <1>2, <2>1 DEF PatchWrite
  <2>2. CASE PatchTruncate(c) \/ PatchRead(c)
    BY <1>3, <2>2 DEF PatchTruncate, PatchRead, SchedulerFree, NotPatching
  <2>3. CASE ~PatchWrite(c) /\ ~PatchTruncate(c) /\ ~PatchRead(c)
    BY <1>1, <1>8, <2>3 DEF SchedulerStep, Insert, InsertAnswered, InsertRefused, InsertBuffered,
         NoteRemote, PatchMissed
  <2>4. QED
    BY <2>1, <2>2, <2>3
<1>9. ASSUME PowerCut
      PROVE  Elsewhere(k)'
  BY <1>9 DEF PowerCut, Elsewhere, Copied, LossKnown
<1>10. ASSUME RecoverDone \/ Fault \/ (\E c \in Cmd : Dispatch(c)) \/ UNCHANGED vars
       PROVE  Elsewhere(k)'
  BY <1>1, <1>2, <1>9, <1>10 DEF RecoverDone, Fault, ProxyCrash, SchedulerCrash, IngestCrash, Writeback,
       Dispatch, vars, memory
<1>11. QED
  BY <1>6, <1>7, <1>8, <1>10 DEF Next

\* A row held outside the in-flight file stays held after every step, or its loss to a
\* rewrite or a power cut is on record.
LEMMA ElsewhereStays ==
  ASSUME IInv, TypeOK', [Next]_vars, NEW k \in Cmd, Elsewhere(k)
  PROVE  Elsewhere(k)'
<1>1. CASE InCloud(k) \/ LossKnown(k)
  BY <1>1, LossStays DEF Elsewhere, Copied, LossKnown
<1>2. CASE InQueues(k)
  BY <1>2, QueueStays, PendingStays DEF InQueues
<1>3. CASE InHand(k)
  BY <1>3, HandStays
<1>4. QED
  BY <1>1, <1>2, <1>3 DEF Elsewhere, Copied

\* A row just appended to a queue is held there.
LEMMA EnqueueHolds ==
  ASSUME TypeOK, NEW w \in Writer, NEW r \in Row, Enqueue(w, r)
  PROVE  Elsewhere(r.cmd)'
<1>1. queue[w] \in Seq(Row) /\ queue'[w] = Append(queue[w], r)
  BY DEF TypeOK, Enqueue
<1>2. r.cmd \in CmdsIn(queue'[w])
  BY <1>1, CmdsInAppend
<1>3. QED
  BY <1>2 DEF Elsewhere, Copied, InQueues

\* The commands whose only sure copy must be outside the in-flight file.
Relies(c) ==
  \/ c \in SchedCmds /\ stage[c] = "recorded"
  \/ c \in ProxyCmds /\ stage[c] = "handed"
  \/ c \in handed

\* Who can come to rely on a copy outside the in-flight file in one step.
LEMMA HandoverStep ==
  ASSUME IInv, TypeOK', [Next]_vars
  PROVE  /\ \A c \in SchedCmds : stage'[c] = "recorded" => Elsewhere(c)'
         /\ \A c \in ProxyCmds : stage'[c] = "handed" => Elsewhere(c)'
         /\ \A c \in handed' : Elsewhere(c)'
<1> USE DEF IInv, Relies
<1>a. TypeOK /\ Consistent /\ Custody
  OBVIOUS
<1>b. \A c \in Cmd : Relies(c) => Elsewhere(c)'
  BY <1>a, ElsewhereStays DEF Custody
<1>c. ASSUME \A c \in Cmd : Relies(c)' => Relies(c) \/ Elsewhere(c)'
      PROVE  /\ \A c \in SchedCmds : stage'[c] = "recorded" => Elsewhere(c)'
             /\ \A c \in ProxyCmds : stage'[c] = "handed" => Elsewhere(c)'
             /\ \A c \in handed' : Elsewhere(c)'
  <2>1. \A c \in Cmd : Relies(c)' => Elsewhere(c)'
    BY <1>b, <1>c
  <2>2. \A c \in handed' : c \in Cmd
    BY DEF TypeOK, Cmd
  <2>3. ASSUME NEW c \in SchedCmds, stage'[c] = "recorded"
        PROVE  Elsewhere(c)'
    <3>1. c \in Cmd
      BY DEF Cmd
    <3>2. Relies(c)'
      BY <2>3
    <3>3. QED
      BY <2>1, <3>1, <3>2
  <2>4. \A c \in ProxyCmds : stage'[c] = "handed" => Elsewhere(c)'
    BY <2>1 DEF Cmd
  <2>5. \A c \in handed' : Elsewhere(c)'
    BY <2>1, <2>2
  <2>6. QED
    BY <2>3, <2>4, <2>5
<1>1. ASSUME NEW d \in ProxyCmds, ProxyStep(d), NEW c \in Cmd, Relies(c)', ~Relies(c)
      PROVE  Elsewhere(c)'
  <2>1. CASE SettleQueue(d) \/ RecoverOne(d)
    <3>1. c = d
      BY <1>a, <1>1, <2>1 DEF SettleQueue, RecoverOne, Goto, TypeOK, Cmd
    <3>2. inflight[d] # NoRow /\ Enqueue("proxy", Record(d)) /\ "proxy" \in Writer
      BY <1>a, <2>1 DEF SettleQueue, RecoverOne, Consistent, Active, Writer
    <3>3. QED
      BY <1>a, <3>1, <3>2, RecordIsRow, EnqueueHolds
  <2>2. CASE ~SettleQueue(d) /\ ~RecoverOne(d)
    <3>1. d \notin SchedCmds /\ d \in Cmd
      BY DEF Cmd
    <3>2. /\ handed' = handed
          /\ \E st \in {"recorded", "noted", "refused", "asked", "done"} :
               stage' = [stage EXCEPT ![d] = st]
      BY <1>1, <2>2 DEF ProxyStep, RecordOnEdge, RecordFails, NoteOnEdge, SettleAsk,
           SettleUploaded, SettleForget, Goto
    <3>3. /\ \A e \in Cmd : e # d => stage'[e] = stage[e]
          /\ stage'[d] \in {"recorded", "noted", "refused", "asked", "done"}
      BY <1>a, <3>1, <3>2 DEF TypeOK
    <3>4. QED
      BY <1>1, <3>1, <3>2, <3>3
  <2>3. QED
    BY <2>1, <2>2
<1>2. ASSUME NEW d \in SchedCmds, SchedulerStep(d), NEW c \in Cmd, Relies(c)', ~Relies(c)
      PROVE  Elsewhere(c)'
  <2>1. CASE InsertBuffered(d)
    <3>1. c = d
      BY <1>a, <1>2, <2>1 DEF InsertBuffered, Recorded, Goto, TypeOK, Cmd
    <3>2. /\ RowOf(d, Opening(d)) \in Row /\ RowOf(d, Opening(d)).cmd = d
          /\ Enqueue("scheduler", RowOf(d, Opening(d))) /\ "scheduler" \in Writer
      BY <2>1, OpeningIsRow DEF InsertBuffered, Writer, Cmd
    <3>3. QED
      BY <1>a, <3>1, <3>2, EnqueueHolds
  <2>2. CASE InsertAnswered(d)
    <3>1. c = d
      BY <1>a, <1>2, <2>2 DEF InsertAnswered, Recorded, Goto, TypeOK, Cmd
    <3>2. QED
      BY <2>2, <3>1 DEF InsertAnswered, files, Elsewhere, Copied, InCloud
  <2>3. CASE ~InsertBuffered(d) /\ ~InsertAnswered(d)
    BY <1>a, <1>2, <2>3 DEF SchedulerStep, Insert, InsertRefused, NoteRemote, PatchRead, PatchMissed,
         PatchTruncate, PatchWrite, Goto, TypeOK, Cmd
  <2>4. QED
    BY <2>1, <2>2, <2>3
<1>3. ASSUME \/ RecoverDone \/ IngestStep \/ Fault \/ (\E d \in Cmd : Dispatch(d)) \/ UNCHANGED vars,
             NEW c \in Cmd, Relies(c)'
      PROVE  Relies(c)
  BY <1>a, <1>3 DEF RecoverDone, IngestStep, Take, Rename, Send, SendFails, RestoreRead, RestoreTruncate, RestoreWrite,
       Acknowledge, Fault, ProxyCrash, SchedulerCrash, IngestCrash, PowerCut, Writeback, Drop, Settled,
       Dispatch, Goto, memory, vars, TypeOK, Cmd
<1>4. \A c \in Cmd : Relies(c)' => Relies(c) \/ Elsewhere(c)'
  <2>1. CASE \E d \in ProxyCmds : ProxyStep(d)
    BY <1>1, <2>1
  <2>2. CASE \E d \in SchedCmds : SchedulerStep(d)
    BY <1>2, <2>2
  <2>3. CASE \/ RecoverDone \/ IngestStep \/ Fault \/ (\E d \in Cmd : Dispatch(d)) \/ UNCHANGED vars
    BY <1>3, <2>3
  <2>4. QED
    BY <2>1, <2>2, <2>3 DEF Next
<1>5. QED
  BY <1>c, <1>4

\* A relay that moved keeps a row: the in-flight file gives its copy up only
\* when another is held.
LEMMA MovedStep ==
  ASSUME IInv, TypeOK', [Next]_vars
  PROVE  \A c \in moved' : Held(c)' \/ InHand(c)' \/ LossKnown(c)'
<1> USE DEF IInv
<1>a. TypeOK /\ Consistent /\ Custody
  OBVIOUS
<1>1. ASSUME NEW c \in moved', c \notin moved
      PROVE  Elsewhere(c) \/ (c \in ProxyCmds /\ inflight[c] # NoRow)
  <2>1. PICK d \in Cmd : Dispatch(d)
    BY <1>1 DEF Next, ProxyStep, RecordOnEdge, RecordFails, NoteOnEdge, SettleAsk, SettleUploaded,
         SettleQueue, SettleForget, RecoverOne, RecoverDone, SchedulerStep, Insert, InsertAnswered,
         InsertRefused, InsertBuffered, NoteRemote, PatchRead, PatchMissed, PatchTruncate, PatchWrite, IngestStep,
         Take, Rename, Send, SendFails, RestoreRead, RestoreTruncate, RestoreWrite, Acknowledge, Fault, ProxyCrash,
         SchedulerCrash, IngestCrash, PowerCut, Writeback, vars
  <2>2. c = d /\ stage[c] = "recorded" /\ c \in Cmd
    BY <1>1, <2>1 DEF Dispatch
  <2>3. QED
    BY <1>a, <2>2 DEF Consistent, Custody, Active, Cmd
<1>2. ASSUME NEW c \in ProxyCmds, inflight[c] # NoRow
      PROVE  Elsewhere(c)' \/ inflight'[c] # NoRow
  <2>1. ASSUME NEW d \in ProxyCmds, ProxyStep(d)
        PROVE  Elsewhere(c)' \/ inflight'[c] # NoRow
    <3>1. CASE SettleUploaded(d) \/ SettleForget(d)
      <4>1. c # d => inflight'[c] # NoRow
        BY <1>a, <1>2, <3>1 DEF SettleUploaded, SettleForget, TypeOK
      <4>2. Record(d).cmd = d /\ d \in Cmd
        BY DEF Record, RowOf, Cmd
      <4>3. Elsewhere(d)
        BY <1>a, <3>1, <4>2 DEF SettleUploaded, SettleForget, Custody, Elsewhere, Copied, InCloud
      <4>4. QED
        BY <4>1, <4>2, <4>3, ElsewhereStays
    <3>2. CASE ~SettleUploaded(d) /\ ~SettleForget(d)
      <4>1. d \in Cmd /\ Opening(d) # NoRow
        BY OpeningIsRow DEF Cmd
      <4>2. CASE NoteOnEdge(d)
        <5>1. outcome[d] # NoRow
          BY <1>a, <4>1, <4>2 DEF NoteOnEdge, Consistent, NoRow
        <5>2. inflight' = [inflight EXCEPT ![d] = outcome[d]]
          BY <4>2 DEF NoteOnEdge
        <5>3. QED
          BY <1>a, <1>2, <5>1, <5>2 DEF TypeOK
      <4>3. CASE RecordOnEdge(d)
        <5>1. inflight' = [inflight EXCEPT ![d] = Opening(d)]
          BY <4>3 DEF RecordOnEdge
        <5>2. QED
          BY <1>a, <1>2, <4>1, <5>1 DEF TypeOK
      <4>4. CASE ~NoteOnEdge(d) /\ ~RecordOnEdge(d)
        BY <1>2, <2>1, <3>2, <4>4 DEF ProxyStep, RecordFails, SettleAsk, SettleQueue, RecoverOne, files
      <4>5. QED
        BY <4>2, <4>3, <4>4
    <3>3. QED
      BY <3>1, <3>2
  <2>2. CASE RecoverDone
    <3>1. c \in Cmd /\ Elsewhere(c)
      BY <1>a, <1>2, <2>2 DEF RecoverDone, Custody, Cmd
    <3>2. QED
      BY <3>1, ElsewhereStays
  <2>3. ASSUME \/ \E d \in SchedCmds : SchedulerStep(d)
               \/ \E d \in Cmd : Dispatch(d)
               \/ IngestStep \/ Fault \/ UNCHANGED vars
        PROVE  inflight' = inflight
    BY <2>3 DEF SchedulerStep, Insert, InsertAnswered, InsertRefused, InsertBuffered, NoteRemote,
         PatchRead, PatchMissed, PatchTruncate, PatchWrite, IngestStep, Take, Rename, Send, SendFails, RestoreRead, RestoreTruncate,
         RestoreWrite, Acknowledge, Fault, ProxyCrash, SchedulerCrash, IngestCrash, PowerCut,
         Writeback, Dispatch, files, vars
  <2>4. QED
    BY <1>2, <2>1, <2>2, <2>3 DEF Next
<1>3. ASSUME NEW c \in moved'
      PROVE  c \in Cmd /\ (Elsewhere(c) \/ (c \in ProxyCmds /\ inflight[c] # NoRow))
  <2>1. c \in Cmd
    BY <1>3 DEF TypeOK
  <2>2. c \in moved => Elsewhere(c) \/ (c \in ProxyCmds /\ inflight[c] # NoRow)
    BY <1>a DEF Custody, Held, Elsewhere, Copied
  <2>3. QED
    BY <1>1, <2>1, <2>2
<1>4. QED
  BY <1>2, <1>3, ElsewhereStays DEF Elsewhere, Copied, Held

\* What ingest has read and not sent is still in the rotated file, or its loss is known.
LeftKept == CmdsIn(drain.left) \subseteq CmdsIn(draining[drain.file]) \cup overwritten

LEMMA LeftStep ==
  ASSUME IInv, TypeOK', [Next]_vars
  PROVE  LeftKept'
<1> USE DEF IInv
<1>a. /\ TypeOK /\ Consistent /\ LeftKept /\ drain.left \in Seq(Row) /\ drain.file \in Writer
      /\ draining \in [Writer -> Seq(Row)] /\ overwritten \subseteq overwritten'
  BY LossStays DEF TypeOK, Custody, LeftKept
<1>1. ASSUME UNCHANGED <<drain, draining>>
      PROVE  LeftKept'
  BY <1>1, <1>a DEF LeftKept
<1>2. ASSUME drain'.left = <<>>
      PROVE  LeftKept'
  BY <1>2, EmptyFile DEF LeftKept
<1>3. ASSUME NEW c \in SchedCmds, PatchWrite(c), draining' # draining
      PROVE  LeftKept'
  <2>1. /\ draining' = [draining EXCEPT !["scheduler"] = Patched(patching.entries, c)]
        /\ overwritten' = overwritten \cup (CmdsIn(draining["scheduler"]) \ CmdsIn(patching.entries))
        /\ drain' = drain
    BY <1>3 DEF PatchWrite
  <2>2. CmdsIn(draining[drain.file]) \subseteq CmdsIn(draining'[drain.file]) \cup overwritten'
    BY <1>3, <1>a, <2>1, PatchedCmds
  <2>3. QED
    BY <1>a, <2>1, <2>2 DEF LeftKept
<1>4. ASSUME NEW w \in Writer, Take(w)
      PROVE  LeftKept'
  <2>1. PICK s \in Seq(Row) : drain' = Uploading(w, s) /\ draining'[w] = s
    BY <1>4, <1>a DEF Take, Rename, TypeOK
  <2>2. QED
    BY <1>2, <2>1, UploadingType, EmptyFile DEF LeftKept
<1>5. ASSUME Send \/ SendFails \/ RestoreRead \/ RestoreTruncate
      PROVE  LeftKept'
  <2>1. /\ drain'.file = drain.file /\ draining' = draining
        /\ drain'.left = drain.left \/ (drain.left # <<>> /\ drain'.left = Tail(drain.left))
    BY <1>5, <1>a DEF Send, SendFails, RestoreRead, RestoreTruncate, TypeOK, files
  <2>2. CmdsIn(drain'.left) \subseteq CmdsIn(drain.left)
    BY <1>a, <2>1, CmdsInTail
  <2>3. QED
    BY <1>a, <2>1, <2>2 DEF LeftKept
<1>6. ASSUME RestoreWrite \/ Acknowledge \/ IngestCrash \/ PowerCut
      PROVE  LeftKept'
  <2>1. CASE RestoreWrite
    BY <1>2, <1>a, <2>1 DEF RestoreWrite, TypeOK
  <2>2. CASE Acknowledge \/ IngestCrash \/ PowerCut
    BY <1>2, <2>2 DEF Acknowledge, IngestCrash, PowerCut, Idle
  <2>3. QED
    BY <1>6, <2>1, <2>2
<1>7. ASSUME NEW c \in ProxyCmds, ProxyStep(c)
      PROVE  LeftKept'
  BY <1>1, <1>7
     DEF ProxyStep, RecordOnEdge, RecordFails, NoteOnEdge, SettleAsk, SettleUploaded, SettleQueue,
         SettleForget, RecoverOne, files
<1>8. ASSUME NEW c \in SchedCmds, SchedulerStep(c)
      PROVE  LeftKept'
  <2>1. CASE PatchWrite(c)
    BY <1>1, <1>3, <2>1 DEF PatchWrite
  <2>2. CASE ~PatchWrite(c)
    BY <1>1, <1>8, <2>2 DEF SchedulerStep, Insert, InsertAnswered, InsertRefused, InsertBuffered,
         NoteRemote, PatchRead, PatchMissed, PatchTruncate, files
  <2>3. QED
    BY <2>1, <2>2
<1>9. ASSUME IngestStep
      PROVE  LeftKept'
  BY <1>4, <1>5, <1>6, <1>9 DEF IngestStep
<1>10. ASSUME RecoverDone \/ Fault \/ (\E c \in Cmd : Dispatch(c)) \/ UNCHANGED vars
       PROVE  LeftKept'
  BY <1>1, <1>6, <1>10 DEF RecoverDone, Fault, ProxyCrash, SchedulerCrash, Writeback,
       Dispatch, vars, files, memory
<1>11. QED
  BY <1>7, <1>8, <1>9, <1>10 DEF Next

-----------------------------------------------------------------------------
(***************************************************************************)
(* The theorems.                                                           *)
(***************************************************************************)

LEMMA Inductive ==
  /\ Init => IInv
  /\ IInv /\ [Next]_vars => IInv'
<1>1. Init => IInv
  <2> SUFFICES ASSUME Init PROVE IInv
    OBVIOUS
  <2>1. TypeOK /\ Consistent
    BY TypesInit
  <2>2. Custody
    BY EmptyFile DEF Init, Quiet, Custody, Idle, Writer, Cmd
  <2>3. QED
    BY <2>1, <2>2 DEF IInv
<1>2. ASSUME IInv, [Next]_vars
      PROVE  IInv'
  <2>1. TypeOK' /\ Consistent'
    BY <1>2, TypesStep
  <2>2. Custody'
    BY <1>2, <2>1, HandoverStep, MovedStep, LeftStep DEF Custody, LeftKept
  <2>3. QED
    BY <2>1, <2>2 DEF IInv
<1>3. QED
  BY <1>1, <1>2

\* Every reachable state of the audit trail is well typed: every file holds rows
\* of commands with a known status, whatever crashes came before.
THEOREM TypeCorrect == Spec => []TypeOK
<1>1. IInv => TypeOK
  BY DEF IInv
<1>2. QED
  BY Inductive, <1>1, PTL DEF Spec

\* Record then act, kept through every hand-over: for any number of commands,
\* crashes and power cuts, a relay that moved has a row on the edge or in the cloud, or
\* in the memory of the process that has just truncated a queue to rewrite it. The three
\* exceptions are the code's own: a rewrite dropped a row it had not read, a rewrite in
\* place stopped (or went to a file ingest had taken) after its truncation, or a power cut
\* (auditQueue.mjs:62-88, 145-159, 207-258; ingestBuffer.mjs:31-39; auditedDispatch.mjs:93-105).
THEOREM RecordKept == Spec => []ForgottenOnlyByOverwrite
<1>1. IInv => ForgottenOnlyByOverwrite
  BY DEF IInv, Custody, ForgottenOnlyByOverwrite
<1>2. QED
  BY Inductive, <1>1, PTL DEF Spec

-----------------------------------------------------------------------------
(***************************************************************************)
(* Honesty: what a copy of a row may say.                                  *)
(***************************************************************************)

\* Where the handler of a person's command is once its row has left the in-flight file.
Gone == {"noted", "asked", "handed", "done", "lost"}

\* What a row may say by then.
Told(r) ==
  /\ r.status = "dispatched" => r.cmd \in moved
  /\ r.status = "dry_run" => r.cmd \notin Dispatchable
  /\ r.cmd \in ProxyCmds =>
       /\ stage[r.cmd] \in Gone
       /\ r.status = "dispatching" => stage[r.cmd] = "lost"
       /\ r.cmd \in Dispatchable => stage[r.cmd] = "lost" \/ r.status = outcome[r.cmd]

FileTold(s) == \A i \in 1..Len(s) : Told(s[i])

\* The table, the files, and the copies of them that ingest and the scheduler have read.
CopiesTold(table, queues, drainings, left, live, entries) ==
  /\ \A r \in table : Told(r)
  /\ \A w \in Writer : FileTold(queues[w]) /\ FileTold(drainings[w])
  /\ FileTold(left) /\ FileTold(live) /\ FileTold(entries)

CopiesSound == CopiesTold(cloud, queue, draining, drain.left, drain.live, patching.entries)

\* What a handler and the in-flight file say is what happened, so far.
MemoryTrue ==
  /\ \A c \in Cmd : outcome[c] = "dispatched" => c \in moved
  /\ \A c \in Cmd : stage[c] \in {"recorded", "acted"} => c \in Dispatchable
  /\ moved \subseteq Dispatchable
  /\ \A c \in ProxyCmds :
       /\ inflight[c] = "dispatched" => c \in moved
       /\ inflight[c] = "dry_run" => c \notin Dispatchable
       /\ inflight[c] = "dispatching" => stage[c] \in {"recorded", "acted", "lost"}
       /\ inflight[c] # NoRow => stage[c] \in Active \cup {"lost"}
       /\ c \in Dispatchable /\ stage[c] \in {"noted", "asked", "handed"} => inflight[c] = outcome[c]

HonestInv == MemoryTrue /\ CopiesSound

LEMMA ToldAppend ==
  ASSUME NEW s \in Seq(Row), NEW r \in Row, FileTold(s), Told(r)
  PROVE  FileTold(Append(s, r))
<1>1. /\ Len(Append(s, r)) = Len(s) + 1
      /\ Append(s, r)[Len(s) + 1] = r
      /\ \A i \in 1..Len(s) : Append(s, r)[i] = s[i]
  OBVIOUS
<1>2. \A i \in 1..(Len(s) + 1) : i \in 1..Len(s) \/ i = Len(s) + 1
  OBVIOUS
<1>3. QED
  BY <1>1, <1>2 DEF FileTold

LEMMA ToldConcat ==
  ASSUME NEW s \in Seq(Row), NEW t \in Seq(Row), FileTold(s), FileTold(t)
  PROVE  FileTold(s \o t)
<1> SUFFICES ASSUME NEW i \in 1..Len(s \o t) PROVE Told((s \o t)[i])
  BY DEF FileTold
<1>1. CASE i \in 1..Len(s)
  <2>1. (s \o t)[i] = s[i]
    BY <1>1
  <2>2. QED
    BY <1>1, <2>1 DEF FileTold
<1>2. CASE i \notin 1..Len(s)
  <2>1. i - Len(s) \in 1..Len(t) /\ (s \o t)[i] = t[i - Len(s)]
    BY <1>2
  <2>2. QED
    BY <2>1 DEF FileTold
<1>3. QED
  BY <1>1, <1>2

LEMMA ToldTail ==
  ASSUME NEW s \in Seq(Row), FileTold(s), s # <<>>
  PROVE  Told(Head(s)) /\ FileTold(Tail(s))
<1>1. /\ Head(s) = s[1] /\ 1 \in 1..Len(s)
      /\ \A i \in 1..Len(Tail(s)) : i + 1 \in 1..Len(s) /\ Tail(s)[i] = s[i + 1]
  OBVIOUS
<1>2. QED
  BY <1>1 DEF FileTold

LEMMA ToldPart ==
  ASSUME NEW s \in Seq(Row), FileTold(s), NEW m \in Nat, NEW n \in 0..Len(s), m >= 1
  PROVE  FileTold(SubSeq(s, m, n))
<1>1. \A i \in 1..Len(SubSeq(s, m, n)) : /\ m + i - 1 \in 1..Len(s)
                                         /\ SubSeq(s, m, n)[i] = s[m + i - 1]
  OBVIOUS
<1>2. QED
  BY <1>1 DEF FileTold

LEMMA ToldPatched ==
  ASSUME NEW s \in Seq(Row), NEW c \in Cmd, FileTold(s), Told(RowOf(c, outcome[c]))
  PROVE  FileTold(Patched(s, c))
<1>1. DOMAIN Patched(s, c) = 1..Len(s)
  BY DEF Patched
<1>2. Len(Patched(s, c)) = Len(s)
  BY <1>1
<1>3. \A i \in 1..Len(s) : Patched(s, c)[i] = RowOf(c, outcome[c]) \/ Patched(s, c)[i] = s[i]
  BY DEF Patched
<1>4. QED
  BY <1>2, <1>3 DEF FileTold

LEMMA ToldEmpty == FileTold(<<>>)
BY DEF FileTold

\* Nothing a row says stops being so.
LEMMA ToldStays ==
  ASSUME IInv, [Next]_vars, NEW r \in Row, Told(r)
  PROVE  Told(r)'
<1>1. moved \subseteq moved'
  BY DEF Next, ProxyStep, SchedulerStep, IngestStep, Fault, vars, files, memory, history, RecordOnEdge, RecordFails,
         Dispatch, NoteOnEdge, SettleAsk, SettleUploaded, SettleQueue, SettleForget, RecoverOne, RecoverDone,
         Insert, InsertAnswered, InsertRefused, InsertBuffered, NoteRemote, PatchRead, PatchMissed, PatchTruncate, PatchWrite,
         Take, Rename, Send, SendFails, RestoreRead, RestoreTruncate, RestoreWrite, Acknowledge, ProxyCrash, SchedulerCrash, IngestCrash,
         PowerCut, Writeback
<1>2. ASSUME NEW c \in ProxyCmds, stage[c] \in Gone
      PROVE  stage'[c] \in Gone /\ outcome'[c] = outcome[c] /\ (stage[c] = "lost" => stage'[c] = "lost")
  <2> USE <1>2 DEF Goto, Cmd, Gone, files
  <2>a. /\ stage \in [Cmd -> Stage] /\ outcome \in [Cmd -> {"none", "dispatched", "failed"}]
        /\ \A p \in SchedCmds : p # c
    BY DEF IInv, TypeOK
  <2>1. CASE \E p \in ProxyCmds : ProxyStep(p)
    BY <2>a, <2>1 DEF ProxyStep, RecordOnEdge, RecordFails, NoteOnEdge, SettleAsk, SettleUploaded, SettleQueue,
                      SettleForget, RecoverOne
  <2>2. CASE \E p \in SchedCmds : SchedulerStep(p)
    BY <2>a, <2>2 DEF SchedulerStep, Insert, InsertAnswered, InsertRefused, InsertBuffered, Recorded, NoteRemote,
                      PatchRead, PatchMissed, PatchTruncate, PatchWrite
  <2>3. CASE \E p \in Cmd : Dispatch(p)
    BY <2>a, <2>3 DEF Dispatch
  <2>4. CASE RecoverDone \/ IngestStep \/ UNCHANGED vars
    BY <2>4 DEF RecoverDone, IngestStep, Take, Rename, Send, SendFails, RestoreRead, RestoreTruncate, RestoreWrite, Acknowledge, vars
  <2>5. CASE Fault
    BY <2>5 DEF Fault, ProxyCrash, SchedulerCrash, IngestCrash, PowerCut, Writeback, Drop, Settled, memory
  <2>6. QED
    BY <2>1, <2>2, <2>3, <2>4, <2>5 DEF Next
<1>3. r.cmd \in Cmd
  BY DEF Row
<1>4. QED
  BY <1>1, <1>2 DEF Told

LEMMA MemoryStep ==
  ASSUME IInv, MemoryTrue, [Next]_vars
  PROVE  MemoryTrue'
<1>a. /\ TypeOK /\ Consistent /\ stage \in [Cmd -> Stage] /\ inflight \in [ProxyCmds -> Status \cup {NoRow}]
      /\ outcome \in [Cmd -> {"none", "dispatched", "failed"}]
      /\ ProxyCmds \subseteq Cmd /\ SchedCmds \subseteq Cmd /\ ProxyCmds \cap SchedCmds = {}
  BY DEF IInv, TypeOK, Cmd
<1>1. ASSUME NEW c \in ProxyCmds, RecordOnEdge(c) PROVE MemoryTrue'
  BY <1>a, <1>1 DEF RecordOnEdge, Opening, Goto, Active, MemoryTrue
<1>2. ASSUME NEW c \in ProxyCmds, NoteOnEdge(c) PROVE MemoryTrue'
  BY <1>a, <1>2 DEF NoteOnEdge, Goto, Active, MemoryTrue
<1>3. ASSUME NEW c \in ProxyCmds, RecordFails(c) \/ SettleAsk(c) \/ SettleQueue(c) PROVE MemoryTrue'
  BY <1>a, <1>3 DEF RecordFails, SettleAsk, SettleQueue, files, Goto, Active, MemoryTrue
<1>4. ASSUME NEW c \in ProxyCmds, SettleUploaded(c) \/ SettleForget(c) PROVE MemoryTrue'
  BY <1>a, <1>4 DEF SettleUploaded, SettleForget, NoRow, Goto, Active, MemoryTrue
<1>5. ASSUME NEW c \in ProxyCmds, RecoverOne(c) PROVE MemoryTrue'
  BY <1>5 DEF RecoverOne, MemoryTrue
<1>6. CASE RecoverDone
  BY <1>a, <1>6 DEF RecoverDone, NoRow, Consistent, Settled, MemoryTrue
<1>7. ASSUME NEW c \in SchedCmds, SchedulerStep(c) PROVE MemoryTrue'
  <2>1. /\ UNCHANGED <<outcome, moved, inflight>>
        /\ \A p \in ProxyCmds : stage'[p] = stage[p]
        /\ \A p \in Cmd : stage'[p] \in {"recorded", "acted"} => stage[p] \in {"recorded", "acted"} \/ p \in Dispatchable
    BY <1>a, <1>7 DEF SchedulerStep, Insert, InsertAnswered, InsertRefused, InsertBuffered, Recorded, NoteRemote,
                      PatchRead, PatchMissed, PatchTruncate, PatchWrite, Goto, files
  <2>2. QED
    BY <1>a, <2>1 DEF Active, MemoryTrue
<1>8. ASSUME NEW c \in Cmd, Dispatch(c) PROVE MemoryTrue'
  <2>1. PICK answer \in {"dispatched", "failed"}, acts \in BOOLEAN :
          /\ answer = "dispatched" => acts
          /\ outcome' = [outcome EXCEPT ![c] = answer]
          /\ moved' = IF acts THEN moved \cup {c} ELSE moved
    BY <1>8 DEF Dispatch
  <2>2. stage[c] = "recorded" /\ stage' = [stage EXCEPT ![c] = "acted"] /\ inflight' = inflight
    BY <1>8 DEF Dispatch, Goto, files
  <2>3. moved \subseteq moved' /\ moved' \subseteq moved \cup {c} /\ c \in Dispatchable
    BY <2>1, <2>2 DEF MemoryTrue
  <2>4. \A p \in Cmd : outcome'[p] = "dispatched" => p \in moved'
    BY <1>a, <2>1, <2>3 DEF MemoryTrue
  <2>5. QED
    BY <1>a, <2>1, <2>2, <2>3, <2>4 DEF Active, MemoryTrue
<1>9. CASE IngestStep \/ UNCHANGED vars
  BY <1>9 DEF IngestStep, Take, Rename, Send, SendFails, RestoreRead, RestoreTruncate, RestoreWrite, Acknowledge, vars, files, MemoryTrue
<1>10. CASE Fault
  <2>1. UNCHANGED <<outcome, moved, inflight>> /\ \A p \in Cmd : stage'[p] \in {stage[p], "lost"}
    BY <1>a, <1>10 DEF Fault, ProxyCrash, SchedulerCrash, IngestCrash, PowerCut, Writeback, Drop, memory, files
  <2>2. \A p \in Cmd : stage'[p] # "lost" => stage'[p] = stage[p]
    BY <2>1
  <2>3. QED
    BY <1>a, <2>1, <2>2 DEF Active, MemoryTrue
<1>11. QED
  BY <1>1, <1>2, <1>3, <1>4, <1>5, <1>6, <1>7, <1>8, <1>9, <1>10 DEF Next, ProxyStep

\* What each writer puts into a file or the table.
LEMMA RecordTold ==
  ASSUME IInv, MemoryTrue, NEW c \in ProxyCmds, inflight[c] # NoRow,
         stage[c] \in {"noted", "asked"} \/ starting
  PROVE  Record(c) \in Row /\ Told(Record(c))
<1>1. stage[c] \in {"noted", "asked", "lost"}
  BY DEF IInv, Consistent, Settled, Active, MemoryTrue
<1>2. Record(c) \in Row /\ Record(c).cmd = c /\ Record(c).status = inflight[c]
  BY RecordIsRow DEF IInv, Record, RowOf
<1>3. QED
  BY <1>1, <1>2 DEF MemoryTrue, Told, Gone

LEMMA OpeningTold ==
  ASSUME NEW c \in SchedCmds
  PROVE  RowOf(c, Opening(c)) \in Row /\ Told(RowOf(c, Opening(c)))
<1>1. c \in Cmd /\ c \notin ProxyCmds
  BY DEF Cmd
<1>2. QED
  BY <1>1, OpeningIsRow DEF Told, RowOf, Opening

LEMMA OutcomeTold ==
  ASSUME IInv, MemoryTrue, NEW c \in SchedCmds, stage[c] = "acted"
  PROVE  RowOf(c, outcome[c]) \in Row /\ Told(RowOf(c, outcome[c]))
<1>1. c \in Cmd /\ c \notin ProxyCmds
  BY DEF Cmd
<1>2. outcome[c] \in {"none", "dispatched", "failed"}
  BY <1>1 DEF IInv, TypeOK
<1>3. QED
  BY <1>1, <1>2, OutcomeIsRow DEF IInv, MemoryTrue, Told, RowOf

NextCopies == CopiesTold(cloud', queue', draining', drain'.left, drain'.live, patching'.entries)

LEMMA EnqueueTold ==
  ASSUME IInv, CopiesSound, NEW w \in Writer, NEW r \in Row, Told(r), Enqueue(w, r)
  PROVE  \A v \in Writer : FileTold(queue'[v])
<1>1. \A v \in Writer : queue[v] \in Seq(Row) /\ FileTold(queue[v])
  BY DEF IInv, TypeOK, CopiesSound, CopiesTold
<1>2. \A v \in Writer : queue'[v] = IF v = w THEN Append(queue[w], r) ELSE queue[v]
  BY DEF IInv, TypeOK, Enqueue
<1>3. QED
  BY <1>1, <1>2, ToldAppend

LEMMA WritersCopies ==
  ASSUME IInv, HonestInv,
         \/ \E c \in ProxyCmds : ProxyStep(c)
         \/ \E c \in SchedCmds : SchedulerStep(c)
  PROVE  NextCopies
<1> USE DEF HonestInv
<1>a. /\ TypeOK /\ Consistent /\ CopiesSound /\ MemoryTrue
      /\ \A r \in cloud : Told(r)
      /\ \A w \in Writer : FileTold(queue[w]) /\ FileTold(draining[w])
      /\ FileTold(drain.left) /\ FileTold(drain.live) /\ FileTold(patching.entries)
  BY DEF IInv, CopiesSound, CopiesTold
<1>1. ASSUME NEW c \in ProxyCmds,
             RecordOnEdge(c) \/ RecordFails(c) \/ NoteOnEdge(c) \/ SettleUploaded(c) \/ SettleForget(c)
      PROVE  NextCopies
  BY <1>a, <1>1 DEF RecordOnEdge, RecordFails, NoteOnEdge, SettleUploaded, SettleForget, files, NextCopies, CopiesTold
<1>2. ASSUME NEW c \in ProxyCmds, SettleAsk(c) PROVE NextCopies
  <2>1. inflight[c] # NoRow
    BY <1>a, <1>2 DEF SettleAsk, Consistent, Active
  <2>2. Told(Record(c))
    BY <1>2, <2>1, RecordTold DEF SettleAsk
  <2>3. QED
    BY <1>a, <1>2, <2>2 DEF SettleAsk, NextCopies, CopiesTold
<1>3. ASSUME NEW c \in ProxyCmds, SettleQueue(c) \/ RecoverOne(c) PROVE NextCopies
  <2>1. inflight[c] # NoRow /\ (stage[c] = "asked" \/ starting) /\ Enqueue("proxy", Record(c))
    BY <1>a, <1>3 DEF SettleQueue, RecoverOne, Consistent, Active
  <2>2. Record(c) \in Row /\ Told(Record(c))
    BY <2>1, RecordTold
  <2>3. \A v \in Writer : FileTold(queue'[v])
    BY <1>a, <2>1, <2>2, EnqueueTold DEF Writer
  <2>4. QED
    BY <1>a, <1>3, <2>3 DEF SettleQueue, RecoverOne, NextCopies, CopiesTold
<1>4. ASSUME NEW c \in SchedCmds, Insert(c) PROVE NextCopies
  BY <1>a, <1>4, OpeningTold DEF Insert, NextCopies, CopiesTold
<1>5. ASSUME NEW c \in SchedCmds, InsertAnswered(c) \/ InsertRefused(c) \/ PatchMissed(c) PROVE NextCopies
  BY <1>a, <1>5 DEF InsertAnswered, InsertRefused, PatchMissed, files, NextCopies, CopiesTold
<1>6. ASSUME NEW c \in SchedCmds, InsertBuffered(c) PROVE NextCopies
  <2>1. \A v \in Writer : FileTold(queue'[v])
    BY <1>a, <1>6, OpeningTold, EnqueueTold DEF InsertBuffered, Writer
  <2>2. QED
    BY <1>a, <1>6, <2>1 DEF InsertBuffered, NextCopies, CopiesTold
<1>7. ASSUME NEW c \in SchedCmds, NoteRemote(c) PROVE NextCopies
  BY <1>a, <1>7, OutcomeTold DEF NoteRemote, NextCopies, CopiesTold
<1>8. ASSUME NEW c \in SchedCmds, PatchRead(c) PROVE NextCopies
  BY <1>a, <1>8 DEF PatchRead, files, Writer, NextCopies, CopiesTold
<1>9. ASSUME NEW c \in SchedCmds, PatchTruncate(c) PROVE NextCopies
  <2>1. \A v \in Writer : FileTold(queue'[v])
    BY <1>a, <1>9, ToldEmpty DEF PatchTruncate, TypeOK
  <2>2. patching'.entries = patching.entries
    BY <1>a, <1>9 DEF PatchTruncate, TypeOK
  <2>3. QED
    BY <1>a, <1>9, <2>1, <2>2 DEF PatchTruncate, NextCopies, CopiesTold
<1>10. ASSUME NEW c \in SchedCmds, PatchWrite(c) PROVE NextCopies
  <2>1. stage[c] = "acted" /\ c \in Cmd /\ patching.entries \in Seq(Row)
    BY <1>a, <1>10 DEF PatchWrite, Consistent, TypeOK, Cmd
  <2>2. FileTold(Patched(patching.entries, c))
    BY <1>a, <2>1, OutcomeTold, ToldPatched
  <2>3. /\ queue' \in {queue, [queue EXCEPT !["scheduler"] = Patched(patching.entries, c)]}
        /\ draining' \in {draining, [draining EXCEPT !["scheduler"] = Patched(patching.entries, c)]}
        /\ UNCHANGED <<cloud, drain>>
    BY <1>10 DEF PatchWrite
  <2>4. \A v \in Writer : FileTold(queue'[v]) /\ FileTold(draining'[v])
    BY <1>a, <2>2, <2>3 DEF TypeOK, Writer
  <2>5. patching'.entries = <<>>
    BY <1>10 DEF PatchWrite, NotPatching
  <2>6. QED
    BY <1>a, <2>3, <2>4, <2>5, ToldEmpty DEF NextCopies, CopiesTold
<1>11. QED
  BY <1>1, <1>2, <1>3, <1>4, <1>5, <1>6, <1>7, <1>8, <1>9, <1>10 DEF ProxyStep, SchedulerStep

LEMMA DrainCopies ==
  ASSUME IInv, HonestInv,
         IngestStep \/ Fault \/ RecoverDone \/ UNCHANGED vars \/ \E c \in Cmd : Dispatch(c)
  PROVE  NextCopies
<1>a. /\ TypeOK /\ Custody /\ drain.file \in Writer
      /\ drain.left \in Seq(Row) /\ drain.live \in Seq(Row)
      /\ \A w \in Writer : queue[w] \in Seq(Row) /\ draining[w] \in Seq(Row)
      /\ \A r \in cloud : Told(r)
      /\ \A w \in Writer : FileTold(queue[w]) /\ FileTold(draining[w])
      /\ FileTold(drain.left) /\ FileTold(drain.live) /\ FileTold(patching.entries)
  BY DEF IInv, HonestInv, CopiesSound, CopiesTold, TypeOK, Custody
<1>1. ASSUME NEW w \in Writer, Take(w) PROVE NextCopies
  <2>1. \A v \in Writer : FileTold(queue'[v]) /\ FileTold(draining'[v])
    BY <1>a, <1>1, ToldEmpty DEF Take, Rename, TypeOK
  <2>2. FileTold(drain'.left) /\ drain'.live = <<>>
    <3>1. PICK s \in {queue[w], draining[w]} : drain' = Uploading(w, s)
      BY <1>1 DEF Take, Rename
    <3>2. s \in Seq(Row) /\ FileTold(s)
      BY <1>a
    <3>3. QED
      BY <3>1, <3>2, UploadingType
  <2>3. patching'.entries = patching.entries /\ cloud' = cloud
    BY <1>a, <1>1 DEF Take, Rename, TypeOK
  <2>4. QED
    BY <1>a, <2>1, <2>2, <2>3, ToldEmpty DEF NextCopies, CopiesTold
<1>2. CASE Send \/ SendFails
  <2>1. Told(Head(drain.left)) /\ FileTold(Tail(drain.left))
    BY <1>a, <1>2, ToldTail DEF Send, SendFails
  <2>2. \A r \in cloud' : Told(r)
    BY <1>a, <1>2, <2>1 DEF Send, SendFails
  <2>3. drain'.live = drain.live /\ drain'.left \in {drain.left, Tail(drain.left)}
    BY <1>a, <1>2 DEF Send, SendFails, TypeOK
  <2>4. QED
    BY <1>a, <1>2, <2>1, <2>2, <2>3 DEF Send, SendFails, NextCopies, CopiesTold
<1>3. CASE RestoreRead
  <2>1. drain'.live = queue[drain.file] /\ drain'.left = drain.left
    BY <1>a, <1>3 DEF RestoreRead, TypeOK
  <2>2. QED
    BY <1>a, <1>3, <2>1 DEF RestoreRead, files, NextCopies, CopiesTold
<1>9. CASE RestoreTruncate
  <2>1. drain'.live = drain.live /\ drain'.left = drain.left
    BY <1>a, <1>9 DEF RestoreTruncate, TypeOK
  <2>2. \A v \in Writer : FileTold(queue'[v])
    BY <1>a, <1>9, ToldEmpty DEF RestoreTruncate, TypeOK
  <2>3. QED
    BY <1>a, <1>9, <2>1, <2>2 DEF RestoreTruncate, NextCopies, CopiesTold
<1>4. CASE RestoreWrite
  <2>1. FileTold(PutBack)
    BY <1>a, ToldConcat DEF PutBack
  <2>2. \A v \in Writer : FileTold(queue'[v])
    BY <1>a, <1>4, <2>1 DEF RestoreWrite, TypeOK
  <2>3. drain'.live = <<>> /\ drain'.left = <<>>
    BY <1>a, <1>4 DEF RestoreWrite, TypeOK
  <2>4. QED
    BY <1>a, <1>4, <2>2, <2>3, ToldEmpty DEF RestoreWrite, NextCopies, CopiesTold
<1>5. CASE Acknowledge
  <2>1. \A v \in Writer : FileTold(draining'[v])
    BY <1>a, <1>5, ToldEmpty DEF Acknowledge, TypeOK
  <2>2. drain'.live = <<>> /\ drain'.left = <<>>
    BY <1>5 DEF Acknowledge, Idle
  <2>3. patching'.entries = patching.entries /\ UNCHANGED <<cloud, queue>>
    BY <1>a, <1>5 DEF Acknowledge, TypeOK
  <2>4. QED
    BY <1>a, <2>1, <2>2, <2>3, ToldEmpty DEF NextCopies, CopiesTold
<1>6. CASE ProxyCrash \/ SchedulerCrash \/ IngestCrash \/ (\E w \in Writer : Writeback(w))
  <2>1. /\ UNCHANGED files /\ drain' \in {drain, Idle}
        /\ patching'.entries \in {patching.entries, <<>>}
    BY <1>6 DEF ProxyCrash, SchedulerCrash, IngestCrash, Writeback, NotPatching, files, memory
  <2>2. drain'.live \in {drain.live, <<>>} /\ drain'.left \in {drain.left, <<>>}
    BY <2>1 DEF Idle
  <2>3. QED
    BY <1>a, <2>1, <2>2, ToldEmpty DEF files, NextCopies, CopiesTold
<1>7. CASE PowerCut
  <2>1. PICK q \in [Writer -> 0..Longest], d \in [Writer -> 0..Longest] :
          /\ \A w \in Writer : /\ q[w] \in synced.queue[w]..Len(queue[w])
                               /\ d[w] \in synced.draining[w]..Len(draining[w])
          /\ queue' = [w \in Writer |-> SubSeq(queue[w], 1, q[w])]
          /\ draining' = [w \in Writer |-> SubSeq(draining[w], 1, d[w])]
    BY <1>7 DEF PowerCut, Survivors
  <2>2. ASSUME NEW w \in Writer PROVE FileTold(queue'[w]) /\ FileTold(draining'[w])
    <3>1. synced.queue[w] \in Nat /\ synced.draining[w] \in Nat
      BY <1>a DEF TypeOK
    <3>2. q[w] \in 0..Len(queue[w]) /\ d[w] \in 0..Len(draining[w])
      BY <1>a, <2>1, <3>1
    <3>3. \A f \in Seq(Row) : \A n \in 0..Len(f) : FileTold(f) => FileTold(SubSeq(f, 1, n))
      BY ToldPart
    <3>4. FileTold(SubSeq(queue[w], 1, q[w])) /\ FileTold(SubSeq(draining[w], 1, d[w]))
      BY <1>a, <3>2, <3>3
    <3>5. QED
      BY <2>1, <3>4
  <2>3. drain'.live = <<>> /\ drain'.left = <<>> /\ patching'.entries = <<>> /\ cloud' = cloud
    BY <1>7 DEF PowerCut, Idle, NotPatching
  <2>4. QED
    BY <1>a, <2>2, <2>3, ToldEmpty DEF NextCopies, CopiesTold
<1>8. CASE RecoverDone \/ UNCHANGED vars \/ \E c \in Cmd : Dispatch(c)
  BY <1>a, <1>8 DEF RecoverDone, Dispatch, files, vars, NextCopies, CopiesTold
<1>10. QED
  BY <1>1, <1>2, <1>3, <1>4, <1>5, <1>6, <1>7, <1>8, <1>9 DEF IngestStep, Fault

LEMMA CopiesStep ==
  ASSUME IInv, HonestInv, [Next]_vars
  PROVE  CopiesSound'
<1>1. NextCopies
  BY WritersCopies, DrainCopies DEF Next
<1>2. TypeOK'
  BY TypesStep
<1>3. \A r \in cloud' : Told(r)'
  BY <1>1, <1>2, ToldStays DEF NextCopies, CopiesTold, TypeOK
<1>4. ASSUME NEW f \in Seq(Row), FileTold(f), NEW i \in 1..Len(f)
      PROVE  Told(f[i])'
  BY <1>4, ToldStays DEF FileTold
<1>5. \A w \in Writer : FileTold(queue[w])' /\ FileTold(draining[w])'
  BY <1>1, <1>2, <1>4 DEF NextCopies, CopiesTold, TypeOK, FileTold
<1>6. FileTold(drain.left)' /\ FileTold(drain.live)' /\ FileTold(patching.entries)'
  BY <1>1, <1>2, <1>4 DEF NextCopies, CopiesTold, TypeOK, FileTold
<1>7. QED
  BY <1>3, <1>5, <1>6 DEF CopiesSound, CopiesTold

\* A person's command that is settled is held, outside the in-flight file too.
SettledHeld == \A c \in ProxyCmds : stage[c] = "done" => Elsewhere(c)

LEMMA SettledStep ==
  ASSUME IInv, SettledHeld, [Next]_vars
  PROVE  SettledHeld'
<1> SUFFICES ASSUME NEW c \in ProxyCmds, stage'[c] = "done" PROVE Elsewhere(c)'
  BY DEF SettledHeld
<1>a. /\ TypeOK /\ Consistent /\ Custody /\ stage \in [Cmd -> Stage]
      /\ c \in Cmd /\ \A p \in SchedCmds : p # c
  BY DEF IInv, TypeOK, Cmd
<1>1. TypeOK'
  BY TypesStep
<1>2. CASE stage[c] = "done" \/ stage[c] = "handed"
  BY <1>a, <1>1, <1>2, ElsewhereStays DEF SettledHeld, Custody
<1>3. CASE stage[c] # "done" /\ stage[c] # "handed"
  <2>1. SettleUploaded(c)
    <3> USE <1>a, <1>3 DEF Goto
    <3>1. CASE \E p \in ProxyCmds : ProxyStep(p)
      BY <3>1 DEF ProxyStep, RecordOnEdge, RecordFails, NoteOnEdge, SettleAsk, SettleUploaded, SettleQueue,
                  SettleForget, RecoverOne
    <3>2. CASE \E p \in SchedCmds : SchedulerStep(p)
      BY <3>2 DEF SchedulerStep, Insert, InsertAnswered, InsertRefused, InsertBuffered, Recorded, NoteRemote,
                  PatchRead, PatchMissed, PatchTruncate, PatchWrite
    <3>3. CASE \E p \in Cmd : Dispatch(p)
      BY <3>3 DEF Dispatch
    <3>4. CASE RecoverDone \/ IngestStep \/ UNCHANGED vars
      BY <3>4 DEF RecoverDone, IngestStep, Take, Rename, Send, SendFails, RestoreRead, RestoreTruncate, RestoreWrite, Acknowledge, vars
    <3>5. CASE Fault
      BY <3>5 DEF Fault, ProxyCrash, SchedulerCrash, IngestCrash, PowerCut, Writeback, Drop, memory
    <3>6. QED
      BY <3>1, <3>2, <3>3, <3>4, <3>5 DEF Next
  <2>2. Record(c) \in cloud' /\ Record(c).cmd = c
    BY <2>1 DEF SettleUploaded, Record, RowOf
  <2>3. QED
    BY <2>2 DEF Elsewhere, Copied, InCloud
<1>4. QED
  BY <1>2, <1>3

LEMMA HonestInit == Init => HonestInv /\ SettledHeld
<1>1. Init => MemoryTrue
  BY DEF Init, Quiet, MemoryTrue, NoRow, Cmd
<1>2. Init => CopiesSound
  BY ToldEmpty DEF Init, Quiet, Idle, NotPatching, CopiesSound, CopiesTold
<1>3. Init => SettledHeld
  BY DEF Init, Quiet, SettledHeld, Cmd
<1>4. QED
  BY <1>1, <1>2, <1>3 DEF HonestInv

LEMMA HonestAlways == Spec => [](IInv /\ HonestInv /\ SettledHeld)
<1>1. ASSUME IInv, HonestInv, SettledHeld, [Next]_vars PROVE HonestInv' /\ SettledHeld'
  BY <1>1, MemoryStep, CopiesStep, SettledStep DEF HonestInv
<1>2. QED
  BY Inductive, HonestInit, <1>1, PTL DEF Spec

\* No copy of a row claims more or less than happened, for any commands and any number
\* of crashes and power cuts: `dispatched` is said of a relay that moved, `dry_run` of one
\* nobody asked, and `dispatching` stands in the table only for a person's command whose
\* handler was interrupted (auditQueue.mjs:94-133, 152-232; auditedDispatch.mjs:60-105).
THEOREM CopiesHonest == Spec => []RowsHonest
<1>1. IInv /\ HonestInv => RowsHonest
  <2> SUFFICES ASSUME IInv, HonestInv, NEW r \in AllRows
               PROVE  /\ (r.status = "dispatched" => r.cmd \in moved)
                      /\ (r.status = "dry_run" => r.cmd \notin moved)
                      /\ (r \in cloud /\ r.status = "dispatching" /\ r.cmd \in ProxyCmds
                            => stage[r.cmd] = "lost")
    BY DEF RowsHonest
  <2>1. CASE r \in cloud
    BY <2>1 DEF HonestInv, MemoryTrue, CopiesSound, CopiesTold, Told
  <2>2. ASSUME NEW s, FileTold(s), r \in RowsIn(s)
        PROVE  /\ (r.status = "dispatched" => r.cmd \in moved)
               /\ (r.status = "dry_run" => r.cmd \notin moved)
               /\ (r.status = "dispatching" /\ r.cmd \in ProxyCmds => stage[r.cmd] = "lost")
    <3>1. Told(r)
      BY <2>2 DEF FileTold, RowsIn
    <3>2. QED
      BY <3>1 DEF HonestInv, MemoryTrue, Told
  <2>3. CASE r \notin cloud /\ \E p \in ProxyCmds : inflight[p] # NoRow /\ r = Record(p)
    BY <2>3 DEF HonestInv, MemoryTrue, Record, RowOf
  <2>4. \/ r \in cloud
        \/ \E s \in {drain.left, drain.live, patching.entries} \cup {queue[w] : w \in Writer}
                    \cup {draining[w] : w \in Writer} : r \in RowsIn(s)
        \/ \E p \in ProxyCmds : inflight[p] # NoRow /\ r = Record(p)
    BY DEF AllRows, Copies, Pending
  <2>5. \A s \in {drain.left, drain.live, patching.entries} \cup {queue[w] : w \in Writer}
                    \cup {draining[w] : w \in Writer} : FileTold(s)
    BY DEF HonestInv, CopiesSound, CopiesTold
  <2>6. QED
    BY <2>1, <2>2, <2>3, <2>4, <2>5
<1>2. QED
  BY HonestAlways, <1>1, PTL

\* Once a person's command is settled its outcome is in the trail, for any number of
\* crashes: no copy that says `dispatching` or the other outcome takes its place. A copy may
\* be in the memory of a process that is rewriting a queue; the row is gone altogether only
\* when a rewrite dropped it, did not land, or a power cut took it (auditQueue.mjs:94-133,
\* 168-258; ingestBuffer.mjs:31-39).
THEOREM OutcomesKept == Spec => []OutcomeKept
<1>1. IInv /\ HonestInv /\ SettledHeld => OutcomeKept
  <2> SUFFICES ASSUME IInv, HonestInv, SettledHeld, NEW c \in ProxyCmds \cap Dispatchable,
                      stage[c] = "done", ~LossKnown(c)
               PROVE  RowOf(c, outcome[c]) \in Copies
    BY DEF OutcomeKept
  <2>1. ASSUME NEW r \in Row, r.cmd = c, Told(r) PROVE r = RowOf(c, outcome[c])
    BY <2>1 DEF Told, Row, RowOf
  <2>2. ASSUME NEW s \in Seq(Row), FileTold(s), c \in CmdsIn(s)
        PROVE  RowOf(c, outcome[c]) \in RowsIn(s)
    <3>1. PICK i \in 1..Len(s) : s[i].cmd = c
      BY <2>2 DEF CmdsIn
    <3>2. s[i] \in Row /\ Told(s[i])
      BY <2>2 DEF FileTold
    <3>3. QED
      BY <2>1, <3>1, <3>2 DEF RowsIn
  <2>3. InCloud(c) \/ InQueues(c) \/ InHand(c)
    BY DEF SettledHeld, Elsewhere, Copied
  <2>4. /\ \A w \in Writer : /\ queue[w] \in Seq(Row) /\ FileTold(queue[w])
                            /\ draining[w] \in Seq(Row) /\ FileTold(draining[w])
        /\ drain.left \in Seq(Row) /\ FileTold(drain.left)
        /\ drain.live \in Seq(Row) /\ FileTold(drain.live)
        /\ patching.entries \in Seq(Row) /\ FileTold(patching.entries)
    BY DEF IInv, TypeOK, HonestInv, CopiesSound, CopiesTold
  <2>5. CASE InCloud(c)
    <3>1. PICK r \in cloud : r.cmd = c
      BY <2>5 DEF InCloud
    <3>2. r \in Row /\ Told(r)
      BY DEF IInv, TypeOK, HonestInv, CopiesSound, CopiesTold
    <3>3. QED
      BY <2>1, <3>1, <3>2 DEF Copies
  <2>6. CASE InQueues(c)
    <3>1. PICK w \in Writer : c \in CmdsIn(queue[w]) \cup CmdsIn(Pending(w))
      BY <2>6 DEF InQueues
    <3>2. Pending(w) \in Seq(Row) /\ FileTold(Pending(w))
      BY <2>4 DEF Pending
    <3>3. RowOf(c, outcome[c]) \in RowsIn(queue[w]) \cup RowsIn(Pending(w))
      BY <2>2, <2>4, <3>1, <3>2
    <3>4. QED
      BY <3>3 DEF Copies
  <2>7. CASE InHand(c)
    <3>1. CASE patching.into # "none" /\ c \in CmdsIn(patching.entries)
      BY <2>2, <2>4, <3>1 DEF Copies
    <3>2. CASE drain.phase = "rewriting" /\ c \in CmdsIn(drain.live)
      BY <2>2, <2>4, <3>2 DEF Copies
    <3>3. QED
      BY <2>7, <3>1, <3>2 DEF InHand
  <2>8. QED
    BY <2>3, <2>5, <2>6, <2>7
<1>2. QED
  BY HonestAlways, <1>1, PTL
=============================================================================
