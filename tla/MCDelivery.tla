---------------------------- MODULE MCDelivery ----------------------------
(***************************************************************************)
(* The two ways from the edge to the cloud, which share no state: the rows *)
(* of commands and the rows of the archive.  `machine` says which of them  *)
(* a behavior is of, and each has to deliver under its own fairness.       *)
(***************************************************************************)
EXTENDS AuditTrail

CONSTANTS p1, s1

CONSTANTS NStreams, MaxRows, MinBatch, MaxBatch, Broken, MaxRestarts

VARIABLES machine

\* ArchiveUpload
VARIABLES archived, cursor, rows, rejects, refusing, phase, at, upto, asked, ends, accepted,
  streak, failed, erred, batch, flagged, read, marked, resend, resending, overtaken, forgot,
  freezes, restarts
uploadVars == <<archived, cursor, rows, rejects, refusing, phase, at, upto, asked, ends, accepted,
  streak, failed, erred, batch, flagged, read, marked, resend, resending, overtaken, forgot,
  freezes, restarts>>

-----------------------------------------------------------------------------
\* The second row of the second stream is refused for good.
U == INSTANCE ArchiveUpload WITH
       cloud <- rows, crashes <- restarts, MaxCrashes <- MaxRestarts,
       RefusedRows <- {<<2, 2>>}, TablesRefuse <- FALSE, MidDrain <- FALSE,
       BudgetRunsOut <- FALSE, MaxFreezes <- 0

AnyInit == machine \in {"commands", "archive"} /\ Init /\ U!Init

CommandSteps == machine = "commands" /\ Next /\ UNCHANGED <<machine, uploadVars>>
ArchiveSteps == machine = "archive" /\ U!Next /\ UNCHANGED <<machine, vars>>

AnyNext == CommandSteps \/ ArchiveSteps

AnySpec == AnyInit /\ [][AnyNext]_<<machine, vars, uploadVars>>

-----------------------------------------------------------------------------
\* Every recorded command reaches the commands table, whichever process stopped, unless a
\* rewrite lost its row or left an empty rotated file in front of its queue.
CommandsDelivered == machine = "commands" /\ Fairness => Delivered
\* Every row of a healthy table that is not itself refused goes up in the end.
RowsDelivered == machine = "archive" /\ U!Fairness => U!Delivered
=============================================================================
