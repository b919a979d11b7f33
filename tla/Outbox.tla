------------------------------- MODULE Outbox -------------------------------
(***************************************************************************)
(* What the edge's archive promises about the rows it owes the cloud, and  *)
(* no more. Per stream, rows are acknowledged in the order they were       *)
(* archived, and a row is acknowledged only when the cloud holds it or it  *)
(* has been set aside as one the cloud will not take. Neither the cloud    *)
(* nor what is set aside ever shrinks, and no acknowledgement is undone.   *)
(***************************************************************************)
EXTENDS Naturals

CONSTANTS
  Stream,      \* the telemetry streams
  Id           \* archive ids

VARIABLES
  archived,    \* per stream, the newest archive id
  through,     \* per stream, everything up to this id is acknowledged
  present,     \* <<stream, id>> of the rows the cloud holds
  aside        \* <<stream, id>> of the rows set aside

obVars == <<archived, through, present, aside>>

ObInit ==
  /\ archived = [s \in Stream |-> 0]
  /\ through = [s \in Stream |-> 0]
  /\ present = {}
  /\ aside = {}

Kept == {r \in Stream \X Id : r[2] <= archived[r[1]]}

\* A tick archives at most one row more in each stream.
Add ==
  /\ archived' \in [Stream -> Id \cup {0}]
  /\ \A s \in Stream : archived'[s] \in {archived[s], archived[s] + 1}
  /\ UNCHANGED <<through, present, aside>>

\* The cloud takes rows the archive keeps.
Store ==
  /\ present \subseteq present' /\ present' \subseteq Kept
  /\ UNCHANGED <<archived, through, aside>>

\* A row is set aside.
SetAside ==
  /\ \E r \in Kept : aside' = aside \cup {r}
  /\ UNCHANGED <<archived, through, present>>

\* A stream is acknowledged up to n, over rows the cloud has, or takes just then,
\* and rows set aside.
Acknowledge(s, n) ==
  /\ through[s] <= n /\ n <= archived[s]
  /\ present \subseteq present' /\ present' \subseteq Kept
  /\ \A i \in Id : through[s] < i /\ i <= n => <<s, i>> \in present' \cup aside
  /\ through' = [through EXCEPT ![s] = n]
  /\ UNCHANGED <<archived, aside>>

ObNext ==
  \/ Add \/ Store \/ SetAside
  \/ \E s \in Stream, n \in Id \cup {0} : Acknowledge(s, n)

ObSpec == ObInit /\ [][ObNext]_obVars
=============================================================================
