--------------------------- MODULE ScheduleStore ---------------------------
(***************************************************************************)
(* The schedules of a page (scheduleStore.ts): a list of rules that is     *)
(* read once and then kept up by the answers to the page's own writes.     *)
(* Every change is written at once and as a whole row.  Requests reach the *)
(* database, and answers the page, in any order, and may be refused or     *)
(* lost.                                                                   *)
(*                                                                         *)
(* A rule is what its fields say: the number of the request that set each, *)
(* 0 for one nobody has set.  Request 1 was made long ago.                 *)
(***************************************************************************)
EXTENDS Naturals, FiniteSets, Functions

CONSTANTS
  Field,        \* the times and days of a rule, and its arming
  Arming,       \* ... the latter, whose switch waits for the write before
  MaxRequests,  \* bound: writes
  MaxFaults     \* bound: requests refused or answers lost

Rule == 1..MaxRequests            \* by the request that inserts it
CREATING == 0                     \* where the state of a rule without an id is kept
NotRead == [r \in {0} |-> 0]      \* no list

VARIABLES
  table,        \* the table `schedules`: rule -> row
  schedules,    \* ... as the page has it
  list,         \* the list on its way to the page, or NotRead
  status,
  requests,     \* under way: [n, kind, rule, row, outcome]
  busy, rowError,
  sent, faults,
  hasty,        \* rules written to while a write to them, or the list, was under way (history)
  unheard       \* rules inserted without the page hearing of it (history)

schedulestore_vars == <<table, schedules, list, status, requests, busy, rowError, sent, faults,
  hasty, unheard>>

Blank == [f \in Field |-> 0]
IsBlank(row) == \A f \in Field \ {Arming} : row[f] = 0

Init ==
  /\ table \in {[r \in {1} |-> Blank], [r \in {1} |-> [f \in Field |-> 1]]} /\ schedules = [r \in {} |-> Blank]
  /\ list = NotRead /\ status = "loading"
  /\ requests = {} /\ sent = 1 /\ faults = 0
  /\ busy = [k \in Rule \cup {CREATING} |-> FALSE] /\ rowError = busy
  /\ hasty = {} /\ unheard = {}

Fault == faults < MaxFaults /\ faults' = faults + 1

-----------------------------------------------------------------------------
(***************************************************************************)
(* The list.  A failed read is repeated until one is answered.             *)
(***************************************************************************)
Fetch ==
  /\ status = "loading" /\ list = NotRead /\ list' = table
  /\ UNCHANGED <<table, schedules, status, requests, busy, rowError, sent, faults, hasty, unheard>>

Loaded ==
  /\ list # NotRead /\ schedules' = list /\ list' = NotRead /\ status' = "ready"
  /\ unheard' = unheard \cup (DOMAIN schedules \ DOMAIN list)
  /\ UNCHANGED <<table, requests, busy, rowError, sent, faults, hasty>>

LoadFails ==
  /\ list # NotRead /\ Fault /\ list' = NotRead
  /\ UNCHANGED <<table, schedules, status, requests, busy, rowError, sent, hasty, unheard>>

-----------------------------------------------------------------------------
(***************************************************************************)
(* What a person does.                                                     *)
(***************************************************************************)
\* Where the page keeps what it knows of a request.
Key(q) == IF q.kind = "insert" THEN CREATING ELSE q.rule

UnderWay(r) == \E q \in requests : q.rule = r

Request(kind, r, row) ==
  LET q == [n |-> sent + 1, kind |-> kind, rule |-> r, row |-> row, outcome |-> "asked"] IN
  /\ sent < MaxRequests /\ sent' = sent + 1
  /\ requests' = requests \cup {q}
  /\ busy' = [busy EXCEPT ![Key(q)] = TRUE] /\ rowError' = [rowError EXCEPT ![Key(q)] = FALSE]
  /\ hasty' = IF status = "loading" \/ UnderWay(r) THEN hasty \cup {r} ELSE hasty
  /\ UNCHANGED <<table, schedules, list, status, faults, unheard>>

\* addRule: not while one is being added, nor beside a rule still blank.
Create ==
  /\ ~busy[CREATING] /\ \A r \in DOMAIN schedules : ~IsBlank(schedules[r])
  /\ Request("insert", sent + 1, Blank)

\* The row on the page, with the change.
Patched(r, f) == [schedules[r] EXCEPT ![f] = sent + 1]

\* patch: of the controls only the switch waits while the rule is busy.
Patch(r, f) ==
  /\ r \in DOMAIN schedules /\ (f = Arming => ~busy[r])
  /\ Request("update", r, Patched(r, f))

Remove(r) ==
  /\ r \in DOMAIN schedules /\ ~busy[r]
  /\ Request("delete", r, Blank)

-----------------------------------------------------------------------------
(***************************************************************************)
(* What the database makes of a request.                                   *)
(***************************************************************************)
\* An update or delete that finds no row fails; a second blank rule is a duplicate.
Accepts(q) ==
  /\ q.kind # "insert" => q.rule \in DOMAIN table
  /\ q.kind # "delete" /\ IsBlank(q.row) => \A r \in DOMAIN table \ {q.rule} : ~IsBlank(table[r])

Written(q) ==
  IF q.kind = "delete"
  THEN Restrict(table, DOMAIN table \ {q.rule})
  ELSE [r \in DOMAIN table \cup {q.rule} |-> IF r = q.rule THEN q.row ELSE table[r]]

Became(q, outcome) == requests' = (requests \ {q}) \cup {[q EXCEPT !.outcome = outcome]}

Store(q) ==
  /\ q.outcome = "asked"
  /\ IF Accepts(q)
     THEN table' = Written(q) /\ Became(q, "done")
     ELSE UNCHANGED table /\ Became(q, "failed")
  /\ UNCHANGED <<schedules, list, status, busy, rowError, sent, faults, hasty, unheard>>

\* Refused, not sent, or sent and its answer lost: the page cannot tell which.
Fail(q) ==
  /\ q.outcome # "failed" /\ Fault /\ Became(q, "failed")
  /\ unheard' = IF q.kind = "insert" /\ q.outcome = "done" THEN unheard \cup {q.rule} ELSE unheard
  /\ UNCHANGED <<table, schedules, list, status, busy, rowError, sent, hasty>>

-----------------------------------------------------------------------------
(***************************************************************************)
(* What the page makes of an answer.                                       *)
(***************************************************************************)
\* Mutant: a change that was stored is not taken over.
AcknowledgedUnread(q) ==
  CASE q.kind = "insert" -> [r \in DOMAIN schedules \cup {q.rule} |->
                               IF r = q.rule THEN q.row ELSE schedules[r]]
    [] q.kind = "update" -> schedules
    [] q.kind = "delete" -> Restrict(schedules, DOMAIN schedules \ {q.rule})

Acknowledged(q) ==
  CASE q.kind = "insert" -> [r \in DOMAIN schedules \cup {q.rule} |->
                               IF r = q.rule THEN q.row ELSE schedules[r]]
    [] q.kind = "update" -> [r \in DOMAIN schedules |-> IF r = q.rule THEN q.row ELSE schedules[r]]
    [] q.kind = "delete" -> Restrict(schedules, DOMAIN schedules \ {q.rule})

Answer(q) ==
  /\ q.outcome = "done" /\ requests' = requests \ {q}
  /\ schedules' = Acknowledged(q) /\ busy' = [busy EXCEPT ![Key(q)] = FALSE]
  /\ UNCHANGED <<table, list, status, rowError, sent, faults, hasty, unheard>>

\* Mutant: a rule leaves the page though its removal failed.
LeftAfter(q) == IF q.kind = "delete" THEN Restrict(schedules, DOMAIN schedules \ {q.rule}) ELSE schedules
\* After a failure the list stays as it was.
KeptAfter(q) == schedules

AnswerFailed(q) ==
  /\ q.outcome = "failed" /\ requests' = requests \ {q}
  /\ schedules' = KeptAfter(q)
  /\ busy' = [busy EXCEPT ![Key(q)] = FALSE] /\ rowError' = [rowError EXCEPT ![Key(q)] = TRUE]
  /\ UNCHANGED <<table, list, status, sent, faults, hasty, unheard>>

Next ==
  \/ Fetch \/ Loaded \/ LoadFails
  \/ Create \/ (\E r \in Rule : Remove(r) \/ \E f \in Field : Patch(r, f))
  \/ \E q \in requests : Store(q) \/ Fail(q) \/ Answer(q) \/ AnswerFailed(q)

Spec == Init /\ [][Next]_schedulestore_vars

-----------------------------------------------------------------------------
TypeOK ==
  /\ DOMAIN table \subseteq Rule /\ DOMAIN schedules \subseteq Rule
  /\ \A r \in DOMAIN table : table[r] \in [Field -> 0..MaxRequests]
  /\ \A r \in DOMAIN schedules : schedules[r] \in [Field -> 0..MaxRequests]
  /\ list = NotRead \/ DOMAIN list \subseteq Rule
  /\ status \in {"loading", "ready"}
  /\ \A q \in requests :
       /\ q.n \in 1..sent /\ q.kind \in {"insert", "update", "delete"} /\ q.rule \in Rule
       /\ q.row \in [Field -> 0..MaxRequests] /\ q.outcome \in {"asked", "done", "failed"}
  /\ busy \in [Rule \cup {CREATING} -> BOOLEAN] /\ rowError \in [Rule \cup {CREATING} -> BOOLEAN]
  /\ sent \in 0..MaxRequests /\ faults \in 0..MaxFaults
  /\ hasty \subseteq Rule /\ unheard \subseteq Rule

\* No rule goes on switching the building unseen: whatever is refused, lost or
\* reordered, a rule of the table is on the page once the list has been read, except
\* one that the page created without hearing of it.
NothingVanishes ==
  status = "ready" => \A r \in DOMAIN table \ unheard : r \in DOMAIN schedules \/ UnderWay(r)

\* A rule on the page with no write under way and no error beside it is in the table,
\* and says what the page says, unless it was changed while a change, or the list, was
\* under way.
ShownIsStored ==
  status = "ready" =>
    \A r \in DOMAIN schedules :
      \/ UnderWay(r) \/ rowError[r] \/ r \in hasty
      \/ r \in DOMAIN table /\ table[r] = schedules[r]

\* A change of one field leaves the others of the rule as they are: the row is written
\* whole so as not to clobber them.
OthersKept ==
  [][\A r \in DOMAIN table \cap DOMAIN table' :
       Cardinality({f \in Field : table'[r][f] # table[r][f]}) <= 1]_schedulestore_vars
=============================================================================
