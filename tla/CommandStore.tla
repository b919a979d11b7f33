---------------------------- MODULE CommandStore ----------------------------
(***************************************************************************)
(* The browser's command store, src/src/stores/commandStore.ts: a command  *)
(* takes one of a few slots or queues for one, is asked of the proxy, is   *)
(* answered or abandoned, and is reconciled with what the feed shows.      *)
(*                                                                         *)
(* Commands are numbered in the order send() is called.  JavaScript runs   *)
(* one handler at a time: each action is the code between two awaits.      *)
(* Time is left out: the limits reconcile compares with the clock (15 s    *)
(* and 30 s, COMMAND_CONFIRM_MS) are passed or not by a free choice, under *)
(* the assumption that nobody queues for 30 s (24 commands would have to   *)
(* be ahead of it, each taking the whole 5 s).  So is what only words the  *)
(* page: observedBefore, error texts, cloudRecoveries.                     *)
(***************************************************************************)
EXTENDS Naturals, Sequences, FiniteSets, SequencesExt

CONSTANTS Target,           \* what a command addresses: a socket or a device
          MaxInFlight,      \* MAX_COMMANDS_IN_FLIGHT
          MaxCommands       \* bound: commands issued in a behaviour

ASSUME StoreAssumption == MaxInFlight \in Nat \ {0} /\ MaxCommands \in Nat

VARIABLES
  asks,       \* the calls of send(), in order: target and wanted state
  stage,      \* where each call stands
  waiting,    \* the queue for a slot
  inFlight,   \* the counter of slots taken
  pending,    \* per target: the entry the page shows, or None
  acked,      \* commands the proxy has acknowledged
  sent        \* commands put on the wire

vars == <<asks, stage, waiting, inFlight, pending, acked, sent>>

Cmd == 1..MaxCommands
Issued == 1..Len(asks)
Stages == {"waiting", "resumed", "asked", "done"}
None == [command |-> 0, phase |-> "none"]
Entry == [command : Cmd, phase : {"sending", "confirming", "failed"}]

\* The entry of c's target is c's own: its command_id is the entry's.
Own(c) == pending[asks[c].target].command = c

-----------------------------------------------------------------------------
(* Slots.                                                                  *)

\* Mutant: the call resumed does not count itself.
ReleaseSlotUncounted(ended) ==
  /\ inFlight' = inFlight - 1
  /\ stage' = IF waiting = <<>> THEN ended
              ELSE [ended EXCEPT ![Head(waiting)] = "resumed"]
  /\ waiting' = IF waiting = <<>> THEN <<>> ELSE Tail(waiting)

\* releaseSlot(): the slot goes to the head of the queue, which resumes in a
\* microtask of its own.
ReleaseSlot(ended) ==
  IF waiting = <<>>
  THEN /\ inFlight' = inFlight - 1
       /\ stage' = ended
       /\ UNCHANGED waiting
  ELSE /\ stage' = [ended EXCEPT ![Head(waiting)] = "resumed"]
       /\ waiting' = Tail(waiting)
       /\ UNCHANGED inFlight

\* An event handler starts when the microtasks of the one before it have run.
Settled == \A c \in DOMAIN stage : stage[c] # "resumed"

-----------------------------------------------------------------------------
(* The life of a command.                                                  *)

\* A single click never waits.
HasSlot == inFlight < MaxInFlight

\* send(): the entry is replaced whatever it was.  With a slot free the
\* request leaves in the same tick; otherwise the call queues.
Send(t, on) ==
  LET c == Len(asks) + 1 IN
  /\ Settled
  /\ c <= MaxCommands
  /\ asks' = Append(asks, [target |-> t, on |-> on])
  /\ pending' = [pending EXCEPT ![t] = [command |-> c, phase |-> "sending"]]
  /\ IF HasSlot
     THEN /\ inFlight' = inFlight + 1
          /\ stage' = Append(stage, "asked")
          /\ sent' = sent \cup {c}
          /\ UNCHANGED waiting
     ELSE /\ stage' = Append(stage, "waiting")
          /\ waiting' = Append(waiting, c)
          /\ UNCHANGED <<inFlight, sent>>
  /\ UNCHANGED acked

\* dispatch() of a call that queued: superseded, or no longer in the page,
\* it ends without a request and gives its slot back.
Superseded(c) ==
  /\ stage[c] = "resumed"
  /\ ~Own(c)
  /\ ReleaseSlot([stage EXCEPT ![c] = "done"])
  /\ UNCHANGED <<asks, pending, acked, sent>>

\* Mutant: nothing is checked before the request leaves.
AskAnyway(c) ==
  /\ stage[c] = "resumed"
  /\ stage' = [stage EXCEPT ![c] = "asked"]
  /\ sent' = sent \cup {c}
  /\ UNCHANGED <<asks, waiting, inFlight, pending, acked>>

Ask(c) ==
  /\ stage[c] = "resumed"
  /\ Own(c)
  /\ stage' = [stage EXCEPT ![c] = "asked"]
  /\ sent' = sent \cup {c}
  /\ UNCHANGED <<asks, waiting, inFlight, pending, acked>>

\* Mutant: a late answer settles whatever entry it finds.
MarkedAnyway(c, phase) ==
  LET t == asks[c].target IN
  IF pending[t] = None THEN pending ELSE [pending EXCEPT ![t].phase = phase]

\* The entry a command settles when it ends, if it still owns it.
Marked(c, phase) ==
  IF Own(c) THEN [pending EXCEPT ![asks[c].target].phase = phase] ELSE pending

\* The proxy accepted the command.
Acknowledged(c) ==
  /\ stage[c] = "asked"
  /\ pending' = Marked(c, "confirming")
  /\ acked' = acked \cup {c}
  /\ ReleaseSlot([stage EXCEPT ![c] = "done"])
  /\ UNCHANGED <<asks, sent>>

\* Mutant: only a command that was accepted gives its slot back.
FailedLeaks(c) ==
  /\ stage[c] = "asked"
  /\ pending' = Marked(c, "failed")
  /\ stage' = [stage EXCEPT ![c] = "done"]
  /\ UNCHANGED <<asks, waiting, inFlight, acked, sent>>

\* The request was refused, or gave up after COMMAND_TIMEOUT_MS: the relay may
\* still obey.
Failed(c) ==
  /\ stage[c] = "asked"
  /\ pending' = Marked(c, "failed")
  /\ ReleaseSlot([stage EXCEPT ![c] = "done"])
  /\ UNCHANGED <<asks, acked, sent>>

-----------------------------------------------------------------------------
(* The feed.                                                               *)

\* What reconcile makes of the entry of a target.  agrees: a reading that is
\* not stale shows the state asked for, for whatever reason.  late: the entry
\* has outlived the limit of its phase; one that is being sent does so only
\* once its request has left, 30 s after it was stamped (the leak guard).
Verdict(t, agrees, late) ==
  LET p == pending[t] IN
  CASE p = None -> None
    [] p.phase = "failed" -> IF late THEN None ELSE p
    [] p.phase \in {"sending", "confirming"} ->
         IF agrees THEN None
         ELSE IF late /\ stage[p.command] \in {"asked", "done"}
              THEN [p EXCEPT !.phase = "failed"] ELSE p

\* A frame of the feed; the targets it has no row for are in neither set.
\* What it shows of a relay is free: the relay obeys late or never, and is
\* switched by others too.
Reconcile(agrees, late) ==
  /\ Settled
  /\ pending' = [t \in Target |-> Verdict(t, t \in agrees, t \in late)]
  /\ UNCHANGED <<asks, stage, waiting, inFlight, acked, sent>>

-----------------------------------------------------------------------------
Init ==
  /\ asks = <<>> /\ stage = <<>> /\ waiting = <<>> /\ inFlight = 0
  /\ pending = [t \in Target |-> None]
  /\ acked = {} /\ sent = {}

Dispatch(c) == Superseded(c) \/ Ask(c)
Answer(c) == Acknowledged(c) \/ Failed(c)

Next ==
  \/ \E t \in Target, on \in BOOLEAN : Send(t, on)
  \/ \E c \in Issued : Dispatch(c)
  \/ \E c \in Issued : Answer(c)
  \/ \E agrees \in SUBSET Target : \E late \in SUBSET (Target \ agrees) :
       Reconcile(agrees, late)

Spec == Init /\ [][Next]_vars

\* A microtask runs, and a request ends: it is abandoned after 5 s if nothing
\* answers.
FairSpec ==
  /\ Spec
  /\ \A c \in Cmd : WF_vars(c \in Issued /\ Dispatch(c))
  /\ \A c \in Cmd : WF_vars(c \in Issued /\ Answer(c))

-----------------------------------------------------------------------------
(* Properties.                                                             *)

\* The types of the store.
TypeOK ==
  /\ asks \in Seq([target : Target, on : BOOLEAN]) /\ Len(asks) <= MaxCommands
  /\ stage \in Seq(Stages) /\ Len(stage) = Len(asks)
  /\ waiting \in Seq(Issued)
  /\ inFlight \in 0..MaxInFlight
  /\ pending \in [Target -> Entry \cup {None}]
  /\ acked \subseteq sent /\ sent \subseteq Issued

Newest(c) == \A d \in Issued : asks[d].target = asks[c].target => d <= c

\* releaseSlot and the queue keep the counter exact: it counts the calls that
\* hold a slot, and nobody queues while a slot is free.  The queue holds the
\* waiting calls, first come first served.
SlotsExact ==
  /\ inFlight = Cardinality({c \in Issued : stage[c] \in {"asked", "resumed"}})
  /\ waiting # <<>> => inFlight = MaxInFlight
  /\ ToSet(waiting) = {c \in Issued : stage[c] = "waiting"}
  /\ \A i, j \in DOMAIN waiting : i < j => waiting[i] < waiting[j]

\* An entry belongs to the newest command of its target; it is shown as being
\* confirmed only on that command's own acknowledgement, and as being sent
\* only while the command can still end: no control stays grey for good.
EntryHonest ==
  \A t \in Target :
    LET p == pending[t] IN p # None =>
      /\ asks[p.command].target = t /\ Newest(p.command)
      /\ p.phase = "sending" => stage[p.command] # "done"
      /\ p.phase = "confirming" => p.command \in acked

\* A command the operator has replaced is never put on the wire behind the one
\* that replaced it (the check dispatch makes before it asks).
OnlyNewestAsked ==
  [][\A c \in sent' \ sent :
       \A d \in 1..Len(asks') : asks'[d].target = asks'[c].target => d <= c]_vars

\* Every call of send() ends and gives its slot back, however it ends: the
\* page is never left unable to send.
SlotsReturn == \A c \in Cmd : (c \in Issued) ~> (c \in Issued /\ stage[c] = "done")

\* "Every queued command must still run. A cap that quietly drops commands
\* would be worse than the burst it replaced" (commandStore.test.ts): once
\* the newest call for a target has ended, what was last put on the wire for
\* it is what that call asked for.
LastWordSent ==
  \A c \in sent, d \in Issued :
    /\ asks[c].target = asks[d].target
    /\ \A e \in sent : asks[e].target = asks[c].target => e <= c
    /\ Newest(d) /\ stage[d] = "done"
    => asks[c].on = asks[d].on
=============================================================================
