----------------------------- MODULE Enrolment -----------------------------
(***************************************************************************)
(* Enrolling, removing and rebinding devices from the app                  *)
(* (enrollService.mjs, removeService.mjs, rebindService.mjs).  Each        *)
(* request writes two places that must agree: the generated registry file, *)
(* which every service imports when it starts, and the Node-RED flow that  *)
(* polls the hardware.  Node-RED takes a flow only from who has read its   *)
(* newest version.                                                         *)
(***************************************************************************)
EXTENDS Integers, FiniteSets, Functions

CONSTANTS
  Fitted,       \* hand-written devices, as many as vendor devices they poll
  Enrollable,   \* devices that may be enrolled
  Vendor,       \* vendor devices: what a node polls
  Op,           \* requests that may run at once
  MaxRequests,  \* bound: requests
  MaxTrouble    \* bound: failed writes, lost answers, restarts and re-paired devices

Device == Fitted \cup Enrollable

VARIABLES
  enrolled,     \* devices in the generated file
  registry,     \* ... as the running proxy imported them
  flow,         \* device -> vendor device its node polls
  heard,        \* vendor devices that exist
  op,           \* the requests under way
  half,         \* devices of requests that failed between their two writes (history)
  lost,         \* devices whose entry a removal rewrote from a stale reading (history)
  requests, mishaps

places == <<enrolled, registry, flow>>
enrolment_vars == <<places, heard, op, half, lost, requests, mishaps>>

NoFlow == [d \in {} |-> 0]
NoOp == [kind |-> "none", stage |-> "idle", device |-> "-", vendor |-> 0,
         file |-> {}, seen |-> NoFlow, ok |-> FALSE]
Asking(kind, d, v, file) ==
  [kind |-> kind, stage |-> "asking", device |-> d, vendor |-> v,
   file |-> file, seen |-> NoFlow, ok |-> FALSE]
Mishap == mishaps < MaxTrouble /\ mishaps' = mishaps + 1
At(o, kind, stage) == op[o].kind = kind /\ op[o].stage = stage
Becomes(o, r) == op' = [op EXCEPT ![o] = r]
Begin == requests < MaxRequests /\ requests' = requests + 1

-----------------------------------------------------------------------------
(***************************************************************************)
(* What a request would make of the flow it has read.                      *)
(***************************************************************************)
\* Mutant: the vendor device may have a node already.
PolledTwice(seen, d, v) == FALSE
\* "already polled by another node"
PolledBy(seen, d, v) == \E e \in DOMAIN seen \ {d} : seen[e] = v

\* planEnrollment, planRemoval, planRebind
Refused(r) ==
  CASE r.kind = "enrol"  -> r.device \in DOMAIN r.seen \/ PolledBy(r.seen, r.device, r.vendor)
    [] r.kind = "remove" -> r.device \notin DOMAIN r.seen
    [] r.kind = "rebind" -> PolledBy(r.seen, r.device, r.vendor) \/ r.seen[r.device] \in heard

Planned(r) ==
  IF r.kind = "remove" THEN Restrict(r.seen, DOMAIN r.seen \ {r.device})
  ELSE [d \in DOMAIN r.seen \cup {r.device} |-> IF d = r.device THEN r.vendor ELSE r.seen[d]]

-----------------------------------------------------------------------------
(***************************************************************************)
(* The requests.  Each waits for an answer at every step.                  *)
(***************************************************************************)
\* enrollDevice: checked against the registry this process imported.
StartEnrol(o, d, v) ==
  /\ op[o] = NoOp /\ Begin /\ d \notin registry /\ v \in heard
  /\ Becomes(o, Asking("enrol", d, v, {}))
  /\ UNCHANGED <<places, heard, half, lost, mishaps>>

\* removeDevice: the file is read first, and is what will be rewritten.
StartRemove(o, d) ==
  /\ op[o] = NoOp /\ Begin /\ d \in enrolled
  /\ Becomes(o, Asking("remove", d, 0, enrolled))
  /\ UNCHANGED <<places, heard, half, lost, mishaps>>

\* rebindDevice: a fitted device's node, to a vendor device that exists.
StartRebind(o, d, v) ==
  /\ op[o] = NoOp /\ Begin /\ v \in heard
  /\ Becomes(o, Asking("rebind", d, v, {}))
  /\ UNCHANGED <<places, heard, half, lost, mishaps>>

ReadFlow(o) ==
  /\ op[o].stage = "asking" /\ Becomes(o, [op[o] EXCEPT !.stage = "read", !.seen = flow])
  /\ UNCHANGED <<places, heard, half, lost, requests, mishaps>>

\* Mutant: the file is written from the registry this process imported.
EntryOfRegistry(r) ==
  IF r.kind = "enrol" THEN (enrolled \cap registry) \cup {r.device} ELSE enrolled
\* The entry is added to the file as it is now, before the flow is written.
EntryNow(r) == IF r.kind = "enrol" THEN enrolled \cup {r.device} ELSE enrolled

Plan(o) ==
  LET r == op[o] IN
  /\ r.stage = "read"
  /\ IF Refused(r) THEN Becomes(o, NoOp) /\ UNCHANGED enrolled
     ELSE Becomes(o, [r EXCEPT !.stage = "posting"]) /\ enrolled' = EntryNow(r)
  /\ UNCHANGED <<registry, flow, heard, half, lost, requests, mishaps>>

\* Node-RED takes a flow only from who has read the newest one.
Newest(r) == r.seen = flow

\* Taken, refused as stale, refused for another reason, or taken without an answer.
Post(o) ==
  LET r == op[o] IN
  /\ r.stage = "posting"
  /\ \E took, answered \in BOOLEAN :
       /\ took => Newest(r)
       /\ IF took = answered /\ took = Newest(r) THEN UNCHANGED mishaps
          ELSE (took \/ ~answered) /\ Mishap
       /\ flow' = IF took THEN Planned(r) ELSE flow
       /\ Becomes(o, [r EXCEPT !.stage = "answered", !.ok = took /\ answered])
  /\ UNCHANGED <<enrolled, registry, heard, half, lost, requests>>

\* A request that ends with its device in one place only leaves it half done.
Apart(devices) == {d \in devices : (d \in enrolled') # (d \in DOMAIN flow)}
HalfDone(r) == half' = Apart(IF r.ok THEN half ELSE half \cup {r.device})

EndEnrol(o) ==
  /\ At(o, "enrol", "answered") /\ Becomes(o, NoOp)
  /\ UNCHANGED places /\ HalfDone(op[o])
  /\ UNCHANGED <<heard, lost, requests, mishaps>>

EndRebind(o) ==
  /\ At(o, "rebind", "answered") /\ Becomes(o, NoOp)
  /\ UNCHANGED <<places, heard, half, lost, requests, mishaps>>

\* Once the flow is written, the entry goes: from the file as it was read at first.
\* The write may fail.
Kept(r) == r.file \ {r.device}

\* What that undoes: entries that came or went meanwhile, and its own device enrolled anew.
Overwritten(r) ==
  (enrolled \ (Kept(r) \cup {r.device})) \cup (Kept(r) \ enrolled)
    \cup {d \in {r.device} :
            \/ d \in DOMAIN flow
            \/ \E o \in Op : op[o].kind = "enrol" /\ op[o].device = d /\ op[o].stage \in {"posting", "answered"}}

EndRemove(o) ==
  LET r == op[o] IN
  /\ At(o, "remove", "answered") /\ Becomes(o, NoOp)
  /\ \/ /\ r.ok /\ enrolled' = Kept(r) /\ HalfDone(r) /\ UNCHANGED mishaps
        /\ lost' = (lost \ {r.device}) \cup Overwritten(r)
     \/ ~r.ok /\ UNCHANGED <<enrolled, lost, mishaps>> /\ HalfDone(r)
     \/ r.ok /\ Mishap /\ UNCHANGED <<enrolled, lost>> /\ HalfDone([r EXCEPT !.ok = FALSE])
  /\ UNCHANGED <<registry, flow, heard, requests>>

-----------------------------------------------------------------------------
\* The proxy is restarted, which is how it comes to know an enrolled device.
Restart ==
  /\ Mishap /\ registry' = Fitted \cup enrolled /\ op' = [o \in Op |-> NoOp]
  /\ half' = half \cup {op[o].device : o \in {o \in Op : op[o].stage \in {"posting", "answered"}}}
  /\ UNCHANGED <<enrolled, flow, heard, lost, requests>>

\* A device is paired again: the vendor knows it under another id.
RePair(v, w) ==
  /\ Mishap /\ v \in heard /\ w \in Vendor \ heard /\ heard' = (heard \ {v}) \cup {w}
  /\ UNCHANGED <<places, op, half, lost, requests>>

Init ==
  /\ enrolled = {} /\ registry = Fitted
  /\ flow \in Injection(Fitted, Vendor) /\ heard \in SUBSET Vendor
  /\ (\A d \in Fitted : flow[d] \in heard) /\ Cardinality(Vendor \ heard) = 1
  /\ op = [o \in Op |-> NoOp] /\ half = {} /\ lost = {} /\ requests = 0 /\ mishaps = 0

Next ==
  \/ \E o \in Op :
       \/ \E d \in Enrollable : (\E v \in Vendor : StartEnrol(o, d, v)) \/ StartRemove(o, d)
       \/ \E d \in Fitted, v \in Vendor : StartRebind(o, d, v)
       \/ ReadFlow(o) \/ Plan(o) \/ Post(o) \/ EndEnrol(o) \/ EndRebind(o) \/ EndRemove(o)
  \/ Restart
  \/ \E v, w \in Vendor : RePair(v, w)

Spec == Init /\ [][Next]_enrolment_vars

-----------------------------------------------------------------------------
(***************************************************************************)
(* Properties.                                                             *)
(***************************************************************************)
Flows == UNION {[D -> Vendor] : D \in SUBSET Device}
Request ==
  [kind : {"none", "enrol", "remove", "rebind"}, stage : {"idle", "asking", "read", "posting", "answered"},
   device : Device \cup {"-"}, vendor : Vendor \cup {0}, file : SUBSET Enrollable, seen : Flows, ok : BOOLEAN]

\* The types of the two places and of the requests.
TypeOK ==
  /\ enrolled \subseteq Enrollable /\ registry \subseteq Device /\ flow \in Flows
  /\ op \in [Op -> Request]
  /\ half \subseteq Device /\ lost \subseteq Device

\* No vendor device is polled by two nodes, whoever enrols and rebinds meanwhile.
PolledOnce == \A d, e \in DOMAIN flow : flow[d] = flow[e] => d = e

\* No hardware is polled that nothing displays, whichever write of whichever request
\* failed, was refused or went unanswered; and once nobody is at work every entry is
\* polled, but for a request that failed halfway. Only a removal that rewrote the file
\* from a stale reading leaves it otherwise.
PolledIsListed == DOMAIN flow \cap Enrollable \subseteq enrolled \cup lost
ListedIsPolled == (\A o \in Op : op[o] = NoOp) => enrolled \subseteq DOMAIN flow \cup half \cup lost
Agree == PolledIsListed /\ ListedIsPolled
=============================================================================
