-------------------------- MODULE EnrolmentProofs --------------------------
(***************************************************************************)
(* The registry file and the flow agree, for any devices, any number of    *)
(* requests at once and any number of failures.                            *)
(***************************************************************************)
EXTENDS Enrolment, TLAPS

\* What a request is about.
Aimed ==
  \A o \in Op :
    /\ op[o].kind \in {"enrol", "remove"} => op[o].device \in Enrollable
    /\ op[o].kind = "rebind" => op[o].device \in Fitted
    /\ op[o].kind \in {"enrol", "rebind"} => op[o].vendor \in Vendor
    /\ op[o].kind = "none" => op[o].stage = "idle"

\* What is about to be written was found free in the flow that was read.
PlannedFree ==
  \A o \in Op :
    op[o].stage = "posting" /\ op[o].kind # "remove"
      => ~PolledBy(op[o].seen, op[o].device, op[o].vendor)

\* The file is written before the flow.
EnrolIsListed ==
  \A o \in Op :
    op[o].kind = "enrol" /\ op[o].stage \in {"posting", "answered"}
      => op[o].device \in enrolled \cup lost

\* A request that has still to bring its device's two places together.
Unsettled(o, d) ==
  /\ op[o].device = d
  /\ \/ op[o].kind = "enrol" /\ (op[o].stage = "posting" \/ (op[o].stage = "answered" /\ ~op[o].ok))
     \/ op[o].kind = "remove" /\ op[o].stage = "answered"

ListedOrOwed ==
  \A d \in enrolled : d \in DOMAIN flow \cup half \cup lost \/ \E o \in Op : Unsettled(o, d)

IInv == TypeOK /\ Aimed /\ PlannedFree /\ PolledOnce /\ PolledIsListed /\ EnrolIsListed /\ ListedOrOwed

Apartness == Fitted \cap Enrollable = {}

-----------------------------------------------------------------------------
LEMMA NoFlowType == NoFlow \in Flows
<1>1. NoFlow \in [{} -> Vendor]
  BY DEF NoFlow
<1> QED
  BY <1>1 DEF Flows

LEMMA FlowType == ASSUME NEW f \in Flows PROVE /\ f = [d \in DOMAIN f |-> f[d]] /\ DOMAIN f \subseteq Device
                                               /\ \A d \in DOMAIN f : f[d] \in Vendor
BY DEF Flows

LEMMA NoOpType == NoOp \in Request
BY NoFlowType DEF NoOp, Request

LEMMA InitInv == ASSUME Apartness, Init PROVE IInv
<1>1. flow \in [Fitted -> Vendor] /\ \A d, e \in Fitted : flow[d] = flow[e] => d = e
  BY DEF Init, Injection, IsInjective
<1>2. flow \in Flows
  BY <1>1 DEF Flows, Device
<1>3. TypeOK
  BY <1>2, NoOpType DEF Init, TypeOK, Device
<1>4. PolledOnce
  BY <1>1 DEF PolledOnce
<1>5. Aimed /\ PlannedFree /\ EnrolIsListed
  BY DEF Init, NoOp, Aimed, PlannedFree, EnrolIsListed
<1> QED
  BY <1>1, <1>3, <1>4, <1>5 DEF Apartness, Init, IInv, ListedOrOwed, PolledIsListed

-----------------------------------------------------------------------------
(***************************************************************************)
(* Steps of one request.                                                   *)
(***************************************************************************)
LEMMA BecomesStep ==
  ASSUME TypeOK, NEW o \in Op, NEW r \in Request, Becomes(o, r)
  PROVE  op' \in [Op -> Request] /\ op'[o] = r /\ \A q \in Op \ {o} : op'[q] = op[q]
BY DEF TypeOK, Becomes

AimedAt(r) ==
  /\ r.kind \in {"enrol", "remove"} => r.device \in Enrollable
  /\ r.kind = "rebind" => r.device \in Fitted
  /\ r.kind \in {"enrol", "rebind"} => r.vendor \in Vendor
  /\ r.kind = "none" => r.stage = "idle"

\* A request that has nothing to bring together, and is about to write nothing.
LEMMA QuietStep ==
  ASSUME IInv, NEW o \in Op, NEW r \in Request, Becomes(o, r), AimedAt(r),
         r.stage \in {"idle", "asking", "read"},
         \A d : ~Unsettled(o, d),
         UNCHANGED <<enrolled, registry, flow, half, lost>>
  PROVE  IInv'
<1>1. op' \in [Op -> Request] /\ op'[o] = r /\ \A q \in Op \ {o} : op'[q] = op[q]
  BY BecomesStep DEF IInv
<1>2. TypeOK'
  BY <1>1 DEF IInv, TypeOK
<1>3. Aimed' /\ PlannedFree' /\ EnrolIsListed'
  BY <1>1 DEF IInv, Aimed, AimedAt, PlannedFree, PolledBy, EnrolIsListed
<1>4. ListedOrOwed'
  <2> SUFFICES ASSUME NEW d \in enrolled, d \notin DOMAIN flow \cup half \cup lost
               PROVE  \E q \in Op : Unsettled(q, d)'
    BY DEF ListedOrOwed
  <2>1. PICK q \in Op : Unsettled(q, d)
    BY DEF IInv, ListedOrOwed
  <2> QED
    BY <1>1, <2>1 DEF Unsettled
<1> QED
  BY <1>2, <1>3, <1>4 DEF IInv, PolledOnce, PolledIsListed

LEMMA StartStep ==
  ASSUME IInv, NEW o \in Op,
         \/ \E d \in Enrollable : (\E v \in Vendor : StartEnrol(o, d, v)) \/ StartRemove(o, d)
         \/ \E d \in Fitted, v \in Vendor : StartRebind(o, d, v)
  PROVE  IInv'
<1>1. op[o] = NoOp /\ UNCHANGED <<enrolled, registry, flow, half, lost>>
  BY DEF StartEnrol, StartRemove, StartRebind, places
<1>2. \A d : ~Unsettled(o, d)
  BY <1>1 DEF Unsettled, NoOp
<1>3. \E r \in Request : Becomes(o, r) /\ AimedAt(r) /\ r.stage = "asking"
  <2>1. ASSUME NEW k \in {"enrol", "remove", "rebind"}, NEW d \in Device, NEW v \in Vendor \cup {0},
               NEW f \in SUBSET Enrollable, k \in {"enrol", "remove"} => d \in Enrollable, k = "rebind" => d \in Fitted,
               k \in {"enrol", "rebind"} => v \in Vendor,
               Becomes(o, Asking(k, d, v, f))
        PROVE  \E r \in Request : Becomes(o, r) /\ AimedAt(r) /\ r.stage = "asking"
    <3>1. Asking(k, d, v, f) \in Request
      BY NoFlowType DEF Asking, Request
    <3>2. AimedAt(Asking(k, d, v, f)) /\ Asking(k, d, v, f).stage = "asking"
      BY <2>1 DEF Asking, AimedAt
    <3> QED
      BY <2>1, <3>1, <3>2
  <2>2. ASSUME NEW d \in Enrollable, NEW v \in Vendor, StartEnrol(o, d, v)
        PROVE  \E r \in Request : Becomes(o, r) /\ AimedAt(r) /\ r.stage = "asking"
    BY <2>1, <2>2 DEF StartEnrol, Device
  <2>3. ASSUME NEW d \in Enrollable, StartRemove(o, d)
        PROVE  \E r \in Request : Becomes(o, r) /\ AimedAt(r) /\ r.stage = "asking"
    BY <2>1, <2>3 DEF StartRemove, Device, IInv, TypeOK
  <2>4. ASSUME NEW d \in Fitted, NEW v \in Vendor, StartRebind(o, d, v)
        PROVE  \E r \in Request : Becomes(o, r) /\ AimedAt(r) /\ r.stage = "asking"
    BY <2>1, <2>4 DEF StartRebind, Device
  <2> QED
    BY <2>2, <2>3, <2>4
<1> QED
  BY <1>1, <1>2, <1>3, QuietStep

LEMMA ReadFlowStep == ASSUME IInv, NEW o \in Op, ReadFlow(o) PROVE IInv'
<1> DEFINE r == [op[o] EXCEPT !.stage = "read", !.seen = flow]
<1>1. op[o] \in Request /\ flow \in Flows /\ op[o].stage = "asking"
  BY DEF IInv, TypeOK, ReadFlow
<1>2. /\ r \in Request /\ r.stage = "read" /\ r.kind = op[o].kind /\ r.device = op[o].device
      /\ r.vendor = op[o].vendor
  BY <1>1 DEF Request
<1>3. AimedAt(r) /\ \A d : ~Unsettled(o, d)
  BY <1>1, <1>2 DEF AimedAt, IInv, Aimed, Unsettled
<1>4. Becomes(o, r) /\ UNCHANGED <<enrolled, registry, flow, half, lost>>
  BY DEF ReadFlow, places
<1> QED
  BY <1>2, <1>3, <1>4, QuietStep

LEMMA EndRebindStep == ASSUME IInv, NEW o \in Op, EndRebind(o) PROVE IInv'
<1>1. Becomes(o, NoOp) /\ AimedAt(NoOp) /\ NoOp.stage = "idle" /\ NoOp \in Request
  BY NoOpType DEF EndRebind, AimedAt, NoOp
<1>2. \A d : ~Unsettled(o, d)
  BY DEF EndRebind, At, Unsettled
<1>3. UNCHANGED <<enrolled, registry, flow, half, lost>>
  BY DEF EndRebind, places
<1> QED
  BY <1>1, <1>2, <1>3, QuietStep

\* A request is planned: refused, or its entry is written.
LEMMA PlanStep == ASSUME IInv, NEW o \in Op, Plan(o) PROVE IInv'
<1> DEFINE r == op[o]
<1>1. r \in Request /\ r.stage = "read" /\ UNCHANGED <<registry, flow, half, lost>>
  BY DEF IInv, TypeOK, Plan
<1>2. CASE Refused(r)
  <2>1. Becomes(o, NoOp) /\ AimedAt(NoOp) /\ NoOp.stage = "idle" /\ NoOp \in Request /\ UNCHANGED enrolled
    BY <1>2, NoOpType DEF Plan, AimedAt, NoOp
  <2>2. \A d : ~Unsettled(o, d)
    BY <1>1 DEF Unsettled
  <2> QED
    BY <1>1, <2>1, <2>2, QuietStep
<1>3. CASE ~Refused(r)
  <2> DEFINE next == [r EXCEPT !.stage = "posting"]
  <2>1. Becomes(o, next) /\ enrolled' = EntryNow(r)
    BY <1>3 DEF Plan
  <2>2. /\ next \in Request /\ next.stage = "posting" /\ next.kind = r.kind /\ next.device = r.device
        /\ next.seen = r.seen /\ next.vendor = r.vendor
    BY <1>1 DEF Request
  <2>3. /\ op' \in [Op -> Request] /\ \A q \in Op \ {o} : op'[q] = op[q]
        /\ op'[o].stage = "posting" /\ op'[o].kind = op[o].kind /\ op'[o].device = op[o].device
        /\ op'[o].seen = op[o].seen /\ op'[o].vendor = op[o].vendor
    BY <2>1, <2>2, BecomesStep DEF IInv
  <2> HIDE DEF next
  <2>4. /\ enrolled \subseteq enrolled' /\ enrolled' \subseteq enrolled \cup {r.device}
        /\ enrolled' # enrolled => r.kind = "enrol"
        /\ r.kind = "enrol" => r.device \in enrolled'
    BY <2>1 DEF EntryNow
  <2>5. r.kind = "enrol" => r.device \in Enrollable
    BY DEF IInv, Aimed
  <2>6. TypeOK'
    BY <1>1, <2>3, <2>4, <2>5 DEF IInv, TypeOK
  <2>7. Aimed' /\ EnrolIsListed'
    BY <1>1, <2>2, <2>3, <2>4 DEF IInv, Aimed, EnrolIsListed
  <2>8. r.kind # "remove" => ~PolledBy(r.seen, r.device, r.vendor)
    <3>1. r.kind # "none"
      BY <1>1 DEF IInv, Aimed
    <3> QED
      BY <1>1, <1>3, <3>1 DEF Refused, Request
  <2>9. PlannedFree'
    BY <2>2, <2>3, <2>8 DEF IInv, PlannedFree, PolledBy
  <2>10. ListedOrOwed'
    <3> SUFFICES ASSUME NEW d \in enrolled', d \notin DOMAIN flow \cup half \cup lost
                 PROVE  \E q \in Op : Unsettled(q, d)'
      BY <1>1 DEF ListedOrOwed
    <3>1. CASE d \in enrolled
      <4>1. PICK q \in Op : Unsettled(q, d)
        BY <3>1 DEF IInv, ListedOrOwed
      <4> QED
        BY <1>1, <2>3, <4>1 DEF Unsettled
    <3>2. CASE d \notin enrolled
      BY <2>2, <2>3, <2>4, <3>2 DEF Unsettled
    <3> QED
      BY <3>1, <3>2
  <2> QED
    BY <1>1, <2>4, <2>6, <2>7, <2>9, <2>10 DEF IInv, PolledOnce, PolledIsListed
<1> QED
  BY <1>2, <1>3

-----------------------------------------------------------------------------
(***************************************************************************)
(* The write to the flow.                                                  *)
(***************************************************************************)
\* What is planned from the newest flow polls nothing twice, and changes one device.
LEMMA PlannedFlow ==
  ASSUME NEW r \in Request, r.device \in Device, r.kind # "remove" => r.vendor \in Vendor, PolledOnce,
         r.seen = flow, flow \in Flows, r.kind # "remove" => ~PolledBy(r.seen, r.device, r.vendor),
         flow' = Planned(r)
  PROVE  /\ flow' \in Flows /\ PolledOnce'
         /\ r.kind = "remove" => DOMAIN flow' = DOMAIN flow \ {r.device}
         /\ r.kind # "remove" => DOMAIN flow' = DOMAIN flow \cup {r.device}
<1>1. DOMAIN flow \subseteq Device /\ \A d \in DOMAIN flow : flow[d] \in Vendor
  BY FlowType
<1>2. CASE r.kind = "remove"
  <2>1. flow' = [d \in DOMAIN flow \ {r.device} |-> flow[d]]
    BY <1>2 DEF Planned, Restrict
  <2>2. flow' \in [DOMAIN flow \ {r.device} -> Vendor]
    BY <1>1, <2>1
  <2>3. flow' \in Flows
    BY <1>1, <2>2 DEF Flows
  <2> QED
    BY <1>2, <2>1, <2>3 DEF PolledOnce
<1>3. CASE r.kind # "remove"
  <2>1. flow' = [d \in DOMAIN flow \cup {r.device} |-> IF d = r.device THEN r.vendor ELSE flow[d]]
    BY <1>3 DEF Planned
  <2>2. flow' \in [DOMAIN flow \cup {r.device} -> Vendor]
    BY <1>1, <1>3, <2>1
  <2>3. flow' \in Flows
    BY <1>1, <2>2 DEF Flows
  <2>4. \A d \in DOMAIN flow \ {r.device} : flow[d] # r.vendor
    BY <1>3 DEF PolledBy
  <2>5. PolledOnce'
    BY <2>1, <2>4 DEF PolledOnce
  <2> QED
    BY <1>3, <2>1, <2>3, <2>5
<1> QED
  BY <1>2, <1>3

LEMMA PostStep == ASSUME Apartness, IInv, NEW o \in Op, Post(o) PROVE IInv'
<1> DEFINE r == op[o]
<1>1. PICK took \in BOOLEAN, answered \in BOOLEAN :
        /\ took => Newest(r)
        /\ flow' = IF took THEN Planned(r) ELSE flow
        /\ Becomes(o, [r EXCEPT !.stage = "answered", !.ok = took /\ answered])
  BY DEF Post
<1>2. r \in Request /\ r.stage = "posting" /\ UNCHANGED <<enrolled, registry, half, lost>>
  BY DEF IInv, TypeOK, Post
<1> DEFINE next == [r EXCEPT !.stage = "answered", !.ok = took /\ answered]
<1>3. /\ next \in Request /\ next.stage = "answered" /\ next.kind = r.kind /\ next.device = r.device
      /\ next.vendor = r.vendor /\ next.ok = (took /\ answered)
  BY <1>2 DEF Request
<1>4. /\ op' \in [Op -> Request] /\ \A q \in Op \ {o} : op'[q] = op[q]
      /\ op'[o].stage = "answered" /\ op'[o].kind = op[o].kind /\ op'[o].device = op[o].device
      /\ op'[o].vendor = op[o].vendor /\ op'[o].ok = (took /\ answered)
  BY <1>1, <1>3, BecomesStep DEF IInv
<1> HIDE DEF next
<1>5. r.kind \in {"enrol", "remove", "rebind"}
  BY <1>2 DEF IInv, Aimed, Request
<1>6. r.device \in Device
  BY <1>5 DEF IInv, Aimed, Device
<1>7. /\ flow' \in Flows
      /\ PolledOnce'
      /\ took /\ r.kind = "remove" => DOMAIN flow' = DOMAIN flow \ {r.device}
      /\ took /\ r.kind # "remove" => DOMAIN flow' = DOMAIN flow \cup {r.device}
  <2>1. CASE ~took
    BY <1>1, <2>1 DEF IInv, TypeOK, PolledOnce
  <2>2. CASE took
    <3>1. r.seen = flow /\ flow' = Planned(r)
      BY <1>1, <2>2 DEF Newest
    <3>2. flow \in Flows /\ PolledOnce
      BY DEF IInv, TypeOK
    <3>3. r.kind # "remove" => ~PolledBy(r.seen, r.device, r.vendor)
      BY <1>2 DEF IInv, PlannedFree
    <3>4. r.kind # "remove" => r.vendor \in Vendor
      BY <1>5 DEF IInv, Aimed
    <3> QED
      BY <1>2, <1>6, <3>1, <3>2, <3>3, <3>4, PlannedFlow
  <2> QED
    BY <2>1, <2>2
<1>8. TypeOK'
  BY <1>2, <1>4, <1>7 DEF IInv, TypeOK
<1>9. Aimed' /\ EnrolIsListed' /\ PlannedFree'
  BY <1>2, <1>4 DEF IInv, Aimed, EnrolIsListed, PlannedFree, PolledBy
<1>10. PolledIsListed'
  <2>1. CASE ~took
    BY <1>1, <1>2, <2>1 DEF IInv, PolledIsListed
  <2>2. CASE took
    <3>1. r.device \in enrolled \cup lost \/ r.device \notin Enrollable \/ r.kind = "remove"
      BY <1>2, <1>5 DEF IInv, Aimed, EnrolIsListed, Apartness
    <3> QED
      BY <1>2, <1>7, <2>2, <3>1 DEF IInv, PolledIsListed
  <2> QED
    BY <2>1, <2>2
<1>11. ListedOrOwed'
  <2> SUFFICES ASSUME NEW d \in enrolled, d \notin DOMAIN flow' \cup half \cup lost
               PROVE  \E q \in Op : Unsettled(q, d)'
    BY <1>2 DEF ListedOrOwed
  <2>1. CASE d \in DOMAIN flow
    <3>1. took /\ r.kind = "remove" /\ r.device = d
      BY <1>1, <1>7, <2>1
    <3> QED
      BY <1>4, <3>1 DEF Unsettled
  <2>2. CASE d \notin DOMAIN flow
    <3>1. PICK q \in Op : Unsettled(q, d)
      BY <2>2 DEF IInv, ListedOrOwed
    <3>2. CASE q # o
      BY <1>4, <3>1, <3>2 DEF Unsettled
    <3>3. CASE q = o
      <4>1. r.kind = "enrol" /\ r.device = d
        BY <1>2, <3>1, <3>3 DEF Unsettled
      <4>2. ~took
        BY <1>7, <4>1
      <4> QED
        BY <1>4, <4>1, <4>2 DEF Unsettled
    <3> QED
      BY <3>2, <3>3
  <2> QED
    BY <2>1, <2>2
<1> QED
  BY <1>7, <1>8, <1>9, <1>10, <1>11 DEF IInv

-----------------------------------------------------------------------------
(***************************************************************************)
(* The ends of requests, and what happens to all of them.                  *)
(***************************************************************************)
\* What a request leaves apart is half done.
LEMMA HalfStep ==
  ASSUME NEW r \in Request, HalfDone(r), UNCHANGED flow, half \subseteq Device, r.device \in Device
  PROVE  /\ half' \subseteq Device
         /\ \A d \in enrolled' : d \in half => d \in half' \cup DOMAIN flow
         /\ ~r.ok /\ r.device \in enrolled' => r.device \in half' \cup DOMAIN flow
BY DEF HalfDone, Apart

\* A request that is over has no part in any invariant.
LEMMA IdleStep ==
  ASSUME IInv, NEW o \in Op, Becomes(o, NoOp)
  PROVE  /\ op' \in [Op -> Request] /\ \A q \in Op \ {o} : op'[q] = op[q]
         /\ Aimed' /\ PlannedFree'
         /\ op'[o].kind = "none" /\ op'[o].stage = "idle"
<1>1. op' \in [Op -> Request] /\ op'[o] = NoOp /\ \A q \in Op \ {o} : op'[q] = op[q]
  BY BecomesStep, NoOpType DEF IInv
<1>2. op'[o].kind = "none" /\ op'[o].stage = "idle"
  BY <1>1 DEF NoOp
<1> QED
  BY <1>1, <1>2 DEF IInv, Aimed, PlannedFree, PolledBy

LEMMA EndEnrolStep == ASSUME IInv, NEW o \in Op, EndEnrol(o) PROVE IInv'
<1>1. /\ op[o] \in Request /\ op[o].device \in Device /\ UNCHANGED <<enrolled, registry, flow, lost>>
      /\ op[o].kind = "enrol" /\ op[o].stage = "answered" /\ HalfDone(op[o]) /\ Becomes(o, NoOp)
  BY DEF IInv, TypeOK, Aimed, EndEnrol, At, places, Device
<1>2. /\ op' \in [Op -> Request] /\ \A q \in Op \ {o} : op'[q] = op[q]
      /\ Aimed' /\ PlannedFree' /\ op'[o].kind = "none" /\ op'[o].stage = "idle"
  BY <1>1, IdleStep
<1>3. /\ half' \subseteq Device
      /\ \A d \in enrolled' : d \in half => d \in half' \cup DOMAIN flow
      /\ ~op[o].ok /\ op[o].device \in enrolled' => op[o].device \in half' \cup DOMAIN flow
  BY <1>1, HalfStep DEF IInv, TypeOK
<1>4. TypeOK' /\ EnrolIsListed'
  BY <1>1, <1>2, <1>3 DEF IInv, TypeOK, EnrolIsListed
<1>5. ListedOrOwed'
  <2> SUFFICES ASSUME NEW d \in enrolled, d \notin DOMAIN flow \cup half' \cup lost
               PROVE  \E q \in Op : Unsettled(q, d)'
    BY <1>1 DEF ListedOrOwed
  <2>1. PICK q \in Op : Unsettled(q, d)
    BY <1>1, <1>3 DEF IInv, ListedOrOwed
  <2>2. q # o
    BY <1>1, <1>3, <2>1 DEF Unsettled
  <2> QED
    BY <1>2, <2>1, <2>2 DEF Unsettled
<1> QED
  BY <1>1, <1>2, <1>4, <1>5 DEF IInv, PolledOnce, PolledIsListed

LEMMA EndRemoveStep == ASSUME IInv, NEW o \in Op, EndRemove(o) PROVE IInv'
<1> DEFINE r == op[o]
<1>1. /\ r \in Request /\ r.device \in Device /\ UNCHANGED <<registry, flow>>
      /\ r.kind = "remove" /\ r.stage = "answered" /\ Becomes(o, NoOp)
  BY DEF IInv, TypeOK, Aimed, EndRemove, At, Device
<1>2. /\ op' \in [Op -> Request] /\ \A q \in Op \ {o} : op'[q] = op[q]
      /\ Aimed' /\ PlannedFree' /\ op'[o].kind = "none" /\ op'[o].stage = "idle"
  BY <1>1, IdleStep
<1>3. \E f \in Request : HalfDone(f) /\ f.device = r.device
  <2> DEFINE failed == [r EXCEPT !.ok = FALSE]
  <2>1. failed \in Request /\ failed.device = r.device
    BY <1>1 DEF Request
  <2>2. HalfDone(r) \/ HalfDone(failed)
    BY DEF EndRemove
  <2> QED
    BY <1>1, <2>1, <2>2
<1>4. half' \subseteq Device /\ \A d \in enrolled' : d \in half => d \in half' \cup DOMAIN flow
  BY <1>1, <1>3, HalfStep DEF IInv, TypeOK
<1>5. CASE r.ok /\ enrolled' = Kept(r) /\ lost' = (lost \ {r.device}) \cup Overwritten(r)
  <2>1. Kept(r) \subseteq Enrollable /\ r.device \notin Kept(r)
    BY <1>1 DEF Kept, Request
  <2>2. Overwritten(r) \subseteq Device
    BY <1>1, <2>1 DEF Overwritten, Device, IInv, TypeOK
  <2>3. TypeOK'
    BY <1>1, <1>2, <1>4, <1>5, <2>1, <2>2 DEF IInv, TypeOK
  <2>4. \A d \in (enrolled \cup lost) \ {r.device} : d \in enrolled' \cup lost'
    BY <1>5 DEF Overwritten
  <2>5. PolledIsListed'
    BY <1>1, <1>5, <2>4 DEF IInv, PolledIsListed, Overwritten
  <2>6. EnrolIsListed'
    <3> SUFFICES ASSUME NEW q \in Op, op'[q].kind = "enrol", op'[q].stage \in {"posting", "answered"}
                 PROVE  op'[q].device \in enrolled' \cup lost'
      BY DEF EnrolIsListed
    <3>1. q # o /\ op'[q] = op[q]
      BY <1>2
    <3>2. op[q].device \in enrolled \cup lost
      BY <3>1 DEF IInv, EnrolIsListed
    <3>3. op[q].device = r.device => r.device \in Overwritten(r)
      BY <3>1 DEF Overwritten
    <3> QED
      BY <1>5, <2>4, <3>1, <3>2, <3>3
  <2>7. ListedOrOwed'
    <3> SUFFICES ASSUME NEW d \in Kept(r), d \notin DOMAIN flow \cup half' \cup lost'
                 PROVE  \E q \in Op : Unsettled(q, d)'
      BY <1>1, <1>5 DEF ListedOrOwed
    <3>1. d \in enrolled /\ d # r.device
      BY <1>5, <2>1 DEF Overwritten
    <3>2. d \notin half \cup lost
      BY <1>4, <1>5, <3>1
    <3>3. PICK q \in Op : Unsettled(q, d)
      BY <3>1, <3>2 DEF IInv, ListedOrOwed
    <3>4. q # o
      BY <3>1, <3>3 DEF Unsettled
    <3> QED
      BY <1>2, <3>3, <3>4 DEF Unsettled
  <2> QED
    BY <1>1, <1>2, <2>3, <2>5, <2>6, <2>7 DEF IInv, PolledOnce
<1>6. CASE /\ UNCHANGED <<enrolled, lost>>
           /\ \E f \in Request : HalfDone(f) /\ ~f.ok /\ f.device = r.device
  <2>1. r.device \in enrolled => r.device \in half' \cup DOMAIN flow
    BY <1>1, <1>6, HalfStep DEF IInv, TypeOK
  <2>2. TypeOK' /\ EnrolIsListed' /\ PolledIsListed'
    BY <1>1, <1>2, <1>4, <1>6 DEF IInv, TypeOK, EnrolIsListed, PolledIsListed
  <2>3. ListedOrOwed'
    <3> SUFFICES ASSUME NEW d \in enrolled, d \notin DOMAIN flow \cup half' \cup lost
                 PROVE  \E q \in Op : Unsettled(q, d)'
      BY <1>1, <1>6 DEF ListedOrOwed
    <3>1. PICK q \in Op : Unsettled(q, d)
      BY <1>4, <1>6 DEF IInv, ListedOrOwed
    <3>2. q # o
      BY <2>1, <3>1 DEF Unsettled
    <3> QED
      BY <1>2, <3>1, <3>2 DEF Unsettled
  <2> QED
    BY <1>1, <1>2, <2>2, <2>3 DEF IInv, PolledOnce
<1>7. CASE ~r.ok /\ UNCHANGED <<enrolled, lost>> /\ HalfDone(r)
  BY <1>1, <1>6, <1>7
<1>8. CASE UNCHANGED <<enrolled, lost>> /\ HalfDone([r EXCEPT !.ok = FALSE])
  <2>1. [r EXCEPT !.ok = FALSE] \in Request /\ [r EXCEPT !.ok = FALSE].ok = FALSE
        /\ [r EXCEPT !.ok = FALSE].device = r.device
    BY <1>1 DEF Request
  <2> QED
    BY <1>6, <1>8, <2>1
<1> QED
  BY <1>5, <1>7, <1>8 DEF EndRemove

LEMMA RestartStep == ASSUME IInv, Restart PROVE IInv'
<1>1. /\ op' = [o \in Op |-> NoOp] /\ registry' = Fitted \cup enrolled /\ UNCHANGED <<enrolled, flow, lost>>
      /\ half' = half \cup {op[o].device : o \in {o \in Op : op[o].stage \in {"posting", "answered"}}}
  BY DEF Restart
<1>2. \A o \in Op : op[o].stage \in {"posting", "answered"} => op[o].device \in Device
  BY DEF IInv, TypeOK, Aimed, Request, Device
<1>3. TypeOK'
  BY <1>1, <1>2, NoOpType DEF IInv, TypeOK, Device
<1>4. Aimed' /\ PlannedFree' /\ EnrolIsListed'
  BY <1>1 DEF NoOp, Aimed, PlannedFree, EnrolIsListed
<1>5. ListedOrOwed'
  BY <1>1 DEF IInv, ListedOrOwed, Unsettled
<1> QED
  BY <1>1, <1>3, <1>4, <1>5 DEF IInv, PolledOnce, PolledIsListed

LEMMA SameStep ==
  ASSUME IInv, UNCHANGED <<enrolled, registry, flow, op, half, lost>>
  PROVE  IInv'
BY DEF IInv, TypeOK, Aimed, PlannedFree, PolledBy, PolledOnce, PolledIsListed, EnrolIsListed, ListedOrOwed, Unsettled

LEMMA StepInv == ASSUME Apartness, IInv, Next PROVE IInv'
<1>1. ASSUME NEW v \in Vendor, NEW w \in Vendor, RePair(v, w) PROVE IInv'
  BY <1>1, SameStep DEF RePair, places
<1> QED
  BY <1>1, StartStep, ReadFlowStep, PlanStep, PostStep, EndEnrolStep, EndRebindStep, EndRemoveStep, RestartStep
     DEF Next

-----------------------------------------------------------------------------
(***************************************************************************)
(* The theorems.                                                           *)
(***************************************************************************)
LEMMA Invariant == ASSUME Apartness PROVE Spec => []IInv
<1>1. IInv /\ [Next]_enrolment_vars => IInv'
  BY StepInv, SameStep DEF enrolment_vars, places
<1> QED
  BY InitInv, <1>1, PTL DEF Spec

\* The file, the flow and the requests keep their types.
THEOREM TypeCorrect == ASSUME Apartness PROVE Spec => []TypeOK
<1>1. IInv => TypeOK
  BY DEF IInv
<1> QED
  BY <1>1, Invariant, PTL

\* No vendor device is polled by two nodes, however many requests run at once: each
\* checks the flow it has read, and Node-RED takes only what was made from the newest.
THEOREM NotPolledTwice == ASSUME Apartness PROVE Spec => []PolledOnce
<1>1. IInv => PolledOnce
  BY DEF IInv
<1> QED
  BY <1>1, Invariant, PTL

\* What is polled is listed, and once nobody is at work what is listed is polled, but for
\* a request that failed halfway and for a removal that wrote a stale file.
THEOREM PlacesAgree == ASSUME Apartness PROVE Spec => []Agree
<1>1. IInv => Agree
  <2> SUFFICES ASSUME IInv, \A o \in Op : op[o] = NoOp, NEW d \in enrolled,
                      d \notin DOMAIN flow \cup half \cup lost
               PROVE  FALSE
    BY DEF IInv, Agree, ListedIsPolled
  <2>1. PICK o \in Op : Unsettled(o, d)
    BY DEF IInv, ListedOrOwed
  <2> QED
    BY <2>1 DEF Unsettled, NoOp
<1> QED
  BY <1>1, Invariant, PTL
=============================================================================
