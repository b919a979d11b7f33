------------------------- MODULE CommandStoreProofs -------------------------
(***************************************************************************)
(* The command store, for any controls, any number of slots and commands.  *)
(***************************************************************************)
EXTENDS CommandStore, FiniteSetTheorems, SequenceTheorems, TLAPS

Holders == {c \in Issued : stage[c] \in {"asked", "resumed"}}

\* What has a slot and is not resumed was put on the wire.
AskedIsSent == \A c \in Issued : stage[c] = "asked" => c \in sent

\* An entry is of a call that was made.
EntryIsIssued == \A t \in Target : pending[t] # None => pending[t].command \in Issued

IInv == TypeOK /\ SlotsExact /\ EntryHonest /\ AskedIsSent /\ EntryIsIssued

-----------------------------------------------------------------------------
(***************************************************************************)
(* Slots.                                                                  *)
(***************************************************************************)
LEMMA Sizes ==
  ASSUME TypeOK
  PROVE  /\ MaxInFlight \in Nat /\ MaxInFlight >= 1 /\ MaxCommands \in Nat
         /\ Len(asks) \in Nat /\ Len(stage) = Len(asks) /\ Issued \subseteq Nat
         /\ stage \in [Issued -> Stages] /\ Issued \subseteq Cmd
         /\ asks \in [Issued -> [target : Target, on : BOOLEAN]]
         /\ inFlight \in Nat /\ inFlight <= MaxInFlight
<1>1. /\ asks \in Seq([target : Target, on : BOOLEAN]) /\ Len(asks) <= MaxCommands
      /\ stage \in Seq(Stages) /\ Len(stage) = Len(asks)
  BY DEF TypeOK
<1>2. Len(asks) \in Nat /\ asks \in [1..Len(asks) -> [target : Target, on : BOOLEAN]]
      /\ stage \in [1..Len(stage) -> Stages]
  BY <1>1, LenProperties
<1> QED
  BY <1>1, <1>2, StoreAssumption DEF TypeOK, Issued, Cmd

LEMMA HoldersFinite == ASSUME TypeOK PROVE IsFiniteSet(Holders) /\ Cardinality(Holders) \in Nat
<1>1. IsFiniteSet(1..Len(asks))
  BY Sizes, FS_Interval
<1>2. IsFiniteSet(Holders)
  BY <1>1, FS_Subset DEF Holders, Issued
<1> QED
  BY <1>2, FS_CardinalityType

LEMMA SomebodyHolds ==
  ASSUME IInv, NEW c \in Issued, stage[c] \in {"asked", "resumed"}
  PROVE  inFlight >= 1
<1>1. IsFiniteSet(Holders) /\ inFlight = Cardinality(Holders) /\ c \in Holders
  BY HoldersFinite DEF IInv, SlotsExact, Holders
<1>2. Cardinality(Holders) # 0
  BY <1>1, FS_EmptySet
<1> QED
  BY <1>1, <1>2, HoldersFinite DEF IInv

\* The queue.
LEMMA QueueTypes ==
  ASSUME TypeOK
  PROVE  /\ Len(waiting) \in Nat /\ DOMAIN waiting = 1..Len(waiting)
         /\ \A i \in DOMAIN waiting : waiting[i] \in Issued
         /\ waiting = <<>> <=> Len(waiting) = 0
<1>1. waiting \in Seq(Issued)
  BY DEF TypeOK
<1> QED
  BY <1>1, LenProperties, EmptySeq

LEMMA QueueTail ==
  ASSUME IInv, waiting # <<>>
  PROVE  /\ Head(waiting) \in Issued /\ stage[Head(waiting)] = "waiting"
         /\ Tail(waiting) \in Seq(Issued)
         /\ ToSet(Tail(waiting)) = ToSet(waiting) \ {Head(waiting)}
         /\ \A i, j \in DOMAIN Tail(waiting) : i < j => Tail(waiting)[i] < Tail(waiting)[j]
<1>1. waiting \in Seq(Issued) /\ Len(waiting) \in Nat /\ DOMAIN waiting = 1..Len(waiting) /\ Len(waiting) >= 1
  BY QueueTypes DEF IInv, TypeOK
<1>2. Head(waiting) = waiting[1] /\ 1 \in DOMAIN waiting
  BY <1>1
<1>3. /\ Tail(waiting) \in Seq(Issued) /\ Len(Tail(waiting)) = Len(waiting) - 1
      /\ DOMAIN Tail(waiting) = 1..(Len(waiting) - 1)
      /\ \A i \in 1..(Len(waiting) - 1) : Tail(waiting)[i] = waiting[i + 1]
  BY <1>1
<1>4. \A i \in DOMAIN waiting : waiting[i] \in Nat
  BY Sizes, QueueTypes DEF IInv
<1>5. \A i \in DOMAIN waiting : i # 1 => waiting[i] # waiting[1]
  BY <1>1, <1>4 DEF IInv, SlotsExact
<1>6. ToSet(Tail(waiting)) = ToSet(waiting) \ {Head(waiting)}
  <2>1. ASSUME NEW x \in ToSet(Tail(waiting)) PROVE x \in ToSet(waiting) \ {Head(waiting)}
    <3>1. PICK i \in 1..(Len(waiting) - 1) : x = waiting[i + 1]
      BY <1>3 DEF ToSet
    <3>2. i + 1 \in DOMAIN waiting /\ i + 1 # 1
      BY <1>1
    <3> QED
      BY <1>2, <1>5, <3>1, <3>2 DEF ToSet
  <2>2. ASSUME NEW x \in ToSet(waiting) \ {Head(waiting)} PROVE x \in ToSet(Tail(waiting))
    <3>1. PICK i \in DOMAIN waiting : x = waiting[i]
      BY DEF ToSet
    <3>2. i # 1
      BY <1>2, <3>1
    <3>3. i - 1 \in 1..(Len(waiting) - 1) /\ Tail(waiting)[i - 1] = waiting[i]
      BY <1>1, <1>3, <3>2
    <3> QED
      BY <1>3, <3>1, <3>3 DEF ToSet
  <2> QED
    BY <2>1, <2>2
<1>7. Head(waiting) \in Issued /\ stage[Head(waiting)] = "waiting"
  BY <1>1, <1>2 DEF IInv, SlotsExact, ToSet
<1>8. \A i, j \in DOMAIN Tail(waiting) : i < j => Tail(waiting)[i] < Tail(waiting)[j]
  BY <1>1, <1>3 DEF IInv, SlotsExact
<1> QED
  BY <1>3, <1>6, <1>7, <1>8

\* A call that ends gives its slot to the head of the queue, or back.
LEMMA ReleaseStep ==
  ASSUME IInv, NEW c \in Issued, stage[c] \in {"asked", "resumed"},
         ReleaseSlot([stage EXCEPT ![c] = "done"]), UNCHANGED asks
  PROVE  /\ stage' \in Seq(Stages) /\ Len(stage') = Len(stage)
         /\ stage'[c] = "done"
         /\ \A d \in Issued \ {c} : stage'[d] \in {stage[d], "resumed"}
         /\ \A d \in Issued \ {c} : stage'[d] # stage[d] => stage[d] = "waiting"
         /\ inFlight' \in 0..MaxInFlight /\ waiting' \in Seq(Issued)
         /\ SlotsExact'
<1> DEFINE ended == [stage EXCEPT ![c] = "done"]
<1>1. /\ stage \in Seq(Stages) /\ Len(stage) = Len(asks) /\ Len(asks) \in Nat /\ Issued = 1..Len(stage)
      /\ stage \in [Issued -> Stages]
      /\ Issued' = Issued
  BY Sizes DEF IInv, TypeOK, Issued
<1>2. /\ ended \in Seq(Stages) /\ Len(ended) = Len(stage)
      /\ \A d \in Issued : ended[d] = IF d = c THEN "done" ELSE stage[d]
  BY <1>1, ExceptSeq DEF Stages
<1>3. IsFiniteSet(Holders) /\ Cardinality(Holders) \in Nat /\ inFlight = Cardinality(Holders) /\ c \in Holders
  BY HoldersFinite DEF IInv, SlotsExact, Holders
<1>4. inFlight \in Nat /\ inFlight >= 1 /\ MaxInFlight \in Nat /\ inFlight <= MaxInFlight
  BY Sizes, SomebodyHolds DEF IInv
<1>5. CASE waiting = <<>>
  <2>1. inFlight' = inFlight - 1 /\ stage' = ended /\ waiting' = waiting
    BY <1>5 DEF ReleaseSlot
  <2>2. Holders' = Holders \ {c}
    BY <1>1, <1>2, <2>1 DEF Holders
  <2>3. inFlight' = Cardinality(Holders')
    BY <1>3, <2>1, <2>2, FS_RemoveElement
  <2>4. ToSet(waiting') = {} /\ {d \in Issued : stage'[d] = "waiting"} = {}
    <3>1. {d \in Issued : stage[d] = "waiting"} = {}
      BY <1>5, QueueTypes DEF IInv, SlotsExact, ToSet
    <3> QED
      BY <1>2, <1>5, <2>1, <3>1, QueueTypes DEF IInv, ToSet
  <2>5. SlotsExact'
    BY <1>1, <1>5, <2>1, <2>3, <2>4 DEF SlotsExact, Holders, IInv
  <2> QED
    BY <1>1, <1>2, <1>4, <2>1, <2>5 DEF IInv, TypeOK
<1>6. CASE waiting # <<>>
  <2> DEFINE h == Head(waiting)
  <2>1. inFlight' = inFlight /\ stage' = [ended EXCEPT ![h] = "resumed"] /\ waiting' = Tail(waiting)
    BY <1>6 DEF ReleaseSlot
  <2>2. /\ h \in Issued /\ stage[h] = "waiting" /\ h # c
        /\ Tail(waiting) \in Seq(Issued) /\ ToSet(Tail(waiting)) = ToSet(waiting) \ {h}
        /\ \A i, j \in DOMAIN Tail(waiting) : i < j => Tail(waiting)[i] < Tail(waiting)[j]
    BY <1>6, QueueTail
  <2> HIDE DEF h, ended
  <2>3. /\ stage' \in Seq(Stages) /\ Len(stage') = Len(stage)
        /\ \A d \in Issued : stage'[d] = IF d = h THEN "resumed" ELSE ended[d]
    <3>1. h \in 1..Len(ended) /\ "resumed" \in Stages
      BY <1>1, <1>2, <2>2 DEF Stages
    <3> QED
      BY <1>1, <1>2, <2>1, <3>1, ExceptSeq
  <2>4. Holders' = (Holders \ {c}) \cup {h}
    BY <1>1, <1>2, <2>2, <2>3 DEF Holders
  <2>5. h \notin Holders
    BY <2>2 DEF Holders
  <2>6. inFlight' = Cardinality(Holders')
    <3>1. Cardinality(Holders \ {c}) = Cardinality(Holders) - 1 /\ IsFiniteSet(Holders \ {c})
      BY <1>3, FS_RemoveElement
    <3>2. Cardinality((Holders \ {c}) \cup {h}) = Cardinality(Holders \ {c}) + 1
      BY <2>5, <3>1, FS_AddElement
    <3> QED
      BY <1>3, <2>1, <2>4, <3>1, <3>2
  <2>7. ToSet(waiting') = {d \in Issued : stage'[d] = "waiting"}
    <3>1. ToSet(waiting) = {d \in Issued : stage[d] = "waiting"}
      BY DEF IInv, SlotsExact
    <3> QED
      BY <1>2, <2>1, <2>2, <2>3, <3>1
  <2>8. inFlight = MaxInFlight
    BY <1>6 DEF IInv, SlotsExact
  <2>9. SlotsExact'
    BY <1>1, <2>1, <2>2, <2>6, <2>7, <2>8 DEF SlotsExact, Holders
  <2> QED
    BY <1>1, <1>2, <1>4, <2>1, <2>2, <2>3, <2>9
<1> QED
  BY <1>5, <1>6

-----------------------------------------------------------------------------
(***************************************************************************)
(* Entries.                                                                *)
(***************************************************************************)
\* An entry stands for a call of its own target.
LEMMA EntryTypes ==
  ASSUME IInv, NEW t \in Target, pending[t] # None
  PROVE  /\ pending[t] \in Entry /\ pending[t].command \in Issued
         /\ asks[pending[t].command].target = t /\ Newest(pending[t].command)
         /\ pending[t].phase = "sending" => stage[pending[t].command] # "done"
         /\ pending[t].phase = "confirming" => pending[t].command \in acked
BY DEF IInv, TypeOK, EntryHonest, EntryIsIssued, Entry

\* What a call that ends makes of its target's entry.
LEMMA MarkedEntry ==
  ASSUME IInv, NEW c \in Issued, NEW phase \in {"confirming", "failed"}
  PROVE  /\ Marked(c, phase) \in [Target -> Entry \cup {None}]
         /\ \A t \in Target :
              \/ Marked(c, phase)[t] = pending[t] /\ (pending[t] # None => pending[t].command # c)
              \/ /\ pending[t] # None /\ pending[t].command = c
                 /\ Marked(c, phase)[t] # None
                 /\ Marked(c, phase)[t].command = c /\ Marked(c, phase)[t].phase = phase
<1> DEFINE u == asks[c].target
<1>1. u \in Target /\ c # 0 /\ c \in Cmd /\ pending \in [Target -> Entry \cup {None}]
  BY Sizes DEF IInv, TypeOK, Cmd
<1>2. \A t \in Target : pending[t] # None /\ pending[t].command = c => t = u
  BY EntryTypes
<1>3. CASE Own(c)
  <2>1. pending[u].command = c /\ pending[u] # None
    BY <1>1, <1>3 DEF Own, None
  <2>2. pending[u] \in Entry
    BY <1>1, <2>1, EntryTypes
  <2>3. Marked(c, phase) = [pending EXCEPT ![u] = [pending[u] EXCEPT !.phase = phase]]
    BY <1>3 DEF Marked
  <2>4. /\ [pending[u] EXCEPT !.phase = phase] \in Entry
        /\ [pending[u] EXCEPT !.phase = phase].command = c
        /\ [pending[u] EXCEPT !.phase = phase].phase = phase
    BY <2>1, <2>2 DEF Entry
  <2>5. [pending[u] EXCEPT !.phase = phase] # None
    BY <1>1, <2>4 DEF None
  <2> QED
    BY <1>1, <1>2, <2>1, <2>3, <2>4, <2>5
<1>4. CASE ~Own(c)
  BY <1>1, <1>2, <1>4 DEF Own, Marked
<1> QED
  BY <1>3, <1>4

LEMMA EndStep ==
  ASSUME IInv, NEW c \in Issued, stage[c] \in {"asked", "resumed"},
         ReleaseSlot([stage EXCEPT ![c] = "done"]), UNCHANGED <<asks, sent>>,
         NEW phase \in {"confirming", "failed"}, pending' = Marked(c, phase),
         acked \subseteq acked', acked' \subseteq sent, phase = "confirming" => c \in acked'
  PROVE  IInv'
<1>1. /\ stage' \in Seq(Stages) /\ Len(stage') = Len(stage) /\ stage'[c] = "done"
      /\ \A d \in Issued \ {c} : stage'[d] \in {stage[d], "resumed"}
      /\ inFlight' \in 0..MaxInFlight /\ waiting' \in Seq(Issued)
      /\ SlotsExact'
  BY ReleaseStep
<1>2. /\ pending' \in [Target -> Entry \cup {None}]
      /\ \A t \in Target :
           \/ pending'[t] = pending[t] /\ (pending[t] # None => pending[t].command # c)
           \/ /\ pending[t] # None /\ pending[t].command = c
              /\ pending'[t].command = c /\ pending'[t].phase = phase
  BY MarkedEntry
<1>3. Issued' = Issued /\ Issued \subseteq Cmd
  BY Sizes DEF IInv, Issued
<1>4. TypeOK'
  BY <1>1, <1>2, <1>3 DEF IInv, TypeOK
<1>5. EntryHonest'
  <2> SUFFICES ASSUME NEW t \in Target, pending'[t] # None
               PROVE  /\ asks[pending'[t].command].target = t /\ Newest(pending'[t].command)
                      /\ pending'[t].phase = "sending" => stage'[pending'[t].command] # "done"
                      /\ pending'[t].phase = "confirming" => pending'[t].command \in acked'
    BY <1>3 DEF EntryHonest, Newest
  <2>1. CASE pending'[t] = pending[t] /\ pending[t].command # c
    <3>1. /\ pending[t].command \in Issued
          /\ asks[pending[t].command].target = t /\ Newest(pending[t].command)
          /\ pending[t].phase = "sending" => stage[pending[t].command] # "done"
          /\ pending[t].phase = "confirming" => pending[t].command \in acked
      BY <2>1, EntryTypes
    <3> QED
      BY <1>1, <2>1, <3>1
  <2>2. CASE pending[t] # None /\ pending[t].command = c /\ pending'[t].command = c /\ pending'[t].phase = phase
    BY <2>2, EntryTypes
  <2> QED
    BY <1>2, <2>1, <2>2
<1>6. AskedIsSent'
  BY <1>1, <1>3 DEF IInv, AskedIsSent
<1>7. EntryIsIssued'
  BY <1>2, <1>3 DEF IInv, EntryIsIssued
<1> QED
  BY <1>1, <1>4, <1>5, <1>6, <1>7 DEF IInv

LEMMA SupersededStep == ASSUME IInv, NEW c \in Issued, Superseded(c) PROVE IInv'
<1>1. pending' = Marked(c, "failed")
  BY DEF Superseded, Marked
<1>2. acked' = acked /\ acked \subseteq sent
  BY DEF Superseded, IInv, TypeOK
<1> QED
  BY <1>1, <1>2, EndStep DEF Superseded

LEMMA AnswerStep == ASSUME IInv, NEW c \in Issued, Answer(c) PROVE IInv'
<1>1. c \in sent /\ acked \subseteq sent
  BY DEF Answer, Acknowledged, Failed, IInv, AskedIsSent, TypeOK
<1>2. CASE Acknowledged(c)
  BY <1>1, <1>2, EndStep DEF Acknowledged
<1>3. CASE Failed(c)
  BY <1>1, <1>3, EndStep DEF Failed
<1> QED
  BY <1>2, <1>3 DEF Answer

\* A call that leaves with its slot.
LEMMA AskStep == ASSUME IInv, NEW c \in Issued, Ask(c) PROVE IInv'
<1>1. /\ stage[c] = "resumed" /\ stage' = [stage EXCEPT ![c] = "asked"] /\ sent' = sent \cup {c}
      /\ UNCHANGED <<asks, waiting, inFlight, pending, acked>>
  BY DEF Ask
<1>2. stage \in Seq(Stages) /\ Len(stage) = Len(asks) /\ Issued = 1..Len(stage) /\ Issued' = Issued
  BY <1>1 DEF IInv, TypeOK, Issued
<1>3. /\ stage' \in Seq(Stages) /\ Len(stage') = Len(stage)
      /\ \A d \in Issued : stage'[d] = IF d = c THEN "asked" ELSE stage[d]
  BY <1>1, <1>2, ExceptSeq DEF Stages
<1>4. TypeOK'
  BY <1>1, <1>2, <1>3 DEF IInv, TypeOK
<1>5. Holders' = Holders /\ {d \in Issued' : stage'[d] = "waiting"} = {d \in Issued : stage[d] = "waiting"}
  BY <1>1, <1>2, <1>3 DEF Holders
<1>6. SlotsExact'
  BY <1>1, <1>5 DEF IInv, SlotsExact, Holders
<1>7. EntryHonest' /\ EntryIsIssued'
  BY <1>1, <1>2, <1>3 DEF IInv, EntryHonest, EntryIsIssued, Newest
<1>8. AskedIsSent'
  BY <1>1, <1>2, <1>3 DEF IInv, AskedIsSent
<1> QED
  BY <1>4, <1>6, <1>7, <1>8 DEF IInv

LEMMA ReconcileStep ==
  ASSUME IInv, NEW agrees \in SUBSET Target, NEW late \in SUBSET (Target \ agrees), Reconcile(agrees, late)
  PROVE  IInv'
<1>1. /\ pending' = [t \in Target |-> Verdict(t, t \in agrees, t \in late)]
      /\ UNCHANGED <<asks, stage, waiting, inFlight, acked, sent>>
  BY DEF Reconcile
<1>2. ASSUME NEW t \in Target
      PROVE  /\ pending'[t] \in Entry \cup {None}
             /\ \/ pending'[t] = None \/ pending'[t] = pending[t]
                \/ /\ pending[t] # None /\ pending'[t].command = pending[t].command
                   /\ pending'[t].phase = "failed"
  <2>1. pending'[t] = Verdict(t, t \in agrees, t \in late)
    BY <1>1
  <2>2. pending[t] \in Entry \cup {None}
    BY DEF IInv, TypeOK
  <2>3. CASE pending[t] = None
    <3>1. None.phase = "none"
      BY DEF None
    <3>2. pending'[t] = None
      BY <2>1, <2>3, <3>1 DEF Verdict
    <3> QED
      BY <3>2
  <2>4. CASE pending[t] # None
    <3> DEFINE p == pending[t]
               failed == [p EXCEPT !.phase = "failed"]
    <3>1. p \in Entry /\ failed \in Entry /\ failed.command = p.command /\ failed.phase = "failed"
      BY <2>2, <2>4 DEF Entry
    <3>2. p.phase \in {"sending", "confirming", "failed"}
      BY <3>1 DEF Entry
    <3>3. pending'[t] \in {None, p, failed}
      BY <2>1, <2>4, <3>2 DEF Verdict
    <3> QED
      BY <2>4, <3>1, <3>3
  <2> QED
    BY <2>3, <2>4
<1>3. TypeOK'
  BY <1>1, <1>2 DEF IInv, TypeOK, Issued
<1>4. EntryHonest' /\ EntryIsIssued'
  <2> SUFFICES ASSUME NEW t \in Target, pending'[t] # None
               PROVE  /\ pending'[t].command \in Issued
                      /\ asks[pending'[t].command].target = t /\ Newest(pending'[t].command)
                      /\ pending'[t].phase = "sending" => stage[pending'[t].command] # "done"
                      /\ pending'[t].phase = "confirming" => pending'[t].command \in acked
    BY <1>1 DEF EntryHonest, EntryIsIssued, Newest, Issued
  <2> QED
    BY <1>2, EntryTypes
<1> QED
  BY <1>1, <1>3, <1>4 DEF IInv, SlotsExact, AskedIsSent, Issued

-----------------------------------------------------------------------------
(***************************************************************************)
(* A call of send().                                                       *)
(***************************************************************************)
LEMMA SendStep == ASSUME IInv, NEW t \in Target, NEW on \in BOOLEAN, Send(t, on) PROVE IInv'
<1> DEFINE c == Len(asks) + 1
           call == [target |-> t, on |-> on]
           entry == [command |-> c, phase |-> "sending"]
<1>1. /\ c <= MaxCommands /\ asks' = Append(asks, call)
      /\ pending' = [pending EXCEPT ![t] = entry] /\ acked' = acked
  BY DEF Send
<1>2. /\ asks \in Seq([target : Target, on : BOOLEAN]) /\ stage \in Seq(Stages) /\ Len(stage) = Len(asks)
      /\ Len(asks) \in Nat /\ c \in Nat /\ c # 0 /\ MaxCommands \in Nat
  BY Sizes DEF IInv, TypeOK
<1>3. /\ asks' \in Seq([target : Target, on : BOOLEAN]) /\ Len(asks') = c
      /\ asks'[c] = call /\ \A d \in Issued : asks'[d] = asks[d]
  BY <1>1, <1>2 DEF Issued
<1>4. Issued' = Issued \cup {c} /\ c \notin Issued /\ Issued = 1..Len(stage)
      /\ Issued' \subseteq Cmd
      /\ \A d \in Issued : d < c
  BY <1>1, <1>2, <1>3 DEF Issued, Cmd
<1>5. PICK s \in {"asked", "waiting"} :
        /\ stage' = Append(stage, s)
        /\ s = "asked" => HasSlot /\ inFlight' = inFlight + 1 /\ sent' = sent \cup {c} /\ waiting' = waiting
        /\ s = "waiting" => ~HasSlot /\ waiting' = Append(waiting, c) /\ inFlight' = inFlight /\ sent' = sent
  BY DEF Send
<1>6. /\ stage' \in Seq(Stages) /\ Len(stage') = Len(asks')
      /\ stage'[c] = s /\ \A d \in Issued : stage'[d] = stage[d]
  BY <1>2, <1>3, <1>4, <1>5 DEF Stages
<1> HIDE DEF c
<1>7. entry \in Entry /\ entry # None
  <2>1. c \in Cmd
    BY <1>4
  <2> QED
    BY <1>2, <2>1 DEF Entry, None
<1>8. inFlight \in Nat /\ inFlight <= MaxInFlight /\ MaxInFlight \in Nat
  BY Sizes DEF IInv
<1>9. waiting' \in Seq(Issued') /\ inFlight' \in 0..MaxInFlight
  <2>1. waiting \in Seq(Issued')
    BY <1>4, SeqMonotonic DEF IInv, TypeOK
  <2>2. c \in Issued'
    BY <1>4
  <2>3. CASE s = "asked"
    BY <1>5, <1>8, <2>1, <2>3 DEF HasSlot
  <2>4. CASE s = "waiting"
    <3>1. Append(waiting, c) \in Seq(Issued')
      BY <2>1, <2>2
    <3> QED
      BY <1>5, <1>8, <2>4, <3>1
  <2> QED
    BY <1>5, <2>3, <2>4
<1>10. TypeOK'
  <2>1. pending' \in [Target -> Entry \cup {None}]
    BY <1>1, <1>7 DEF IInv, TypeOK
  <2>2. acked' \subseteq sent' /\ sent' \subseteq Issued'
    BY <1>1, <1>4, <1>5 DEF IInv, TypeOK
  <2> QED
    BY <1>1, <1>3, <1>6, <1>9, <2>1, <2>2 DEF TypeOK
<1>11. SlotsExact'
  <2>1. IsFiniteSet(Holders) /\ inFlight = Cardinality(Holders)
    BY HoldersFinite DEF IInv, SlotsExact, Holders
  <2>2. ToSet(waiting) = {d \in Issued : stage[d] = "waiting"}
    BY DEF IInv, SlotsExact
  <2>3. CASE s = "asked"
    <3>1. Holders' = Holders \cup {c} /\ c \notin Holders
      BY <1>4, <1>6, <2>3 DEF Holders
    <3>2. inFlight' = Cardinality(Holders')
      BY <1>5, <2>1, <2>3, <3>1, FS_AddElement
    <3>3. waiting' = <<>>
      BY <1>5, <1>8, <2>3 DEF HasSlot, IInv, SlotsExact
    <3>4. ToSet(waiting') = {d \in Issued' : stage'[d] = "waiting"}
      BY <1>4, <1>5, <1>6, <2>2, <2>3
    <3> QED
      BY <1>5, <2>3, <3>2, <3>3, <3>4 DEF IInv, SlotsExact, Holders
  <2>4. CASE s = "waiting"
    <3>1. Holders' = Holders
      BY <1>4, <1>6, <2>4 DEF Holders
    <3>2. waiting \in Seq(Issued) /\ Len(waiting) \in Nat /\ DOMAIN waiting = 1..Len(waiting)
      BY QueueTypes DEF IInv, TypeOK
    <3>3. /\ DOMAIN waiting' = 1..(Len(waiting) + 1) /\ waiting'[Len(waiting) + 1] = c
          /\ \A i \in 1..Len(waiting) : waiting'[i] = waiting[i]
      BY <1>5, <2>4, <3>2
    <3>4. ToSet(waiting') = ToSet(waiting) \cup {c}
      BY <3>2, <3>3 DEF ToSet
    <3>5. ToSet(waiting') = {d \in Issued' : stage'[d] = "waiting"}
      BY <1>4, <1>6, <2>2, <2>4, <3>4
    <3>6. \A i \in 1..Len(waiting) : waiting[i] \in Issued
      BY <3>2
    <3>7. \A i, j \in DOMAIN waiting' : i < j => waiting'[i] < waiting'[j]
      <4> SUFFICES ASSUME NEW i \in DOMAIN waiting', NEW j \in DOMAIN waiting', i < j
                   PROVE  waiting'[i] < waiting'[j]
        OBVIOUS
      <4>1. i \in 1..Len(waiting) /\ waiting'[i] = waiting[i]
        BY <3>2, <3>3
      <4>2. CASE j \in 1..Len(waiting)
        BY <3>2, <3>3, <4>1, <4>2 DEF IInv, SlotsExact
      <4>3. CASE j = Len(waiting) + 1
        BY <1>4, <3>3, <3>6, <4>1, <4>3
      <4> QED
        BY <3>2, <3>3, <4>2, <4>3
    <3>8. inFlight' = MaxInFlight
      BY <1>5, <1>8, <2>4 DEF HasSlot
    <3> QED
      BY <1>5, <2>1, <2>4, <3>1, <3>5, <3>7, <3>8 DEF SlotsExact, Holders
  <2> QED
    BY <2>3, <2>4
<1>12. EntryHonest' /\ EntryIsIssued'
  <2> SUFFICES ASSUME NEW u \in Target, pending'[u] # None
               PROVE  /\ pending'[u].command \in Issued'
                      /\ asks'[pending'[u].command].target = u
                      /\ \A d \in Issued' : asks'[d].target = u => d <= pending'[u].command
                      /\ pending'[u].phase = "sending" => stage'[pending'[u].command] # "done"
                      /\ pending'[u].phase = "confirming" => pending'[u].command \in acked'
    BY DEF EntryHonest, EntryIsIssued, Newest
  <2>1. CASE u = t
    <3>1. pending'[u].command = c /\ pending'[u].phase = "sending"
      BY <1>1, <2>1 DEF IInv, TypeOK
    <3>2. \A d \in Issued' : d <= c
      BY <1>2, <1>4 DEF Issued
    <3>3. asks'[c].target = u /\ stage'[c] # "done"
      BY <1>3, <1>6, <2>1
    <3> QED
      BY <1>4, <3>1, <3>2, <3>3
  <2>2. CASE u # t
    <3>1. pending'[u] = pending[u]
      BY <1>1, <2>2 DEF IInv, TypeOK
    <3>2. /\ pending[u].command \in Issued
          /\ asks[pending[u].command].target = u /\ Newest(pending[u].command)
          /\ pending[u].phase = "sending" => stage[pending[u].command] # "done"
          /\ pending[u].phase = "confirming" => pending[u].command \in acked
      BY <3>1, EntryTypes
    <3>3. \A d \in Issued' : asks'[d].target = u => d <= pending[u].command
      BY <1>3, <1>4, <2>2, <3>2 DEF Newest
    <3> QED
      BY <1>1, <1>3, <1>4, <1>6, <3>1, <3>2, <3>3
  <2> QED
    BY <2>1, <2>2
<1>13. AskedIsSent'
  BY <1>4, <1>5, <1>6 DEF IInv, AskedIsSent
<1> QED
  BY <1>10, <1>11, <1>12, <1>13 DEF IInv

-----------------------------------------------------------------------------
(***************************************************************************)
(* The theorems.                                                           *)
(***************************************************************************)
LEMMA InitInv == ASSUME Init PROVE IInv
<1>1. Len(asks) = 0 /\ Issued = {}
  BY DEF Init, Issued
<1>2. TypeOK
  BY <1>1, StoreAssumption DEF Init, TypeOK
<1>3. Holders = {} /\ ToSet(waiting) = {} /\ DOMAIN waiting = {}
  BY <1>1 DEF Init, Holders, ToSet
<1>4. SlotsExact
  BY <1>1, <1>3, FS_EmptySet DEF Init, SlotsExact, Holders
<1> QED
  BY <1>1, <1>2, <1>4 DEF Init, IInv, EntryHonest, AskedIsSent, EntryIsIssued

LEMMA StepInv == ASSUME IInv, [Next]_vars PROVE IInv'
<1>1. CASE UNCHANGED vars
  BY <1>1 DEF vars, IInv, TypeOK, SlotsExact, EntryHonest, AskedIsSent, EntryIsIssued, Issued, Newest
<1>2. ASSUME NEW c \in Issued, Dispatch(c) PROVE IInv'
  BY <1>2, SupersededStep, AskStep DEF Dispatch
<1> QED
  BY <1>1, <1>2, AnswerStep, SendStep, ReconcileStep DEF Next

LEMMA Invariant == Spec => []IInv
BY InitInv, StepInv, PTL DEF Spec

\* The store keeps its types.
THEOREM TypeCorrect == Spec => []TypeOK
<1>1. IInv => TypeOK
  BY DEF IInv
<1> QED
  BY <1>1, Invariant, PTL

\* The counter counts the calls that hold a slot, and the queue holds those that wait,
\* for any number of slots and commands, however calls end.
THEOREM SlotsCounted == Spec => []SlotsExact
<1>1. IInv => SlotsExact
  BY DEF IInv
<1> QED
  BY <1>1, Invariant, PTL

\* An entry speaks for its control's newest command and no control stays grey for good,
\* however answers and frames of the feed arrive.
THEOREM EntriesHonest == Spec => []EntryHonest
<1>1. IInv => EntryHonest
  BY DEF IInv
<1> QED
  BY <1>1, Invariant, PTL

LEMMA SentIsNewest ==
  ASSUME IInv, Next, NEW c \in sent' \ sent
  PROVE  \A d \in 1..Len(asks') : asks'[d].target = asks'[c].target => d <= c
<1>1. CASE \E t \in Target, on \in BOOLEAN : Send(t, on)
  <2>1. PICK t \in Target, on \in BOOLEAN : Send(t, on)
    BY <1>1
  <2>2. asks' = Append(asks, [target |-> t, on |-> on]) /\ c = Len(asks) + 1
    BY <2>1 DEF Send
  <2>3. Len(asks) \in Nat /\ Len(asks') = Len(asks) + 1
    BY <2>2, Sizes DEF IInv, TypeOK
  <2> QED
    BY <2>2, <2>3
<1>2. CASE \E e \in Issued : Dispatch(e)
  <2>1. PICK e \in Issued : Ask(e)
    BY <1>2 DEF Dispatch, Superseded
  <2>2. c = e /\ Own(c) /\ asks' = asks
    BY <2>1 DEF Ask
  <2>3. asks[c].target \in Target /\ c # 0
    BY <2>2, Sizes DEF IInv, Issued
  <2>4. pending[asks[c].target] # None
    BY <2>2, <2>3 DEF Own, None
  <2>5. Newest(c)
    BY <2>2, <2>3, <2>4, EntryTypes DEF Own
  <2> QED
    BY <2>2, <2>5 DEF Newest, Issued
<1>3. CASE \E e \in Issued : Answer(e)
  BY <1>3 DEF Answer, Acknowledged, Failed
<1>4. CASE \E agrees \in SUBSET Target : \E late \in SUBSET (Target \ agrees) : Reconcile(agrees, late)
  BY <1>4 DEF Reconcile
<1> QED
  BY <1>1, <1>2, <1>3, <1>4 DEF Next

\* A command is put on the wire only while it is its control's newest: one that was
\* replaced while it queued never follows the one that replaced it.
THEOREM ReplacedNeverSent == Spec => OnlyNewestAsked
<1>1. IInv /\ [Next]_vars
        => [\A c \in sent' \ sent :
              \A d \in 1..Len(asks') : asks'[d].target = asks'[c].target => d <= c]_vars
  BY SentIsNewest
<1> QED
  BY <1>1, Invariant, PTL DEF Spec, OnlyNewestAsked
=============================================================================
