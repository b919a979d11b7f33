---------------------------- MODULE MCAuditTrail ----------------------------
(***************************************************************************)
(* Instances of AuditTrail for TLC.                                        *)
(***************************************************************************)
EXTENDS AuditTrail, TLC

CONSTANTS p1, s1, s2

\* The commands the scheduler fires differ in nothing.
SameSched == Permutations(SchedCmds)

\* Bound: a behavior has two commands, the third is refused before it begins. They are
\* of a person and the scheduler, or both of the scheduler: two rows in one queue, which
\* a rewrite can mix up. The latter has no power cut.
MCInit ==
  /\ \E without \in Cmd :
       /\ stage = [c \in Cmd |-> IF c = without THEN "refused" ELSE "new"]
       /\ powerCuts = IF without \in ProxyCmds THEN MaxPowerCuts ELSE 0
  /\ Quiet

MCSpec == MCInit /\ [][Next]_vars

TwoFired == \A c \in ProxyCmds : stage[c] = "refused"

\* Bound: a process crash or a power cut, not both. What is on the card matters to a
\* power cut only, so a behavior with a crash has no writeback.
OneKindOfFault ==
  crashes > 0 => /\ powerCuts = 0 \/ TwoFired
                 /\ \A w \in Writer : synced.queue[w] = 0 /\ synced.draining[w] = 0

\* Bound: with two fired commands one row reaches the cloud. What a rewrite can lose is
\* on the edge.
OneInCloud == TwoFired => Cardinality(cloud) <= 1
=============================================================================
