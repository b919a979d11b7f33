-------------------------- MODULE MCArchiveUpload --------------------------
(***************************************************************************)
(* Instances of ArchiveUpload for TLC.                                     *)
(***************************************************************************)
EXTENDS ArchiveUpload

FirstTwoRefused == {<<1, 1>>, <<1, 2>>}
SomeRefused == {<<1, 2>>, <<2, 1>>}

\* Bound: rows are marked frozen (readings only) in behaviors in which no other stream has
\* rows and no whole table refuses.
FreezesAlone ==
  freezes > 0 => refusing = {} /\ \A s \in Stream \ {Readings} : archived[s] = 0
=============================================================================
