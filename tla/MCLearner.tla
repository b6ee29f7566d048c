------------------------------- MODULE MCLearner -------------------------------
(***************************************************************************)
(* Instances of Learner for TLC: a join, two chats and a null, one of the  *)
(* chats chosen in two instances; or only nulls.                           *)
(***************************************************************************)
EXTENDS Learner

CONSTANTS j, c1, c2, n1, n2, n3, n4

MixedValue == {j, c1, n1, c2}
MixedCacheable == {j, c1, c2}
MixedChosen == <<j, c1, n1, c2, c1>>

PlainValue == {n1, n2, n3, n4}
PlainChosen == <<n1, n2, n3, n4>>

=============================================================================
