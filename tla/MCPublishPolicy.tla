-------------------------- MODULE MCPublishPolicy --------------------------
(* PublishPolicy for TLC: two or three calls, tables with two contents.    *)
EXTENDS PublishPolicy, TLC

MCFirstPolicy == [s \in Sections |-> 0]

\* Calls are only compared for equality.
CallSymmetry == Permutations(Calls)
=============================================================================
