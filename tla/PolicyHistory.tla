--------------------------- MODULE PolicyHistory ---------------------------
(***************************************************************************)
(* What publishing a policy promises, without saying how.                  *)
(*                                                                         *)
(* The policy tables go through a history of committed states.  Publishing *)
(* freezes one of those states, whole, under the next version number; a    *)
(* later version never freezes an earlier state than the version before    *)
(* it, and a frozen version is never taken back or replaced.               *)
(***************************************************************************)
EXTENDS Naturals, Sequences

CONSTANTS
    Policy,       \* the states the policy tables can be in
    FirstPolicy   \* the state they start in

VARIABLES
    hist,         \* the committed states of the policy tables, oldest first
    pub           \* pub[k] is the index in hist of the k-th published state

vars == <<hist, pub>>

Init ==
    /\ hist = <<FirstPolicy>>
    /\ pub = <<>>

\* Some administrator commits a change of the policy tables.
Edit ==
    /\ \E q \in Policy : hist' = Append(hist, q)
    /\ UNCHANGED pub

\* The states the next version may freeze: none older than the last one.
Candidates == (IF pub = <<>> THEN 1 ELSE pub[Len(pub)]) .. Len(hist)

Publish ==
    /\ \E i \in Candidates : pub' = Append(pub, i)
    /\ UNCHANGED hist

Next == Edit \/ Publish

Spec == Init /\ [][Next]_vars
=============================================================================
