----------------------------- MODULE MCApproval -----------------------------
(* Instances of Approval for TLC. *)
EXTENDS Approval

Two == 1..2

\* Neither executions nor deciders differ in anything but their identity: TLC
\* may take the longer input, and the decision on the later item, second.
\* Unlike SYMMETRY this is sound for liveness too.
Sorted ==
    /\ Len(input[1]) <= Len(input[2])
    /\ asked[1].index <= asked[2].index

SortedInit == Init /\ Sorted

SortedSpec == SortedInit /\ [][Next]_vars /\ Fairness
=============================================================================
