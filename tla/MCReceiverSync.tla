--------------------------- MODULE MCReceiverSync ---------------------------
(* Instances of ReceiverSync for TLC. *)
EXTENDS ReceiverSync

Scenario(first, s, u, t) ==
    [from |-> first, snapshots |-> s, unpublished |-> u, timeouts |-> t]

\* A new receiver among rewrites, and one that resumes after record 1 with
\* failed publications and slow broadcasts.
MCHistories == {Scenario(1, 1, 0, 0), Scenario(2, 0, 1, 1)}

\* Failed publications and slow broadcasts without faults.
MCLiveness == {Scenario(1, 0, 1, 0), Scenario(1, 0, 0, 1)}

\* Connection slots are interchangeable (used in runs without liveness).
Slots == Permutations(Conns)

=============================================================================
