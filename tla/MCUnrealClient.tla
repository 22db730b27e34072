---------------------------- MODULE MCUnrealClient ----------------------------
(* Instances of UnrealClient for TLC. *)
EXTENDS UnrealClient, TLC

Scenario(log, snapshot, S, token, count) ==
    [log |-> log, snapshot |-> snapshot, edited |-> S, token |-> token,
     left |-> [r \in Rare |-> IF r \in DOMAIN count THEN count[r] ELSE 0]]

X(v) == [slot |-> "xform", val |-> v]

\* One of each fault beside an edit and a remote record; then pairs of faults,
\* a stage with a snapshot, a token to wait for, and queues at their limits.
MCScenarios ==
    { Scenario(<<X(1)>>, 0, {"xform"}, FALSE, [edit |-> 1, remote |-> 1] @@ f) :
        f \in {[loss |-> 1], [eloss |-> 1], [rewrite |-> 1], [failure |-> 1],
               [reject |-> 1], [manual |-> 1]} }
    \cup
    { Scenario(<<X(1)>>, n, {"xform"}, FALSE, [remote |-> 1, rewrite |-> 1, loss |-> 1]) :
        n \in 0..1 }
    \cup
    { Scenario(<<X(1)>>, 0, {"xform"}, TRUE, [edit |-> 1, loss |-> 1, manual |-> 1]),
      Scenario(<<X(1), X(2)>>, 0, {"xform"}, FALSE, [remote |-> 2, failure |-> 1]),
      Scenario(<<X(1), X(2)>>, 1, {"xform"}, FALSE, [edit |-> 1, failure |-> 1, loss |-> 1]),
      Scenario(<<X(1)>>, 0, {"vis", "input"}, FALSE, [edit |-> 2]) }
=============================================================================
