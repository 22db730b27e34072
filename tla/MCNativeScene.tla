---------------------------- MODULE MCNativeScene ----------------------------
(* Instances of NativeScene for TLC. *)
EXTENDS NativeScene

Scenario(place, S, edits, remotes, upsets) ==
    [others |-> place, edited |-> S,
     left |-> [r \in Rare |-> IF r = "edit" THEN edits ELSE IF r = "remote" THEN remotes
                              ELSE IF r \in upsets THEN 1 ELSE 0]]

\* Each object under each upset, and both objects undisturbed.
MCScenarios ==
    {Scenario("strong", {o}, 1, 2, {upset}) : o \in {"b", "r"}, upset \in {"failure", "purge"}}
    \cup {Scenario(place, {o}, 2, 1, {upset}) :
            place \in {"strong", "weak"}, o \in {"b", "r"}, upset \in {"offline", "operator"}}
    \cup {Scenario("weak", {"b", "r"}, 1, 1, {})}

MCOrder == <<"b", "r">>
=============================================================================
