---------------------------- MODULE MCFileBridge ----------------------------
(* Small instances of FileBridge.                                           *)
EXTENDS FileBridge, TLC

\* So many edits and saves, and the events of S at most once each.
Scenario(how, edits, saves, S) ==
    [mode |-> how,
     budget |-> [r \in Rare |-> CASE r = "edit" -> edits [] r = "save" -> saves
                                  [] OTHER -> IF r \in S THEN 1 ELSE 0]]

\* A compaction and a restart of the server make a token current again; a
\* crash of the bridge meets a state file it could not write, or an upload
\* that goes on without it.
MCFaults ==
    { Scenario("translate", 2, 1, {}),
      Scenario("translate", 1, 2, {}),
      Scenario("translate", 1, 1, {"compact", "restart"}),
      Scenario("translate", 1, 1, {"crash", "persist"}),
      Scenario("translate", 0, 2, {"crash", "persist"}),
      Scenario("translate", 1, 1, {"crash", "late"}),
      Scenario("translate", 1, 1, {"lost", "late", "layer"}),
      Scenario("translate", 1, 1, {"store", "compact"}) }
    \cup { Scenario(how, 1, 1, {}) : how \in Modes }
=============================================================================
