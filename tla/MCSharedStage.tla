--------------------------- MODULE MCSharedStage ---------------------------
(* Small instances of SharedStage.                                          *)
EXTENDS SharedStage, TLC

CONSTANTS root, laya, layb, c1, c2
MCLayer == <<root, laya, layb>>
MCClient == {c1, c2}

Sublayers(S, T) == (root :> S @@ laya :> T @@ layb :> {})
Nothing == [p \in Procs |-> {}]

Scene(initial, missing, joined, writers, movers, often) ==
    [initial |-> initial, missing |-> missing, joined |-> joined, writers |-> writers,
     movers |-> movers, budget |-> often @@ [w \in StageRare |-> 0]]

Flat  == Sublayers({laya}, {})
Wide  == Sublayers({laya, layb}, {})
Deep  == Sublayers({laya}, {layb})
Lacks(p, l) == [Nothing EXCEPT ![p] = {l}]

MCScenes ==
    { \* any edit of content beside any edit of topology
      Scene(Flat, Nothing, MCClient, MCClient \X {root, laya, layb},
            (MCClient \X {root} \X SUBSET {laya, layb}) \cup (MCClient \X {laya} \X {{layb}}),
            "content" :> 1 @@ "topology" :> 1),
      \* two topology edits of one parent, and an edit below it
      Scene(Flat, Nothing, MCClient, {<<c1, layb>>},
            {<<c1, root, {layb}>>, <<c1, root, {laya, layb}>>, <<c2, root, {}>>, <<c2, root, {laya}>>},
            "content" :> 1 @@ "topology" :> 2),
      \* edits held back while offline, then edited again
      Scene(Flat, Nothing, MCClient, MCClient \X {laya}, {<<c1, laya, {layb}>>},
            "content" :> 2 @@ "topology" :> 1 @@ "offline" :> 1),
      \* a compaction beside edits of both kinds
      Scene(Flat, Nothing, MCClient, {<<c1, laya>>}, {<<c2, root, {}>>, <<c2, root, {laya, layb}>>},
            "content" :> 1 @@ "topology" :> 1 @@ "compact" :> 1),
      \* a compaction without one of the layers, and a restart; c2 joins meanwhile
      Scene(Wide, Nothing, {c1}, {}, {<<c1, root, {layb}>>},
            "topology" :> 1 @@ "compact" :> 1 @@ "restart" :> 1),
      \* an asset appears late at a client, or at the server
      Scene(Deep, Lacks(c2, laya), MCClient, {<<c1, laya>>, <<c1, layb>>}, {<<c2, root, {laya, layb}>>, <<c1, laya, {}>>},
            "content" :> 1 @@ "topology" :> 1 @@ "asset" :> 1),
      Scene(Deep, Lacks(Server, laya), MCClient, {<<c1, laya>>, <<c1, layb>>}, {<<c1, root, {laya, layb}>>},
            "content" :> 1 @@ "topology" :> 1 @@ "asset" :> 1) }

\* A topology edit, a restart of the server and an edit of content.
MCRestart ==
    { Scene(Flat, Nothing, MCClient, {<<c1, laya>>}, {<<c1, root, {laya, layb}>>},
            "content" :> 1 @@ "topology" :> 1 @@ "restart" :> 1) }
=============================================================================
