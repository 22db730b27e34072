---------------------------- MODULE MCLayerStack ----------------------------
(***************************************************************************)
(* Small casts for LayerStack: two producers of one department, one of     *)
(* another, a layered and a flat receiver.                                 *)
(***************************************************************************)
EXTENDS LayerStack

CONSTANTS a1, a2, f1, n1, layered, plain, anim, fx, own, other

MCProducers == {a1, a2, f1, n1}
MCDepartmentOf == (a1 :> anim) @@ (a2 :> anim) @@ (f1 :> fx) @@ (n1 :> None)
MCReceivers == {layered, plain}
MCLayered == {layered}
MCDepartments == {anim, fx}
MCStages == {own, other}
MCValues == {"x"}
MCConfigured == {<<>>, <<fx, anim>>}
MCOrders == {<<>>, <<anim, fx>>}

Nothing ==
    [join |-> 0, write |-> 0, meta |-> 0, order |-> 0, mute |-> 0, release |-> 0,
     restart |-> 0, drop |-> 0, rebind |-> 0]
Scenario(who, given) == [who |-> who] @@ given @@ Nothing

\* A department's second producer writes before the first has published.
Races == Scenario({a1, a2, n1, layered}, [join |-> 2, write |-> 2, drop |-> 1])
\* States read in one order and published in another.
Reorders == Scenario({a1, f1, layered}, [join |-> 2, order |-> 1, drop |-> 1])
\* Writing to layers that are muted meanwhile.
Mutes == Scenario({a1, layered}, [join |-> 1, write |-> 2, mute |-> 2])
\* A restart between a receiver's batches.
Restarts == Scenario({a1, n1, layered}, [join |-> 2, write |-> 2, restart |-> 1])
\* Flat receivers and a policy that comes and goes.
Policies == Scenario({a1, n1, plain}, [join |-> 2, write |-> 1, order |-> 2, mute |-> 1, drop |-> 1])
\* Metadata over rebinds.
Rebinds == Scenario({n1, layered}, [join |-> 2, meta |-> 2, rebind |-> 3, restart |-> 1])
\* Released layers.
Releases == Scenario({a1, a2, layered}, [join |-> 2, write |-> 1, release |-> 1])

MCBudgets == {Races, Reorders, Mutes, Restarts, Policies, Rebinds, Releases}
=============================================================================
