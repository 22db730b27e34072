-------------------------- MODULE MCDeltaEmission --------------------------
(* Instances of DeltaEmission for TLC.                                     *)
EXTENDS DeltaEmission

A(op, key, f, v) == [op |-> op, key |-> key, f |-> f, v |-> v]
Sets(key, f, vs) == {A("set", key, f, v) : v \in vs}
Clears(key, fs) == {A("clear", key, f, Nil) : f \in fs}

WithPar == [Blank EXCEPT ![<<"par">>] = [specifier |-> "A"]]
ParAttr == <<"par", "attr">>
ParCustom == <<"par", "custom">>
ParTrs == <<"par", "trs">>
ParVis == <<"par", "vis">>

\* Values over a weaker prim.
ValuesPlan ==
    [name |-> "values", replay |-> TRUE, budget |-> 3, base |-> WithPar, coalesce |-> FALSE, publish |-> TRUE, foreign |-> <<>>,
     edits |-> Sets(ParAttr, "default", {"v1", "v2", Block}) \cup Clears(ParAttr, {"default", "timeSamples"})
               \cup Sets(ParAttr, "timeSamples", {"v1"}) \cup {A("remove", ParAttr, Nil, Nil)}
               \cup Sets(ParCustom, "default", {"v1"}) \cup Clears(ParCustom, {"default"})
               \cup {A("remove", ParCustom, Nil, Nil)}]
\* Transforms and visibility, with another client's transform above them.
ShapesPlan ==
    [name |-> "shapes", replay |-> FALSE, budget |-> 3, base |-> WithPar, coalesce |-> FALSE, publish |-> FALSE,
     foreign |-> <<<<Event("ops", <<"par">>, {}, <<>>),
                    Event("set", ParTrs, {"default"}, "default" :> "v9")>>>>,
     edits |-> Sets(ParTrs, "default", {"v1", "v2"}) \cup Clears(ParTrs, {"default"})
               \cup Sets(ParVis, "default", {"v1", "v2"}) \cup Clears(ParVis, {"default"})
               \cup Sets(ParAttr, "default", {"v1", "v2"}) \cup {A("define", <<"kid">>, Nil, "A")}]
\* Definitions, removals and activation of a prim and its child.
TreePlan(base) ==
    [name |-> "tree", replay |-> FALSE, budget |-> 3, base |-> base, coalesce |-> FALSE, publish |-> FALSE,
     foreign |-> <<<<Event("deactivate", <<"par">>, {}, <<>>)>>,
                   <<Event("exact", <<"par">>, {"active"}, <<>>)>>>>,
     edits |-> {A("define", <<p>>, Nil, t) : p \in Prim, t \in {"A"}} \cup {A("define", <<"par">>, Nil, "B")}
               \cup {A("delete", <<p>>, Nil, Nil) : p \in Prim}
               \cup {A("active", <<"par">>, Nil, v) : v \in {"on", "off", Nil}}
               \cup Sets(ParAttr, "default", {"v1"}) \cup Sets(<<"kid", "attr">>, "default", {"v1"})]
\* The coalescing window, with an attribute between transforms.
WindowPlan ==
    [name |-> "window", replay |-> FALSE, budget |-> 4, base |-> WithPar, coalesce |-> TRUE,
     publish |-> FALSE, foreign |-> <<>>,
     edits |-> Sets(ParTrs, "default", {"v1", "v2"}) \cup Clears(ParTrs, {"default"})
               \cup Sets(ParAttr, "default", {"v1"}) \cup Clears(ParAttr, {"default"})
               \cup {A("define", <<"kid">>, Nil, "A")} \cup Sets(<<"kid", "trs">>, "default", {"v1"})]
MCPlans == <<ValuesPlan, ShapesPlan, TreePlan(Blank), TreePlan(WithPar), WindowPlan>>
============================================================================
