--------------------------- MODULE MCServerCommit ---------------------------
(* Instances of ServerCommit for TLC.                                      *)
EXTENDS ServerCommit, SequencesExt

CONSTANTS p1, p2, k1, k2, m1, m2

\* The first transactions of both producers author the same slot, so that
\* compaction drops rows and order between producers matters.
MCKeyOf == [t \in Txns |-> IF t.id = 1 THEN k1 ELSE k2]
MCChildKeys == {k1}
\* The second transaction of p1 loads the payload that contains slot k1.
MCLoads == {t \in Txns : t.p = p1 /\ t.id = 2}
\* The second transaction of p2 cannot be applied.
MCBad == {t \in Txns : t.p = p2 /\ t.id = 2}
MCNone == {}

TakesNoPart(p) ==
    /\ \A t \in Txns : t.p = p => writes[t] = 0
    /\ \A t \in ToSet(queue \o batch) \cup {admitting} : t # None => t.p # p

\* Two producers and the commit thread are a large instance by themselves: with
\* both, at most one fault, crash or rewrite. With one, all of them together,
\* before and after restarts that change the batch size.
OneDisturbance ==
    /\ (faults + crashes <= 1 /\ rewrites = 0) \/ TakesNoPart(p2)
    /\ mpc[m2] # "idle" => rewrites = 2
=============================================================================
