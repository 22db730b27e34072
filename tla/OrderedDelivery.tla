-------------------------- MODULE OrderedDelivery --------------------------
(***************************************************************************)
(* What a producer session promises its application: transactions enter    *)
(* the server's log in the order of their ids, each at most once, with     *)
(* bytes that the application submitted under that id, and only what is in *)
(* the log is acknowledged.                                                *)
(***************************************************************************)
EXTENDS Integers, Sequences

CONSTANTS Sessions, Payloads

VARIABLES
    versions,  \* per session and id, the payloads submitted under that id
    log,       \* the committed transactions, in order
    acked      \* per session, the highest id the application knows committed

vars == <<versions, log, acked>>

\* The transactions of session s in the log.
CommittedBy(s) == {i \in DOMAIN log : log[i].s = s}

\* Transaction id of session s is in the log.
InLog(s, id) == \E i \in CommittedBy(s) : log[i].id = id

Init ==
    /\ versions = [s \in Sessions |-> <<>>]
    /\ log = <<>>
    /\ acked = [s \in Sessions |-> 0]

Submit(s, p) ==
    /\ versions' = [versions EXCEPT ![s] = Append(@, <<p>>)]
    /\ UNCHANGED <<log, acked>>

\* A rejected transaction is rebuilt under its id.
Replace(s, id, p) ==
    /\ id \in DOMAIN versions[s] /\ id > acked[s]
    /\ versions' = [versions EXCEPT ![s][id] = Append(@, p)]
    /\ UNCHANGED <<log, acked>>

\* The next id of the session, with one of its payloads.
Commit(s, id, v) ==
    /\ id \in DOMAIN versions[s] /\ v \in DOMAIN versions[s][id]
    /\ ~InLog(s, id) /\ \A j \in 1..(id - 1) : InLog(s, j)
    /\ log' = Append(log, [s |-> s, id |-> id, p |-> versions[s][id][v]])
    /\ UNCHANGED <<versions, acked>>

\* An acknowledgement is cumulative.
Acknowledge(s, id) ==
    /\ id > acked[s] /\ \A j \in 1..id : InLog(s, j)
    /\ acked' = [acked EXCEPT ![s] = id]
    /\ UNCHANGED <<versions, log>>

Next ==
    \E s \in Sessions :
        \/ \E p \in Payloads : Submit(s, p)
        \/ \E id \in DOMAIN versions[s] :
            \/ \E p \in Payloads : Replace(s, id, p)
            \/ \E v \in DOMAIN versions[s][id] : Commit(s, id, v)
            \/ Acknowledge(s, id)

Spec == Init /\ [][Next]_vars
=============================================================================
