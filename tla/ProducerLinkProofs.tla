------------------------- MODULE ProducerLinkProofs -------------------------
(***************************************************************************)
(* For every capacity, every queue size and every number of transactions,  *)
(* faults, repairs and sessions: the producer link loses nothing, never    *)
(* mistakes a late answer for a session it cannot continue, gives only     *)
(* checkpoints that cover what it was told, and implements the ordered     *)
(* delivery of OrderedDelivery.                                            *)
(***************************************************************************)
EXTENDS ProducerLinkInvariant

-----------------------------------------------------------------------------
(* The submitted payloads.                                                 *)

\* The transactions of v, with all their payloads, are in w.
Extends(v, w) ==
    /\ Len(v) <= Len(w)
    /\ \A id \in DOMAIN v :
        /\ id \in DOMAIN w
        /\ \A n \in DOMAIN v[id] : n \in DOMAIN w[id] /\ w[id][n] = v[id][n]

\* A history extends itself.
LEMMA ExtendsItself ==
    ASSUME NEW v \in Seq(Seq(Payloads))
    PROVE  Extends(v, v)
BY DEF Extends

\* A transaction submitted extends the history of its session.
LEMMA TransactionAdded ==
    ASSUME NEW v \in Seq(Seq(Payloads)), NEW p \in Payloads,
           \A id \in DOMAIN v : v[id] # <<>>
    PROVE  /\ Extends(v, Append(v, <<p>>))
           /\ \A id \in DOMAIN Append(v, <<p>>) : Append(v, <<p>>)[id] # <<>>
<1>1. /\ Len(v) \in Nat /\ Len(Append(v, <<p>>)) = Len(v) + 1
      /\ DOMAIN v = 1..Len(v) /\ DOMAIN Append(v, <<p>>) = 1..(Len(v) + 1)
      /\ \A id \in 1..Len(v) : Append(v, <<p>>)[id] = v[id]
      /\ Append(v, <<p>>)[Len(v) + 1] = <<p>>
  <2>1. <<p>> \in Seq(Payloads)
    OBVIOUS
  <2>2. Len(v) \in Nat /\ DOMAIN v = 1..Len(v)
    BY LenProperties
  <2>3. /\ Append(v, <<p>>) \in Seq(Seq(Payloads))
        /\ Len(Append(v, <<p>>)) = Len(v) + 1
        /\ \A id \in 1..Len(v) : Append(v, <<p>>)[id] = v[id]
        /\ Append(v, <<p>>)[Len(v) + 1] = <<p>>
    BY <2>1, AppendProperties
  <2>4. DOMAIN Append(v, <<p>>) = 1..(Len(v) + 1)
    BY <2>3, LenProperties
  <2> QED
    BY <2>2, <2>3, <2>4
<1>2. Len(v) <= Len(v) + 1 /\ \A id \in 1..Len(v) : id \in 1..(Len(v) + 1)
  BY <1>1
<1>3. \A id \in 1..(Len(v) + 1) : id \in 1..Len(v) \/ id = Len(v) + 1
  BY <1>1
<1>4. <<p>> # <<>>
  OBVIOUS
<1> QED
  BY <1>1, <1>2, <1>3, <1>4 DEF Extends

\* w is v with one more payload for transaction n.
Revised(v, n, p, w) == w = [v EXCEPT ![n] = Append(@, p)]

\* A repair extends the history of its session.
LEMMA PayloadAdded ==
    ASSUME NEW v \in Seq(Seq(Payloads)), NEW p \in Payloads, NEW n \in DOMAIN v,
           NEW w, Revised(v, n, p, w),
           \A id \in DOMAIN v : v[id] # <<>>
    PROVE  /\ Extends(v, w) /\ Len(w) = Len(v)
           /\ \A id \in DOMAIN w : w[id] # <<>>
<1>1. Len(v) \in Nat /\ DOMAIN v = 1..Len(v)
  BY LenProperties
<1>2. \A id \in DOMAIN v : v[id] \in Seq(Payloads)
  BY ElementOfSeq
<1>3. /\ DOMAIN w = DOMAIN v /\ w[n] = Append(v[n], p)
      /\ \A id \in DOMAIN v : id # n => w[id] = v[id]
  BY DEF Revised
<1>4. PICK a, z : a = v[n] /\ z = Append(a, p) /\ a \in Seq(Payloads)
  BY <1>2
<1>5. /\ \A i \in DOMAIN a : i \in DOMAIN z /\ z[i] = a[i]
      /\ z # <<>>
  BY <1>4
<1>6. Len(w) = Len(v)
  <2>1. Append(v[n], p) \in Seq(Payloads)
    BY <1>2, AppendProperties
  <2>2. Len([v EXCEPT ![n] = Append(v[n], p)]) = Len(v)
    BY <2>1, <1>1, ExceptSeq
  <2> QED
    BY <2>2 DEF Revised
<1>7. ASSUME NEW id \in DOMAIN v
      PROVE  /\ id \in DOMAIN w /\ w[id] # <<>>
             /\ \A i \in DOMAIN v[id] : i \in DOMAIN w[id] /\ w[id][i] = v[id][i]
  <2>1. CASE id = n
    BY <2>1, <1>3, <1>4, <1>5
  <2>2. CASE id # n
    BY <2>2, <1>3
  <2> QED
    BY <2>1, <2>2
<1>8. Extends(v, w)
  BY <1>1, <1>6, <1>7 DEF Extends
<1> QED
  BY <1>3, <1>6, <1>7, <1>8

\* What send_events does to the history.
LEMMA SubmittedEffect ==
    ASSUME LinkInv, NEW p \in Payloads, SendEvents(p)
    PROVE  /\ versions' = [versions EXCEPT ![session] =
                             Append(versions[session], <<p>>)]
           /\ UNCHANGED <<session, acked, lastAcked, committed, log>>
BY DEF SendEvents, Submitted, AppendNext, identity, server

\* What a repair does to the history: its transaction is not acknowledged.
LEMMA RepairedEffect ==
    ASSUME LinkInv, NEW p \in Payloads, RepairRejectedTransaction(p)
    PROVE  /\ failure.id \in DOMAIN versions[session]
           /\ failure # None /\ failure.id > lastAcked
           /\ \E w : /\ w = [versions[session] EXCEPT ![failure.id] = Append(@, p)]
                     /\ versions' = [versions EXCEPT ![session] = w]
           /\ UNCHANGED <<session, acked, lastAcked, committed, log>>
<1>0. /\ NativeTypes /\ SenderTypes /\ Recovering /\ OutboxIsExact
      /\ versions[session] \in Seq(Seq(Payloads))
  BY TypeParts DEF LinkInv, SenderTypes, ServerTypes
<1>1. /\ versions' = [versions EXCEPT ![session][failure.id] = Append(@, p)]
      /\ failure # None
      /\ UNCHANGED <<session, acked, lastAcked, committed, log>>
  BY DEF RepairRejectedTransaction, RepairRejected, identity, server
<1>2. /\ failure.id = rejectedId /\ rejectedId > lastAcked /\ rejectedId < nextId
      /\ Len(versions[session]) = nextId - 1
      /\ rejectedId \in Nat /\ lastAcked \in Nat /\ nextId \in Nat
  BY <1>0, <1>1 DEF Recovering, OutboxIsExact, NativeTypes
<1>3. DOMAIN versions[session] = 1..(nextId - 1)
  BY <1>0, <1>2, LenProperties
<1>4. failure.id \in DOMAIN versions[session]
  BY <1>2, <1>3
<1> QED
  BY <1>1, <1>2, <1>4

\* Nothing that was submitted is forgotten.
LEMMA VersionsGrow ==
    ASSUME LinkInv, Next
    PROVE  /\ \A s \in Sessions :
                /\ Extends(versions[s], versions'[s])
                /\ s # session => versions'[s] = versions[s]
                /\ \A id \in DOMAIN versions'[s] : versions'[s][id] # <<>>
<1>0. /\ TypeOK /\ SenderTypes /\ HistoryIsExact
      /\ versions \in [Sessions -> Seq(Seq(Payloads))]
  BY TypeParts DEF LinkInv, ServerTypes
<1>1. CASE UNCHANGED versions
  BY <1>0, <1>1, ExtendsItself DEF HistoryIsExact
<1>2. ASSUME NEW p \in Payloads, SendEvents(p)
      PROVE  \A s \in Sessions :
                /\ Extends(versions[s], versions'[s])
                /\ s # session => versions'[s] = versions[s]
                /\ \A id \in DOMAIN versions'[s] : versions'[s][id] # <<>>
  <2>1. versions' = [versions EXCEPT ![session] = Append(versions[session], <<p>>)]
    BY <1>2, SubmittedEffect
  <2>2. PICK v, w : v = versions[session] /\ v \in Seq(Seq(Payloads))
                    /\ w = Append(v, <<p>>)
    BY <1>0 DEF SenderTypes
  <2>3. \A id \in DOMAIN v : v[id] # <<>>
    BY <2>2, <1>0 DEF HistoryIsExact, SenderTypes
  <2>4. Extends(v, w) /\ \A id \in DOMAIN w : w[id] # <<>>
    BY <2>2, <2>3, TransactionAdded
  <2>5. versions' = [versions EXCEPT ![session] = w]
    BY <2>1, <2>2
  <2> QED
    BY <2>2, <2>4, <2>5, <1>0, ExtendsItself DEF HistoryIsExact
<1>3. ASSUME NEW p \in Payloads, RepairRejectedTransaction(p)
      PROVE  \A s \in Sessions :
                /\ Extends(versions[s], versions'[s])
                /\ s # session => versions'[s] = versions[s]
                /\ \A id \in DOMAIN versions'[s] : versions'[s][id] # <<>>
  <2>1. PICK w : /\ w = [versions[session] EXCEPT ![failure.id] = Append(@, p)]
                 /\ versions' = [versions EXCEPT ![session] = w]
    BY <1>3, RepairedEffect
  <2>2. PICK v, n : v = versions[session] /\ v \in Seq(Seq(Payloads))
                    /\ n = failure.id /\ n \in DOMAIN v
    BY <1>0, <1>3, RepairedEffect DEF SenderTypes
  <2>3. \A id \in DOMAIN v : v[id] # <<>>
    BY <2>2, <1>0 DEF HistoryIsExact, SenderTypes
  <2>4. Revised(v, n, p, w)
    BY <2>1, <2>2 DEF Revised
  <2>5. Extends(v, w) /\ \A id \in DOMAIN w : w[id] # <<>>
    BY <2>2, <2>3, <2>4, PayloadAdded
  <2> QED
    BY <2>1, <2>2, <2>5, <1>0, ExtendsItself DEF HistoryIsExact
<1>4. \/ UNCHANGED versions
      \/ \E p \in Payloads : SendEvents(p) \/ RepairRejectedTransaction(p)
  <2>1. CASE BeginConnection
    BY <2>1 DEF BeginConnection, history
  <2>2. CASE AttemptFails
    BY <2>2 DEF AttemptFails, history
  <2>3. CASE AcceptHello
    BY <2>3, HelloAccepted DEF AcceptHello, history
  <2>4. CASE Publish
    BY <2>4 DEF Publish, history
  <2>5. CASE ReplayNext
    BY <2>5 DEF ReplayNext, history
  <2>6. CASE ReplayDone
    BY <2>6 DEF ReplayDone, history
  <2>7. CASE ReplayFails
    BY <2>7 DEF ReplayFails, history
  <2>8. CASE FinishSend
    BY <2>8 DEF FinishSend, history
  <2>9. CASE SendRaises
    BY <2>9 DEF SendRaises, history
  <2>10. CASE WriterClaim
    BY <2>10 DEF WriterClaim, history
  <2>11. CASE WriterSend
    BY <2>11 DEF WriterSend, history
  <2>12. CASE WriterRaises
    BY <2>12 DEF WriterRaises, history
  <2>13. CASE AbandonRejectedSession
    BY <2>13 DEF AbandonRejectedSession, history
  <2>14. CASE CancelConnect
    BY <2>14 DEF CancelConnect, history
  <2>15. CASE Disconnect
    BY <2>15 DEF Disconnect, history
  <2>16. ASSUME NEW g \in Gens, ServeError(g) PROVE UNCHANGED versions
    BY <2>16 DEF ServeError, history
  <2>17. ASSUME NEW g \in Gens, ServeLimited(g) PROVE UNCHANGED versions
    BY <2>17 DEF ServeLimited, history
  <2>18. ASSUME NEW g \in Gens, Break(g) PROVE UNCHANGED versions
    BY <2>18 DEF Break, history
  <2>19. CASE Restart
    BY <2>19 DEF Restart, history
  <2>20. CASE EditGraph
    BY <2>20 DEF EditGraph, history
  <2>21. ASSUME NEW g \in Gens, ReceiveResult(g) PROVE UNCHANGED versions
    BY <2>21 DEF ReceiveResult, history
  <2>22. ASSUME NEW g \in Gens, ReceiveRaises(g) PROVE UNCHANGED versions
    BY <2>22 DEF ReceiveRaises, history
  <2>23. ASSUME NEW g \in Gens, ApplyResult(g) PROVE UNCHANGED versions
    BY <2>23, ResultApplied DEF ApplyResult, history
  <2>24. ASSUME NEW g \in Gens, ApplyLimited(g) PROVE UNCHANGED versions
    BY <2>24 DEF ApplyLimited, history
  <2>25. ASSUME NEW g \in Gens, CloseReader(g) PROVE UNCHANGED versions
    BY <2>25 DEF CloseReader, history
  <2>26. ASSUME NEW g \in Gens, ServeHello(g) PROVE UNCHANGED versions
    BY <2>26 DEF ServeHello, history
  <2>27. ASSUME NEW g \in Gens, ServeTxn(g) PROVE UNCHANGED versions
    BY <2>27 DEF ServeTxn, history
  <2>28. ASSUME NEW g \in Gens, ResolveResult(g) PROVE UNCHANGED versions
    BY <2>28 DEF ResolveResult, history
  <2>29. ASSUME NEW g \in Gens, SendResults(g) PROVE UNCHANGED versions
    BY <2>29 DEF SendResults, history
  <2> QED
    BY <1>0, <2>1, <2>2, <2>3, <2>4, <2>5, <2>6, <2>7, <2>8, <2>9, <2>10,
       <2>11, <2>12, <2>13, <2>14, <2>15, <2>16, <2>17, <2>18, <2>19, <2>20,
       <2>21, <2>22, <2>23, <2>24, <2>25, <2>26, <2>27, <2>28, <2>29,
       StepCases
<1> QED
  BY <1>1, <1>2, <1>3, <1>4

\* Acknowledged, committed and submitted ids stay in this order.
LEMMA HistoryIsExactKept ==
    ASSUME LinkInv, Next
    PROVE  HistoryIsExact'
<1>0. /\ TypeOK /\ NativeTypes /\ SenderTypes /\ HistoryIsExact
      /\ versions \in [Sessions -> Seq(Seq(Payloads))]
      /\ committed \in [Sessions -> Nat] /\ acked \in [Sessions -> Nat]
  BY TypeParts DEF LinkInv, ServerTypes
<1>1. CASE BeginConnection
  <2>1. UNCHANGED <<session, versions, lastAcked, acked, committed>>
    BY <1>1 DEF BeginConnection, native, outbox, sender, identity, history,
       server
  <2> QED
    BY <2>1, <1>0 DEF HistoryIsExact
<1>2. CASE AttemptFails
  <2>1. UNCHANGED <<session, versions, lastAcked, acked, committed>>
    BY <1>2 DEF AttemptFails, native, outbox, sender, identity, history, server
  <2> QED
    BY <2>1, <1>0 DEF HistoryIsExact
<1>3. CASE AcceptHello
  <2>0. UNCHANGED <<session, versions, committed>>
    BY <1>3, HelloAccepted DEF identity, server
  <2>1. \E id \in Nat : /\ HighwaterValid(id) /\ id <= committed[session]
                        /\ AcknowledgeOutbox(id)
    BY <1>3, HelloAccepted
  <2>2. ASSUME NEW id \in Nat, HighwaterValid(id), id <= committed[session],
               AcknowledgeOutbox(id)
        PROVE  HistoryIsExact'
    <3>1. acked' = [acked EXCEPT ![session] = id] /\ lastAcked' = id
      <4>1. id >= lastAcked /\ lastAcked \in Nat
        BY <2>2, <1>0 DEF HighwaterValid, NativeTypes
      <4>2. Greater(lastAcked, id) = id
        BY <4>1 DEF Greater
      <4> QED
        BY <2>2, <4>2 DEF AcknowledgeOutbox
    <3> QED
      BY <2>0, <2>2, <3>1, <1>0 DEF HistoryIsExact, SenderTypes
  <2> QED
    BY <2>1, <2>2
<1>4. CASE Publish
  <2>1. UNCHANGED <<session, versions, lastAcked, acked, committed>>
    BY <1>4 DEF Publish, native, outbox, sender, identity, history, server
  <2> QED
    BY <2>1, <1>0 DEF HistoryIsExact
<1>5. CASE ReplayNext
  <2>1. UNCHANGED <<session, versions, lastAcked, acked, committed>>
    BY <1>5 DEF ReplayNext, native, outbox, sender, identity, history, server
  <2> QED
    BY <2>1, <1>0 DEF HistoryIsExact
<1>6. CASE ReplayDone
  <2>1. UNCHANGED <<session, versions, lastAcked, acked, committed>>
    BY <1>6 DEF ReplayDone, native, outbox, sender, identity, history, server
  <2> QED
    BY <2>1, <1>0 DEF HistoryIsExact
<1>7. CASE ReplayFails
  <2>1. UNCHANGED <<session, versions, lastAcked, acked, committed>>
    BY <1>7 DEF ReplayFails, native, outbox, sender, identity, history, server
  <2> QED
    BY <2>1, <1>0 DEF HistoryIsExact
<1>8. CASE FinishSend
  <2>1. UNCHANGED <<session, versions, lastAcked, acked, committed>>
    BY <1>8 DEF FinishSend, native, outbox, sender, identity, history, server
  <2> QED
    BY <2>1, <1>0 DEF HistoryIsExact
<1>9. CASE SendRaises
  <2>1. UNCHANGED <<session, versions, lastAcked, acked, committed>>
    BY <1>9 DEF SendRaises, native, outbox, sender, identity, history, server
  <2> QED
    BY <2>1, <1>0 DEF HistoryIsExact
<1>10. CASE WriterClaim
  <2>1. UNCHANGED <<session, versions, lastAcked, acked, committed>>
    BY <1>10 DEF WriterClaim, native, outbox, sender, identity, history, server
  <2> QED
    BY <2>1, <1>0 DEF HistoryIsExact
<1>11. CASE WriterSend
  <2>1. UNCHANGED <<session, versions, lastAcked, acked, committed>>
    BY <1>11 DEF WriterSend, native, outbox, sender, identity, history, server
  <2> QED
    BY <2>1, <1>0 DEF HistoryIsExact
<1>12. CASE WriterRaises
  <2>1. UNCHANGED <<session, versions, lastAcked, acked, committed>>
    BY <1>12 DEF WriterRaises, native, outbox, sender, identity, history,
       server
  <2> QED
    BY <2>1, <1>0 DEF HistoryIsExact
<1>13. ASSUME NEW p \in Payloads, SendEvents(p) PROVE HistoryIsExact'
  <2>1. UNCHANGED <<session, acked, lastAcked, committed>>
    BY <1>13, SubmittedEffect
  <2>2. \A s \in Sessions :
          /\ Extends(versions[s], versions'[s])
          /\ s # session => versions'[s] = versions[s]
          /\ \A id \in DOMAIN versions'[s] : versions'[s][id] # <<>>
    BY VersionsGrow
  <2>3. versions' \in [Sessions -> Seq(Seq(Payloads))]
    BY TypesKept DEF TypeOK
  <2>4. \A s \in Sessions : Len(versions'[s]) >= Len(versions[s])
        /\ Len(versions'[s]) \in Nat /\ Len(versions[s]) \in Nat
    BY <2>2, <2>3, <1>0, LenProperties DEF Extends
  <2>5. \A s \in Sessions : acked'[s] <= committed'[s]
                            /\ committed'[s] <= Len(versions'[s])
    BY <2>1, <2>4, <1>0 DEF HistoryIsExact
  <2>6. \A s \in Sessions : s > session' => versions'[s] = <<>>
    BY <2>1, <2>2, <1>0 DEF HistoryIsExact, SenderTypes, Sessions
  <2>7. acked'[session'] = lastAcked'
    BY <2>1, <1>0 DEF HistoryIsExact
  <2> QED
    BY <2>2, <2>5, <2>6, <2>7 DEF HistoryIsExact
<1>14. ASSUME NEW p \in Payloads, RepairRejectedTransaction(p)
       PROVE  HistoryIsExact'
  <2>1. UNCHANGED <<session, acked, lastAcked, committed>>
    BY <1>14, RepairedEffect
  <2>2. \A s \in Sessions :
          /\ Extends(versions[s], versions'[s])
          /\ s # session => versions'[s] = versions[s]
          /\ \A id \in DOMAIN versions'[s] : versions'[s][id] # <<>>
    BY VersionsGrow
  <2>3. versions' \in [Sessions -> Seq(Seq(Payloads))]
    BY TypesKept DEF TypeOK
  <2>4. \A s \in Sessions : Len(versions'[s]) >= Len(versions[s])
        /\ Len(versions'[s]) \in Nat /\ Len(versions[s]) \in Nat
    BY <2>2, <2>3, <1>0, LenProperties DEF Extends
  <2>5. \A s \in Sessions : acked'[s] <= committed'[s]
                            /\ committed'[s] <= Len(versions'[s])
    BY <2>1, <2>4, <1>0 DEF HistoryIsExact
  <2>6. \A s \in Sessions : s > session' => versions'[s] = <<>>
    BY <2>1, <2>2, <1>0 DEF HistoryIsExact, SenderTypes, Sessions
  <2>7. acked'[session'] = lastAcked'
    BY <2>1, <1>0 DEF HistoryIsExact
  <2> QED
    BY <2>2, <2>5, <2>6, <2>7 DEF HistoryIsExact
<1>15. CASE AbandonRejectedSession
  <2>1. /\ session' = session + 1 /\ lastAcked' = 0
        /\ UNCHANGED <<versions, acked, committed>>
        /\ session < scenario.sessions
    BY <1>15 DEF AbandonRejectedSession, NewSession, ResetSession, history,
       server
  <2>2. session + 1 \in Sessions /\ session + 1 > session
        /\ \A s \in Sessions : s > session + 1 => s > session
    BY <2>1, <1>0, BoundsHold DEF SenderTypes, Sessions
  <2>3. acked[session + 1] = 0
    <3>1. versions[session + 1] = <<>> /\ acked[session + 1] <= committed[session + 1]
          /\ committed[session + 1] <= Len(versions[session + 1])
      BY <2>2, <1>0 DEF HistoryIsExact
    <3>2. Len(<<>>) = 0
      OBVIOUS
    <3>3. acked[session + 1] \in Nat /\ committed[session + 1] \in Nat
      BY <2>2, <1>0
    <3>4. committed[session + 1] <= 0
      BY <3>1, <3>2
    <3> QED
      BY <3>1, <3>3, <3>4
  <2> QED
    BY <2>1, <2>2, <2>3, <1>0 DEF HistoryIsExact
<1>16. CASE CancelConnect
  <2>1. UNCHANGED <<session, versions, lastAcked, acked, committed>>
    BY <1>16 DEF CancelConnect, native, outbox, sender, identity, history,
       server
  <2> QED
    BY <2>1, <1>0 DEF HistoryIsExact
<1>17. CASE Disconnect
  <2>1. UNCHANGED <<session, versions, lastAcked, acked, committed>>
    BY <1>17 DEF Disconnect, native, outbox, sender, identity, history, server
  <2> QED
    BY <2>1, <1>0 DEF HistoryIsExact
<1>18. ASSUME NEW g \in Gens, ServeError(g) PROVE HistoryIsExact'
  <2>1. UNCHANGED <<session, versions, lastAcked, acked, committed>>
    BY <1>18 DEF ServeError, native, outbox, sender, identity, history, server
  <2> QED
    BY <2>1, <1>0 DEF HistoryIsExact
<1>19. ASSUME NEW g \in Gens, ServeLimited(g) PROVE HistoryIsExact'
  <2>1. UNCHANGED <<session, versions, lastAcked, acked, committed>>
    BY <1>19 DEF ServeLimited, native, outbox, sender, identity, history,
       server
  <2> QED
    BY <2>1, <1>0 DEF HistoryIsExact
<1>20. ASSUME NEW g \in Gens, Break(g) PROVE HistoryIsExact'
  <2>1. UNCHANGED <<session, versions, lastAcked, acked, committed>>
    BY <1>20 DEF Break, native, outbox, sender, identity, history, server
  <2> QED
    BY <2>1, <1>0 DEF HistoryIsExact
<1>21. CASE Restart
  <2>1. UNCHANGED <<session, versions, lastAcked, acked, committed>>
    BY <1>21 DEF Restart, native, outbox, sender, identity, history, server
  <2> QED
    BY <2>1, <1>0 DEF HistoryIsExact
<1>22. CASE EditGraph
  <2>1. UNCHANGED <<session, versions, lastAcked, acked, committed>>
    BY <1>22 DEF EditGraph, native, outbox, sender, identity, history, server
  <2> QED
    BY <2>1, <1>0 DEF HistoryIsExact
<1>23. ASSUME NEW g \in Gens, ReceiveResult(g) PROVE HistoryIsExact'
  <2>1. UNCHANGED <<session, versions, lastAcked, acked, committed>>
    BY <1>23 DEF ReceiveResult, native, outbox, sender, identity, history,
       server
  <2> QED
    BY <2>1, <1>0 DEF HistoryIsExact
<1>24. ASSUME NEW g \in Gens, ReceiveRaises(g) PROVE HistoryIsExact'
  <2>1. UNCHANGED <<session, versions, lastAcked, acked, committed>>
    BY <1>24 DEF ReceiveRaises, native, outbox, sender, identity, history,
       server
  <2> QED
    BY <2>1, <1>0 DEF HistoryIsExact
<1>25. ASSUME NEW g \in Gens, ApplyResult(g) PROVE HistoryIsExact'
  <2>0. UNCHANGED <<session, versions, committed>>
    BY <1>25, ResultApplied DEF identity, server
  <2>1. CASE UNCHANGED <<lastAcked, acked>>
    BY <2>0, <2>1, <1>0 DEF HistoryIsExact
  <2>2. ASSUME NEW id \in Nat, HighwaterValid(id), id <= committed[session],
               AcknowledgeOutbox(id)
        PROVE  HistoryIsExact'
    <3>1. acked' = [acked EXCEPT ![session] = id] /\ lastAcked' = id
      <4>1. id >= lastAcked /\ lastAcked \in Nat
        BY <2>2, <1>0 DEF HighwaterValid, NativeTypes
      <4>2. Greater(lastAcked, id) = id
        BY <4>1 DEF Greater
      <4> QED
        BY <2>2, <4>2 DEF AcknowledgeOutbox
    <3> QED
      BY <2>0, <2>2, <3>1, <1>0 DEF HistoryIsExact, SenderTypes
  <2>3. \/ UNCHANGED <<lastAcked, acked>>
        \/ /\ hand[g] \in Replies /\ HighwaterValid(hand[g].id)
           /\ hand[g].id <= committed[session]
           /\ AcknowledgeOutbox(hand[g].id)
    BY <1>25, ResultApplied DEF outbox
  <2>4. hand[g] \in Replies => hand[g].id \in Nat
    BY DEF Replies
  <2> QED
    BY <2>1, <2>2, <2>3, <2>4
<1>26. ASSUME NEW g \in Gens, ApplyLimited(g) PROVE HistoryIsExact'
  <2>1. UNCHANGED <<session, versions, lastAcked, acked, committed>>
    BY <1>26 DEF ApplyLimited, native, outbox, sender, identity, history,
       server
  <2> QED
    BY <2>1, <1>0 DEF HistoryIsExact
<1>27. ASSUME NEW g \in Gens, CloseReader(g) PROVE HistoryIsExact'
  <2>1. UNCHANGED <<session, versions, lastAcked, acked, committed>>
    BY <1>27 DEF CloseReader, native, outbox, sender, identity, history, server
  <2> QED
    BY <2>1, <1>0 DEF HistoryIsExact
<1>28. ASSUME NEW g \in Gens, ServeHello(g) PROVE HistoryIsExact'
  <2>1. UNCHANGED <<session, versions, lastAcked, acked, committed>>
    BY <1>28 DEF ServeHello, native, outbox, sender, identity, history, server
  <2> QED
    BY <2>1, <1>0 DEF HistoryIsExact
<1>29. ASSUME NEW g \in Gens, ServeTxn(g) PROVE HistoryIsExact'
  <2>1. PICK f \in Frames, s \in Sessions, r \in Replies :
          TxnTaken(g, f, s, r) /\ (Commits(f, s, r) \/ Declines(f, s, r))
    BY <1>29, TxnServed
  <2>2. UNCHANGED <<session, versions, lastAcked, acked>>
    BY <2>1 DEF TxnTaken, native, outbox, sender, identity, history
  <2>3. CASE UNCHANGED committed
    BY <2>2, <2>3, <1>0 DEF HistoryIsExact
  <2>4. CASE committed' = [committed EXCEPT ![s] = f.id] /\ f.id = committed[s] + 1
    <3>1. f.id <= Len(versions[s])
      <4>1. f.id \in DOMAIN versions[s]
        BY <2>1 DEF TxnTaken, Known
      <4>2. DOMAIN versions[s] = 1..Len(versions[s]) /\ Len(versions[s]) \in Nat
        BY <1>0, LenProperties
      <4> QED
        BY <4>1, <4>2
    <3>2. acked[s] <= f.id
      <4>1. acked[s] <= committed[s] /\ acked[s] \in Nat /\ committed[s] \in Nat
        BY <1>0 DEF HistoryIsExact
      <4> QED
        BY <4>1, <2>4
    <3>3. \A c \in Sessions : acked[c] <= committed'[c]
                              /\ committed'[c] <= Len(versions[c])
      BY <2>4, <3>1, <3>2, <1>0 DEF HistoryIsExact
    <3> QED
      BY <2>2, <3>3, <1>0 DEF HistoryIsExact
  <2> QED
    BY <2>1, <2>3, <2>4 DEF Commits, Declines
<1>30. ASSUME NEW g \in Gens, ResolveResult(g) PROVE HistoryIsExact'
  <2>1. UNCHANGED <<session, versions, lastAcked, acked, committed>>
    BY <1>30 DEF ResolveResult, native, outbox, sender, identity, history,
       server
  <2> QED
    BY <2>1, <1>0 DEF HistoryIsExact
<1>31. ASSUME NEW g \in Gens, SendResults(g) PROVE HistoryIsExact'
  <2>1. UNCHANGED <<session, versions, lastAcked, acked, committed>>
    BY <1>31 DEF SendResults, native, outbox, sender, identity, history, server
  <2> QED
    BY <2>1, <1>0 DEF HistoryIsExact
<1> QED
  BY <1>0, <1>1, <1>2, <1>3, <1>4, <1>5, <1>6, <1>7, <1>8, <1>9, <1>10,
     <1>11, <1>12, <1>13, <1>14, <1>15, <1>16, <1>17, <1>18, <1>19, <1>20,
     <1>21, <1>22, <1>23, <1>24, <1>25, <1>26, <1>27, <1>28, <1>29, <1>30,
     <1>31, StepCases


-----------------------------------------------------------------------------
(* The log.                                                                *)

\* Only a served transaction changes the log.
LEMMA LogSteps ==
    ASSUME LinkInv, Next
    PROVE  UNCHANGED <<log, committed>> \/ \E g \in Gens : ServeTxn(g)
<1>0. TypeOK
  BY DEF LinkInv
<1>1. CASE BeginConnection
  BY <1>1 DEF BeginConnection, server
<1>2. CASE AttemptFails
  BY <1>2 DEF AttemptFails, server
<1>3. CASE AcceptHello
  BY <1>3, HelloAccepted DEF AcceptHello, server
<1>4. CASE Publish
  BY <1>4 DEF Publish, server
<1>5. CASE ReplayNext
  BY <1>5 DEF ReplayNext, server
<1>6. CASE ReplayDone
  BY <1>6 DEF ReplayDone, server
<1>7. CASE ReplayFails
  BY <1>7 DEF ReplayFails, server
<1>8. CASE FinishSend
  BY <1>8 DEF FinishSend, server
<1>9. CASE SendRaises
  BY <1>9 DEF SendRaises, server
<1>10. CASE WriterClaim
  BY <1>10 DEF WriterClaim, server
<1>11. CASE WriterSend
  BY <1>11 DEF WriterSend, server
<1>12. CASE WriterRaises
  BY <1>12 DEF WriterRaises, server
<1>13. ASSUME NEW p \in Payloads, SendEvents(p)
      PROVE  UNCHANGED <<log, committed>>
  BY <1>13 DEF SendEvents, server
<1>14. ASSUME NEW p \in Payloads, RepairRejectedTransaction(p)
      PROVE  UNCHANGED <<log, committed>>
  BY <1>14 DEF RepairRejectedTransaction, server
<1>15. CASE AbandonRejectedSession
  BY <1>15 DEF AbandonRejectedSession, server
<1>16. CASE CancelConnect
  BY <1>16 DEF CancelConnect, server
<1>17. CASE Disconnect
  BY <1>17 DEF Disconnect, server
<1>18. ASSUME NEW g \in Gens, ServeError(g)
      PROVE  UNCHANGED <<log, committed>>
  BY <1>18 DEF ServeError, server
<1>19. ASSUME NEW g \in Gens, ServeLimited(g)
      PROVE  UNCHANGED <<log, committed>>
  BY <1>19 DEF ServeLimited, server
<1>20. ASSUME NEW g \in Gens, Break(g)
      PROVE  UNCHANGED <<log, committed>>
  BY <1>20 DEF Break, server
<1>21. CASE Restart
  BY <1>21 DEF Restart, server
<1>22. CASE EditGraph
  BY <1>22 DEF EditGraph, server
<1>23. ASSUME NEW g \in Gens, ReceiveResult(g)
      PROVE  UNCHANGED <<log, committed>>
  BY <1>23 DEF ReceiveResult, server
<1>24. ASSUME NEW g \in Gens, ReceiveRaises(g)
      PROVE  UNCHANGED <<log, committed>>
  BY <1>24 DEF ReceiveRaises, server
<1>25. ASSUME NEW g \in Gens, ApplyResult(g)
      PROVE  UNCHANGED <<log, committed>>
  BY <1>25, ResultApplied DEF ApplyResult, server
<1>26. ASSUME NEW g \in Gens, ApplyLimited(g)
      PROVE  UNCHANGED <<log, committed>>
  BY <1>26 DEF ApplyLimited, server
<1>27. ASSUME NEW g \in Gens, CloseReader(g)
      PROVE  UNCHANGED <<log, committed>>
  BY <1>27 DEF CloseReader, server
<1>28. ASSUME NEW g \in Gens, ServeHello(g)
      PROVE  UNCHANGED <<log, committed>>
  BY <1>28 DEF ServeHello, server
<1>29. ASSUME NEW g \in Gens, ResolveResult(g)
      PROVE  UNCHANGED <<log, committed>>
  BY <1>29 DEF ResolveResult, server
<1>30. ASSUME NEW g \in Gens, SendResults(g)
      PROVE  UNCHANGED <<log, committed>>
  BY <1>30 DEF SendResults, server
<1> QED
  BY <1>0, <1>1, <1>2, <1>3, <1>4, <1>5, <1>6, <1>7, <1>8, <1>9, <1>10,
       <1>11, <1>12, <1>13, <1>14, <1>15, <1>16, <1>17, <1>18, <1>19, <1>20,
       <1>21, <1>22, <1>23, <1>24, <1>25, <1>26, <1>27, <1>28, <1>29, <1>30,
       StepCases

\* The log only grows.
LEMMA LogGrows ==
    ASSUME LinkInv, Next
    PROVE  \A i \in DOMAIN log : i \in DOMAIN log' /\ log'[i] = log[i]
<1>1. log \in Seq([s : Sessions, id : Nat, p : Payloads])
  BY DEF LinkInv, TypeOK
<1>2. CASE UNCHANGED <<log, committed>>
  BY <1>2
<1>3. ASSUME NEW g \in Gens, ServeTxn(g)
      PROVE  \A i \in DOMAIN log : i \in DOMAIN log' /\ log'[i] = log[i]
  <2>1. PICK f \in Frames, s \in Sessions, r \in Replies :
          TxnTaken(g, f, s, r) /\ (Commits(f, s, r) \/ Declines(f, s, r))
    BY <1>3, TxnServed
  <2>2. CASE log' = log
    BY <2>2
  <2>3. CASE log' = Append(log, [s |-> s, id |-> f.id, p |-> f.p])
    <3>1. PICK x : log' = Append(log, x)
      BY <2>3
    <3> QED
      BY <3>1, <1>1
  <2> QED
    BY <2>1, <2>2, <2>3 DEF Commits, Declines
<1> QED
  BY <1>2, <1>3, LogSteps

\* A session's transactions are in the log once, in order and without gaps.
LEMMA LogIsOrderedKept ==
    ASSUME LinkInv, Next
    PROVE  LogIsOrdered'
<1>0. /\ log \in Seq([s : Sessions, id : Nat, p : Payloads])
      /\ committed \in [Sessions -> Nat] /\ LogIsOrdered
  BY DEF LinkInv, TypeOK
<1>1. CASE UNCHANGED <<log, committed>>
  BY <1>0, <1>1 DEF LogIsOrdered
<1>2. ASSUME NEW g \in Gens, ServeTxn(g) PROVE LogIsOrdered'
  <2>1. PICK f \in Frames, s \in Sessions, r \in Replies :
          TxnTaken(g, f, s, r) /\ (Commits(f, s, r) \/ Declines(f, s, r))
    BY <1>2, TxnServed
  <2>2. CASE Declines(f, s, r)
    BY <2>2, <1>1 DEF Declines
  <2>3. CASE Commits(f, s, r)
    <3>1. PICK x, n : /\ x = [s |-> s, id |-> f.id, p |-> f.p]
                      /\ n = committed[s] + 1 /\ x.s = s /\ x.id = n
                      /\ log' = Append(log, x)
                      /\ committed' = [committed EXCEPT ![s] = n]
      BY <2>3 DEF Commits
    <3>2. committed[s] \in Nat /\ n \in Nat /\ n >= 1 /\ n > committed[s]
      BY <3>1, <1>0
    <3>3. PICK m : /\ m = Len(log) + 1 /\ m \in Nat /\ DOMAIN log = 1..(m - 1)
                   /\ DOMAIN log' = 1..m /\ log'[m] = x
                   /\ \A i \in DOMAIN log : log'[i] = log[i]
      BY <3>1, <1>0
    <3>4. \A i \in DOMAIN log' : i = m \/ i \in DOMAIN log
      BY <3>3
    <3>5. \A i \in DOMAIN log : log[i].s \in Sessions /\ log[i].id \in Nat
      <4>1. \A i \in DOMAIN log : log[i] \in [s : Sessions, id : Nat, p : Payloads]
        <5>1. PICK R : R = [s : Sessions, id : Nat, p : Payloads]
          OBVIOUS
        <5>2. log \in Seq(R)
          BY <1>0, <5>1
        <5>3. \A i \in DOMAIN log : log[i] \in R
          BY <5>2
        <5> QED
          BY <5>1, <5>3
      <4> QED
        BY <4>1
    <3>6. \A c \in Sessions : committed'[c] \in Nat /\ committed'[c] >= committed[c]
      BY <3>1, <3>2, <1>0
    <3>7. ASSUME NEW i \in DOMAIN log'
          PROVE  log'[i].id >= 1 /\ log'[i].id <= committed'[log'[i].s]
      <4>1. CASE i = m
        BY <4>1, <3>1, <3>2, <3>3, <1>0
      <4>2. CASE i \in DOMAIN log
        <5>1. log[i].id >= 1 /\ log[i].id <= committed[log[i].s] /\ log'[i] = log[i]
          BY <4>2, <3>3, <1>0 DEF LogIsOrdered
        <5>2. committed[log[i].s] <= committed'[log[i].s]
              /\ committed[log[i].s] \in Nat /\ committed'[log[i].s] \in Nat
          BY <4>2, <3>5, <3>6, <1>0
        <5> QED
          BY <4>2, <5>1, <5>2, <3>5
      <4> QED
        BY <4>1, <4>2, <3>4
    <3>8. ASSUME NEW i \in DOMAIN log', NEW j \in DOMAIN log', i < j,
                 log'[i].s = log'[j].s
          PROVE  log'[i].id < log'[j].id
      <4>1. CASE j = m
        <5>1. i \in DOMAIN log /\ log'[i] = log[i] /\ log'[j] = x
          BY <3>3, <3>4, <3>8, <4>1
        <5>2. log[i].s = s /\ log[i].id <= committed[s] /\ log[i].id \in Nat
          BY <5>1, <3>1, <3>5, <3>8, <1>0 DEF LogIsOrdered
        <5> QED
          BY <5>1, <5>2, <3>1, <3>2
      <4>2. CASE j \in DOMAIN log
        <5>1. i \in DOMAIN log /\ log'[i] = log[i] /\ log'[j] = log[j]
          BY <3>3, <3>4, <3>8, <4>2
        <5> QED
          BY <5>1, <4>2, <3>8, <1>0 DEF LogIsOrdered
      <4> QED
        BY <4>1, <4>2, <3>4
    <3>9. ASSUME NEW c \in Sessions, NEW id \in 1..committed'[c]
          PROVE  \E i \in DOMAIN log' : log'[i].s = c /\ log'[i].id = id
      <4>1. CASE c = s /\ id = n
        BY <4>1, <3>1, <3>3
      <4>2. CASE ~(c = s /\ id = n)
        <5>1. id \in 1..committed[c]
          <6>1. id \in Nat /\ id >= 1 /\ id <= committed'[c]
            BY <3>6
          <6>2. c = s => committed'[c] = n /\ n = committed[c] + 1
            BY <3>1, <1>0
          <6>3. c # s => committed'[c] = committed[c]
            BY <3>1, <1>0
          <6>4. committed[c] \in Nat
            BY <1>0
          <6> QED
            BY <6>1, <6>2, <6>3, <6>4, <4>2
        <5>2. PICK i \in DOMAIN log : log[i].s = c /\ log[i].id = id
          BY <5>1, <1>0 DEF LogIsOrdered
        <5>3. i \in DOMAIN log' /\ log'[i] = log[i]
          BY <3>3
        <5> QED
          BY <5>2, <5>3
      <4> QED
        BY <4>1, <4>2
    <3> QED
      BY <3>7, <3>8, <3>9 DEF LogIsOrdered
  <2> QED
    BY <2>1, <2>2, <2>3
<1> QED
  BY <1>1, <1>2, LogSteps

\* The reply the reader of the published connection holds is backed.
LEMMA HeldIsBacked ==
    ASSUME LinkInv, NEW g \in Gens, rpc[g] = "holding", sock = g
    PROVE  Backed(hand[g])
<1>1. TypeOK /\ HandsFull /\ AnswersInOrder
  BY DEF LinkInv
<1>2. 0 \notin Gens
  BY BoundsHold DEF Gens
<1>3. Listening
  BY <1>2 DEF Listening
<1>4. Stream(g) # <<>> /\ Stream(g)[1] = hand[g] /\ Stream(g) \in Seq(Replies)
  BY <1>1, HeldIsFirst, StreamType
<1>5. 1 \in DOMAIN Stream(g)
  BY <1>4
<1> QED
  BY <1>1, <1>3, <1>4, <1>5 DEF AnswersInOrder

\* The checkpoint is where the last acknowledged transaction is.
LEMMA CheckpointIsLastKept ==
    ASSUME LinkInv, Next
    PROVE  CheckpointIsLast'
<1>0. TypeOK /\ OutboxIsExact /\ CheckpointIsLast
  BY DEF LinkInv
<1>1. CASE BeginConnection
  <2>1. UNCHANGED <<checkpoint, lastAcked, session, log>>
    BY <1>1 DEF BeginConnection, native, outbox, sender, identity, server
  <2> QED
    BY <2>1, <1>0 DEF CheckpointIsLast
<1>2. CASE AttemptFails
  <2>1. UNCHANGED <<checkpoint, lastAcked, session, log>>
    BY <1>2 DEF AttemptFails, native, outbox, sender, identity, server
  <2> QED
    BY <2>1, <1>0 DEF CheckpointIsLast
<1>3. CASE AcceptHello
  <2>1. checkpoint' = 0
    BY <1>3, HelloAccepted
  <2> QED
    BY <2>1 DEF CheckpointIsLast
<1>4. CASE Publish
  <2>1. UNCHANGED <<checkpoint, lastAcked, session, log>>
    BY <1>4 DEF Publish, native, outbox, sender, identity, server
  <2> QED
    BY <2>1, <1>0 DEF CheckpointIsLast
<1>5. CASE ReplayNext
  <2>1. UNCHANGED <<checkpoint, lastAcked, session, log>>
    BY <1>5 DEF ReplayNext, native, outbox, sender, identity, server
  <2> QED
    BY <2>1, <1>0 DEF CheckpointIsLast
<1>6. CASE ReplayDone
  <2>1. UNCHANGED <<checkpoint, lastAcked, session, log>>
    BY <1>6 DEF ReplayDone, native, outbox, sender, identity, server
  <2> QED
    BY <2>1, <1>0 DEF CheckpointIsLast
<1>7. CASE ReplayFails
  <2>1. UNCHANGED <<checkpoint, lastAcked, session, log>>
    BY <1>7 DEF ReplayFails, native, outbox, sender, identity, server
  <2> QED
    BY <2>1, <1>0 DEF CheckpointIsLast
<1>8. CASE FinishSend
  <2>1. UNCHANGED <<checkpoint, lastAcked, session, log>>
    BY <1>8 DEF FinishSend, native, outbox, sender, identity, server
  <2> QED
    BY <2>1, <1>0 DEF CheckpointIsLast
<1>9. CASE SendRaises
  <2>1. UNCHANGED <<checkpoint, lastAcked, session, log>>
    BY <1>9 DEF SendRaises, native, outbox, sender, identity, server
  <2> QED
    BY <2>1, <1>0 DEF CheckpointIsLast
<1>10. CASE WriterClaim
  <2>1. UNCHANGED <<checkpoint, lastAcked, session, log>>
    BY <1>10 DEF WriterClaim, native, outbox, sender, identity, server
  <2> QED
    BY <2>1, <1>0 DEF CheckpointIsLast
<1>11. CASE WriterSend
  <2>1. UNCHANGED <<checkpoint, lastAcked, session, log>>
    BY <1>11 DEF WriterSend, native, outbox, sender, identity, server
  <2> QED
    BY <2>1, <1>0 DEF CheckpointIsLast
<1>12. CASE WriterRaises
  <2>1. UNCHANGED <<checkpoint, lastAcked, session, log>>
    BY <1>12 DEF WriterRaises, native, outbox, sender, identity, server
  <2> QED
    BY <2>1, <1>0 DEF CheckpointIsLast
<1>13. ASSUME NEW p \in Payloads, SendEvents(p) PROVE CheckpointIsLast'
  <2>1. UNCHANGED <<checkpoint, lastAcked, session, log>>
    BY <1>13 DEF SendEvents, native, outbox, sender, identity, server,
       AppendNext
  <2> QED
    BY <2>1, <1>0 DEF CheckpointIsLast
<1>14. ASSUME NEW p \in Payloads, RepairRejectedTransaction(p)
       PROVE  CheckpointIsLast'
  <2>1. UNCHANGED <<checkpoint, lastAcked, session, log>>
    BY <1>14 DEF RepairRejectedTransaction, native, outbox, sender, identity,
       server, RepairRejected
  <2> QED
    BY <2>1, <1>0 DEF CheckpointIsLast
<1>15. CASE AbandonRejectedSession
  <2>1. lastAcked' = 0
    BY <1>15 DEF AbandonRejectedSession, ResetSession
  <2> QED
    BY <2>1 DEF CheckpointIsLast
<1>16. CASE CancelConnect
  <2>1. UNCHANGED <<checkpoint, lastAcked, session, log>>
    BY <1>16 DEF CancelConnect, native, outbox, sender, identity, server
  <2> QED
    BY <2>1, <1>0 DEF CheckpointIsLast
<1>17. CASE Disconnect
  <2>1. UNCHANGED <<checkpoint, lastAcked, session, log>>
    BY <1>17 DEF Disconnect, native, outbox, sender, identity, server
  <2> QED
    BY <2>1, <1>0 DEF CheckpointIsLast
<1>18. ASSUME NEW g \in Gens, ServeError(g) PROVE CheckpointIsLast'
  <2>1. UNCHANGED <<checkpoint, lastAcked, session, log>>
    BY <1>18 DEF ServeError, native, outbox, sender, identity, server
  <2> QED
    BY <2>1, <1>0 DEF CheckpointIsLast
<1>19. ASSUME NEW g \in Gens, ServeLimited(g) PROVE CheckpointIsLast'
  <2>1. UNCHANGED <<checkpoint, lastAcked, session, log>>
    BY <1>19 DEF ServeLimited, native, outbox, sender, identity, server
  <2> QED
    BY <2>1, <1>0 DEF CheckpointIsLast
<1>20. ASSUME NEW g \in Gens, Break(g) PROVE CheckpointIsLast'
  <2>1. UNCHANGED <<checkpoint, lastAcked, session, log>>
    BY <1>20 DEF Break, native, outbox, sender, identity, server
  <2> QED
    BY <2>1, <1>0 DEF CheckpointIsLast
<1>21. CASE Restart
  <2>1. UNCHANGED <<checkpoint, lastAcked, session, log>>
    BY <1>21 DEF Restart, native, outbox, sender, identity, server
  <2> QED
    BY <2>1, <1>0 DEF CheckpointIsLast
<1>22. CASE EditGraph
  <2>1. UNCHANGED <<checkpoint, lastAcked, session, log>>
    BY <1>22 DEF EditGraph, native, outbox, sender, identity, server
  <2> QED
    BY <2>1, <1>0 DEF CheckpointIsLast
<1>23. ASSUME NEW g \in Gens, ReceiveResult(g) PROVE CheckpointIsLast'
  <2>1. UNCHANGED <<checkpoint, lastAcked, session, log>>
    BY <1>23 DEF ReceiveResult, native, outbox, sender, identity, server
  <2> QED
    BY <2>1, <1>0 DEF CheckpointIsLast
<1>24. ASSUME NEW g \in Gens, ReceiveRaises(g) PROVE CheckpointIsLast'
  <2>1. UNCHANGED <<checkpoint, lastAcked, session, log>>
    BY <1>24 DEF ReceiveRaises, native, outbox, sender, identity, server
  <2> QED
    BY <2>1, <1>0 DEF CheckpointIsLast
<1>25. ASSUME NEW g \in Gens, ApplyResult(g) PROVE CheckpointIsLast'
  <2>0. UNCHANGED <<session, log>>
    BY <1>25, ResultApplied DEF identity, server
  <2>1. CASE UNCHANGED <<checkpoint, lastAcked>>
    BY <2>0, <2>1, <1>0 DEF CheckpointIsLast
  <2>2. CASE /\ sock = g /\ hand[g] \in Replies /\ hand[g].kind = "ack"
             /\ HighwaterValid(hand[g].id) /\ AcknowledgeOutbox(hand[g].id)
             /\ checkpoint' = hand[g].head
    <3>1. PICK r \in Replies : r = hand[g]
      BY <2>2
    <3>2. r.id \in Nat /\ r.head \in Nat
      BY DEF Replies
    <3>3. HighwaterValid(r.id) /\ AcknowledgeOutbox(r.id)
      BY <2>2, <3>1
    <3>4. lastAcked' = r.id
      BY <3>2, <3>3, <1>0, OutboxAcknowledged
    <3>5. Backed(r)
      BY <1>25, <2>2, <3>1, ResultApplied, HeldIsBacked
    <3>6. checkpoint' = r.head /\ r.kind = "ack"
      BY <2>2, <3>1
    <3>7. r.head # 0 => /\ r.head \in DOMAIN log
                        /\ log[r.head].s = session /\ log[r.head].id = r.id
      BY <3>2, <3>5, <3>6 DEF Backed
    <3> QED
      BY <2>0, <3>4, <3>6, <3>7 DEF CheckpointIsLast
  <2> QED
    BY <1>25, <2>1, <2>2, ResultApplied DEF outbox
<1>26. ASSUME NEW g \in Gens, ApplyLimited(g) PROVE CheckpointIsLast'
  <2>1. UNCHANGED <<checkpoint, lastAcked, session, log>>
    BY <1>26 DEF ApplyLimited, native, outbox, sender, identity, server
  <2> QED
    BY <2>1, <1>0 DEF CheckpointIsLast
<1>27. ASSUME NEW g \in Gens, CloseReader(g) PROVE CheckpointIsLast'
  <2>1. UNCHANGED <<checkpoint, lastAcked, session, log>>
    BY <1>27 DEF CloseReader, native, outbox, sender, identity, server
  <2> QED
    BY <2>1, <1>0 DEF CheckpointIsLast
<1>28. ASSUME NEW g \in Gens, ServeHello(g) PROVE CheckpointIsLast'
  <2>1. UNCHANGED <<checkpoint, lastAcked, session, log>>
    BY <1>28 DEF ServeHello, native, outbox, sender, identity, server
  <2> QED
    BY <2>1, <1>0 DEF CheckpointIsLast
<1>29. ASSUME NEW g \in Gens, ServeTxn(g) PROVE CheckpointIsLast'
  <2>1. UNCHANGED <<checkpoint, lastAcked, session>>
    BY <1>29 DEF ServeTxn, native, outbox, sender, identity
  <2>2. \A i \in DOMAIN log : i \in DOMAIN log' /\ log'[i] = log[i]
    BY LogGrows
  <2> QED
    BY <2>1, <2>2, <1>0 DEF CheckpointIsLast
<1>30. ASSUME NEW g \in Gens, ResolveResult(g) PROVE CheckpointIsLast'
  <2>1. UNCHANGED <<checkpoint, lastAcked, session, log>>
    BY <1>30 DEF ResolveResult, native, outbox, sender, identity, server
  <2> QED
    BY <2>1, <1>0 DEF CheckpointIsLast
<1>31. ASSUME NEW g \in Gens, SendResults(g) PROVE CheckpointIsLast'
  <2>1. UNCHANGED <<checkpoint, lastAcked, session, log>>
    BY <1>31 DEF SendResults, native, outbox, sender, identity, server
  <2> QED
    BY <2>1, <1>0 DEF CheckpointIsLast
<1> QED
  BY <1>0, <1>1, <1>2, <1>3, <1>4, <1>5, <1>6, <1>7, <1>8, <1>9, <1>10,
     <1>11, <1>12, <1>13, <1>14, <1>15, <1>16, <1>17, <1>18, <1>19, <1>20,
     <1>21, <1>22, <1>23, <1>24, <1>25, <1>26, <1>27, <1>28, <1>29, <1>30,
     <1>31, StepCases


-----------------------------------------------------------------------------
(* Frames.                                                                 *)

\* Bytes that were submitted stay known.
LEMMA KnownStays ==
    ASSUME LinkInv, Next, NEW s \in Sessions, NEW e, Known(s, e)
    PROVE  Known(s, e)'
<1>1. Extends(versions[s], versions'[s])
  BY VersionsGrow
<1>2. PICK v \in DOMAIN versions[s][e.id] : versions[s][e.id][v] = e.p
  BY DEF Known
<1>3. e.id \in DOMAIN versions[s]
  BY DEF Known
<1>4. /\ e.id \in DOMAIN versions'[s] /\ v \in DOMAIN versions'[s][e.id]
      /\ versions'[s][e.id][v] = e.p
  BY <1>1, <1>2, <1>3 DEF Extends
<1> QED
  BY <1>4 DEF Known

\* The frame of a known transaction is known.
LEMMA TxnKnown ==
    ASSUME NEW s, NEW e, Known(s, e)
    PROVE  Known(s, Txn(e))
BY DEF Known, Txn

\* The bytes in the outbox were submitted.
LEMMA QueueKnown ==
    ASSUME LinkInv, NEW i \in DOMAIN queue
    PROVE  Known(session, queue[i])
<1>0. /\ NativeTypes /\ OutboxIsExact /\ HistoryIsExact /\ session \in Sessions
      /\ versions[session] \in Seq(Seq(Payloads))
  BY TypeParts DEF LinkInv, SenderTypes, ServerTypes
<1>1. /\ Len(versions[session]) = nextId - 1 /\ lastAcked \in Nat /\ nextId \in Nat
      /\ lastAcked < nextId /\ Len(queue) = nextId - 1 - lastAcked
      /\ queue \in Seq(Entries) /\ queue[i].id = lastAcked + i
      /\ queue[i].p = Current(session, lastAcked + i)
  BY <1>0 DEF OutboxIsExact, NativeTypes
<1>2. PICK v, n : v = versions[session] /\ n = lastAcked + i
  OBVIOUS
<1>3. n \in DOMAIN v
  <2>1. DOMAIN v = 1..(nextId - 1)
    BY <1>0, <1>1, <1>2, LenProperties
  <2> QED
    BY <2>1, <1>1, <1>2
<1>4. v[n] # <<>> /\ v[n] \in Seq(Payloads)
  <2>1. v[n] # <<>>
    BY <1>0, <1>2, <1>3 DEF HistoryIsExact
  <2>2. v[n] \in Seq(Payloads)
    BY <1>0, <1>2, <1>3, ElementOfSeq
  <2> QED
    BY <2>1, <2>2
<1>5. Len(v[n]) \in DOMAIN v[n]
  BY <1>4
<1> QED
  BY <1>1, <1>2, <1>3, <1>5 DEF Known, Current

\* The frames of a step are frames of before, a hello or newly submitted.
FramesFrom ==
    \A c \in Gens : \A i \in DOMAIN toServer'[c] :
        \/ /\ owner'[c] = owner[c]
           /\ \E k \in DOMAIN toServer[c] : toServer'[c][i] = toServer[c][k]
        \/ toServer'[c][i].kind = "hello"
        \/ Known(owner[c], toServer'[c][i]) /\ owner'[c] = owner[c]

\* Frames that were there, or whose bytes are known, are known.
LEMMA FramesStayKnown ==
    ASSUME LinkInv, Next, FramesFrom
    PROVE  \A g \in Gens : \A i \in DOMAIN toServer'[g] :
             toServer'[g][i].kind = "txn" => Known(owner[g], toServer[g][i])'
<1> SUFFICES ASSUME NEW g \in Gens, NEW i \in DOMAIN toServer'[g],
                    toServer'[g][i].kind = "txn"
             PROVE  Known(owner[g], toServer[g][i])'
  OBVIOUS
<1>1. PICK s, e : s = owner'[g] /\ e = toServer'[g][i]
  OBVIOUS
<1>2. FramesKnown /\ owner \in [Gens -> Sessions]
  BY DEF LinkInv, TypeOK
<1>3. s \in Sessions
  BY <1>1, TypesKept DEF TypeOK
<1>4. owner[g] = s /\ Known(s, e)
  <2>1. e.kind # "hello" /\ e.kind = "txn"
    BY <1>1
  <2>2. CASE /\ owner'[g] = owner[g]
             /\ \E k \in DOMAIN toServer[g] : e = toServer[g][k]
    BY <2>1, <2>2, <1>1, <1>2 DEF FramesKnown
  <2> QED
    BY <2>1, <2>2, <1>1 DEF FramesFrom
<1>5. Known(s, e)'
  BY <1>3, <1>4, KnownStays
<1> QED
  BY <1>1, <1>5 DEF Known

\* Serving a frame leaves the others.
LEMMA TailFrom ==
    ASSUME TypeOK, NEW g \in Gens, toServer[g] # <<>>, owner' = owner,
           toServer' = [toServer EXCEPT ![g] = Tail(@)]
    PROVE  FramesFrom
<1>1. toServer \in [Gens -> Seq(Frames)]
  BY DEF TypeOK
<1>2. \A i \in DOMAIN Tail(toServer[g]) : \E k \in DOMAIN toServer[g] :
        Tail(toServer[g])[i] = toServer[g][k]
  <2>1. PICK q : q = toServer[g] /\ q \in Seq(Frames) /\ q # <<>>
    BY <1>1
  <2>2. \A i \in DOMAIN Tail(q) : i + 1 \in DOMAIN q /\ Tail(q)[i] = q[i + 1]
    BY <2>1
  <2> QED
    BY <2>1, <2>2
<1> QED
  BY <1>1, <1>2 DEF FramesFrom

\* Sending a known transaction leaves the frames known.
LEMMA AppendFrom ==
    ASSUME TypeOK, owner' = owner, NEW c, NEW e \in Entries,
           \/ toServer' = toServer
           \/ toServer' = [toServer EXCEPT ![c] = Append(@, Txn(e))],
           c \in Gens => Known(owner[c], e)
    PROVE  FramesFrom
<1>1. toServer \in [Gens -> Seq(Frames)]
  BY DEF TypeOK
<1>2. CASE toServer' = toServer
  BY <1>2 DEF FramesFrom
<1>3. CASE toServer' = [toServer EXCEPT ![c] = Append(@, Txn(e))]
  <2>1. ASSUME NEW g \in Gens, g # c PROVE toServer'[g] = toServer[g]
    BY <1>1, <1>3, <2>1
  <2>2. ASSUME c \in Gens, NEW i \in DOMAIN toServer'[c]
        PROVE  \/ \E k \in DOMAIN toServer[c] : toServer'[c][i] = toServer[c][k]
               \/ Known(owner[c], toServer'[c][i])
    <3>1. PICK q, x : q = toServer[c] /\ q \in Seq(Frames) /\ x = Txn(e)
      BY <1>1, <2>2
    <3>2. toServer'[c] = Append(q, x)
      BY <1>1, <1>3, <2>2, <3>1
    <3>3. i \in DOMAIN Append(q, x)
      BY <2>2, <3>2
    <3>4. (i \in DOMAIN q /\ Append(q, x)[i] = q[i]) \/ Append(q, x)[i] = x
      BY <3>1, <3>3
    <3>5. Known(owner[c], x)
      BY <2>2, <3>1, TxnKnown
    <3> QED
      BY <3>1, <3>2, <3>4, <3>5
  <2> QED
    BY <2>1, <2>2 DEF FramesFrom
<1> QED
  BY <1>2, <1>3

\* Claims and sends in progress are carried on or end.
LEMMA KnownAgain ==
    ASSUME LinkInv, Next, FramesFrom,
           claimed' = None \/ (claimed' = claimed /\ session' = session),
           \/ caller' = None
           \/ caller' = caller /\ session' = session /\ owner' = owner
    PROVE  FramesKnown'
<1>0. FramesKnown /\ session \in Sessions
  BY DEF LinkInv, TypeOK
<1>1. claimed' # None => Known(session, claimed)'
  <2>1. SUFFICES ASSUME claimed' # None PROVE Known(session, claimed)'
    OBVIOUS
  <2>2. PICK s, e : s = session /\ e = claimed
    OBVIOUS
  <2>3. Known(s, e)'
    BY <2>1, <2>2, <1>0, KnownStays DEF FramesKnown
  <2> QED
    BY <2>1, <2>2, <2>3 DEF Known
<1>2. caller' # None => Known(session, caller.e)' /\ owner'[caller'.g] = session'
  <2>1. SUFFICES ASSUME caller' # None
                 PROVE  Known(session, caller.e)' /\ owner'[caller'.g] = session'
    OBVIOUS
  <2>2. PICK s, e : s = session /\ e = caller.e
    OBVIOUS
  <2>3. Known(s, e)'
    BY <2>1, <2>2, <1>0, KnownStays DEF FramesKnown
  <2>4. Known(session, caller.e)'
    BY <2>1, <2>2, <2>3 DEF Known
  <2> QED
    BY <2>1, <2>4, <1>0 DEF FramesKnown
<1> QED
  BY <1>1, <1>2, FramesStayKnown DEF FramesKnown

\* Only bytes that were submitted are on their way.
LEMMA FramesKnownKept ==
    ASSUME LinkInv, Next
    PROVE  FramesKnown'
<1>0. /\ TypeOK /\ NativeTypes /\ SenderTypes /\ NetworkTypes /\ OutboxIsExact
      /\ Attempting /\ Published /\ Sending /\ FramesKnown
      /\ versions \in [Sessions -> Seq(Seq(Payloads))]
  BY TypeParts DEF LinkInv, ServerTypes
<1>1. CASE BeginConnection
  <2>1. /\ gen' = gen + 1 /\ sock = 0 /\ claimed' = claimed /\ caller' = caller
        /\ session' = session
        /\ toServer' = [toServer EXCEPT ![gen + 1] = <<Hello>>]
        /\ owner' = [owner EXCEPT ![gen + 1] = session]
    BY <1>1 DEF BeginConnection, BeginSession, senders, identity
  <2>2. FramesFrom
    <3>1. PICK q : q = <<Hello>>
      OBVIOUS
    <3>2. \A i \in DOMAIN q : q[i].kind = "hello"
      BY <3>1 DEF Hello
    <3>3. toServer' = [toServer EXCEPT ![gen + 1] = q]
      BY <2>1, <3>1
    <3> QED
      BY <2>1, <3>2, <3>3, <1>0 DEF FramesFrom, NetworkTypes
  <2>3. claimed' = None
    BY <2>1, <1>0 DEF Sending
  <2>4. caller # None => owner'[caller.g] = session' /\ Known(session, caller.e)
    <3>1. caller # None => caller.g \in Gens /\ caller.g # gen + 1
      BY <1>0 DEF Sending, SenderTypes, NativeTypes, Gens
    <3> QED
      BY <2>1, <3>1, <1>0 DEF FramesKnown, NetworkTypes
  <2>5. caller' # None => Known(session, caller.e)'
    <3>1. SUFFICES ASSUME caller # None PROVE Known(session, caller.e)'
      BY <2>1
    <3>2. PICK s, e : s = session /\ e = caller.e
      OBVIOUS
    <3>3. Known(s, e)'
      BY <2>4, <3>1, <3>2, <1>0, KnownStays DEF SenderTypes
    <3> QED
      BY <2>1, <3>2, <3>3 DEF Known
  <2> QED
    BY <2>1, <2>2, <2>3, <2>4, <2>5, FramesStayKnown DEF FramesKnown
<1>2. CASE AttemptFails
  <2>1. FramesFrom
    BY <1>2 DEF FramesFrom, AttemptFails, native, sender, identity, senders,
       network, handler
  <2>2. claimed' = None \/ (claimed' = claimed /\ session' = session)
    BY <1>2, <1>0 DEF AttemptFails, native, sender, identity, senders,
       network, handler
  <2>3. caller' = None
        \/ (caller' = caller /\ session' = session /\ owner' = owner)
    BY <1>2, <1>0 DEF AttemptFails, native, sender, identity, senders,
       network, handler
  <2> QED
    BY <2>1, <2>2, <2>3, KnownAgain
<1>3. CASE AcceptHello
  <2>1. FramesFrom
    BY <1>3, HelloAccepted DEF FramesFrom, handler
  <2>2. claimed' = None \/ (claimed' = claimed /\ session' = session)
    BY <1>3, <1>0, HelloAccepted DEF AcceptHello, native, sender, identity,
       senders, network, handler
  <2>3. caller' = None
        \/ (caller' = caller /\ session' = session /\ owner' = owner)
    BY <1>3, <1>0, HelloAccepted DEF AcceptHello, native, sender, identity,
       senders, network, handler
  <2> QED
    BY <2>1, <2>2, <2>3, KnownAgain
<1>4. CASE Publish
  <2>1. FramesFrom
    BY <1>4 DEF FramesFrom, Publish, native, sender, identity, senders,
       network, handler
  <2>2. claimed' = None \/ (claimed' = claimed /\ session' = session)
    BY <1>4, <1>0 DEF Publish, native, sender, identity, senders, network,
       handler
  <2>3. caller' = None
        \/ (caller' = caller /\ session' = session /\ owner' = owner)
    BY <1>4, <1>0 DEF Publish, native, sender, identity, senders, network,
       handler
  <2> QED
    BY <2>1, <2>2, <2>3, KnownAgain
<1>5. CASE ReplayNext
  <2>1. FramesFrom
    <3>1. PICK c, e : /\ c = gen /\ e = queue[unsent + 1]
                      /\ \/ toServer' = toServer
                         \/ toServer' = [toServer EXCEPT ![c] = Append(@, Txn(e))]
      BY <1>5 DEF ReplayNext, Transmit
    <3>2. owner' = owner
      BY <1>5 DEF ReplayNext, handler
    <3>3. unsent + 1 \in DOMAIN queue /\ e \in Entries
      <4>1. unsent + 1 \in DOMAIN queue
        BY <1>5, <1>0 DEF ReplayNext, Claimable, NativeTypes
      <4> QED
        BY <4>1, <3>1, <1>0 DEF NativeTypes
    <3>4. Known(owner[c], e)
      <4>1. Known(session, queue[unsent + 1])
        BY <3>3, QueueKnown
      <4>2. owner[gen] = session
        BY <1>5, <1>0 DEF ReplayNext, Attempting
      <4> QED
        BY <4>1, <4>2, <3>1
    <3> QED
      BY <3>1, <3>2, <3>3, <3>4, <1>0, AppendFrom
  <2>2. claimed' = None \/ (claimed' = claimed /\ session' = session)
    BY <1>5, <1>0 DEF ReplayNext, native, sender, identity, senders, network,
       handler
  <2>3. caller' = None
        \/ (caller' = caller /\ session' = session /\ owner' = owner)
    BY <1>5, <1>0 DEF ReplayNext, native, sender, identity, senders, network,
       handler
  <2> QED
    BY <2>1, <2>2, <2>3, KnownAgain
<1>6. CASE ReplayDone
  <2>1. FramesFrom
    BY <1>6 DEF FramesFrom, ReplayDone, native, sender, identity, senders,
       network, handler
  <2>2. claimed' = None \/ (claimed' = claimed /\ session' = session)
    BY <1>6, <1>0 DEF ReplayDone, native, sender, identity, senders, network,
       handler
  <2>3. caller' = None
        \/ (caller' = caller /\ session' = session /\ owner' = owner)
    BY <1>6, <1>0 DEF ReplayDone, native, sender, identity, senders, network,
       handler
  <2> QED
    BY <2>1, <2>2, <2>3, KnownAgain
<1>7. CASE ReplayFails
  <2>1. FramesFrom
    BY <1>7 DEF FramesFrom, ReplayFails, native, sender, identity, senders,
       network, handler
  <2>2. claimed' = None \/ (claimed' = claimed /\ session' = session)
    BY <1>7, <1>0 DEF ReplayFails, native, sender, identity, senders, network,
       handler, Close
  <2>3. caller' = None
        \/ (caller' = caller /\ session' = session /\ owner' = owner)
    BY <1>7, <1>0 DEF ReplayFails, native, sender, identity, senders, network,
       handler, Close
  <2> QED
    BY <2>1, <2>2, <2>3, KnownAgain
<1>8. CASE FinishSend
  <2>1. FramesFrom
    <3>1. PICK c, e : /\ c = caller.g /\ e = caller.e
                      /\ \/ toServer' = toServer
                         \/ toServer' = [toServer EXCEPT ![c] = Append(@, Txn(e))]
      BY <1>8 DEF FinishSend, Transmit
    <3>2. owner' = owner
      BY <1>8 DEF FinishSend, handler
    <3>3. e \in Entries
      BY <1>8, <3>1, <1>0 DEF FinishSend, SenderTypes
    <3>4. Known(owner[c], e)
      BY <1>8, <3>1, <1>0 DEF FinishSend, FramesKnown
    <3> QED
      BY <3>1, <3>2, <3>3, <3>4, <1>0, AppendFrom
  <2>2. claimed' = None \/ (claimed' = claimed /\ session' = session)
    BY <1>8, <1>0 DEF FinishSend, native, sender, identity, senders, network,
       handler
  <2>3. caller' = None
        \/ (caller' = caller /\ session' = session /\ owner' = owner)
    BY <1>8, <1>0 DEF FinishSend, native, sender, identity, senders, network,
       handler
  <2> QED
    BY <2>1, <2>2, <2>3, KnownAgain
<1>9. CASE SendRaises
  <2>1. FramesFrom
    BY <1>9 DEF FramesFrom, SendRaises, native, sender, identity, senders,
       network, handler
  <2>2. claimed' = None \/ (claimed' = claimed /\ session' = session)
    BY <1>9, <1>0 DEF SendRaises, native, sender, identity, senders, network,
       handler, Close
  <2>3. caller' = None
        \/ (caller' = caller /\ session' = session /\ owner' = owner)
    BY <1>9, <1>0 DEF SendRaises, native, sender, identity, senders, network,
       handler, Close
  <2> QED
    BY <2>1, <2>2, <2>3, KnownAgain
<1>10. CASE WriterClaim
  <2>1. /\ claimed' = queue[unsent + 1] /\ unsent < Len(queue)
        /\ UNCHANGED <<session, caller, owner, toServer, versions>>
    BY <1>10 DEF WriterClaim, Claimable, identity, network, handler, history
  <2>2. unsent + 1 \in DOMAIN queue
    BY <2>1, <1>0 DEF NativeTypes
  <2>3. PICK e : e = queue[unsent + 1] /\ Known(session, e)
    BY <2>2, QueueKnown
  <2>4. claimed' = e
    BY <2>1, <2>3
  <2> QED
    BY <2>1, <2>3, <2>4, <1>0 DEF FramesKnown, Known
<1>11. CASE WriterSend
  <2>1. FramesFrom
    <3>1. PICK c, e : /\ c = sock /\ e = claimed
                      /\ \/ toServer' = toServer
                         \/ toServer' = [toServer EXCEPT ![c] = Append(@, Txn(e))]
      BY <1>11 DEF WriterSend, Transmit
    <3>2. owner' = owner
      BY <1>11 DEF WriterSend, handler
    <3>3. e \in Entries
      BY <1>11, <3>1, <1>0 DEF WriterSend, SenderTypes
    <3>4. Known(owner[c], e)
      BY <1>11, <3>1, <1>0 DEF WriterSend, FramesKnown, Sending, Published
    <3> QED
      BY <3>1, <3>2, <3>3, <3>4, <1>0, AppendFrom
  <2>2. claimed' = None \/ (claimed' = claimed /\ session' = session)
    BY <1>11, <1>0 DEF WriterSend, native, sender, identity, senders, network,
       handler
  <2>3. caller' = None
        \/ (caller' = caller /\ session' = session /\ owner' = owner)
    BY <1>11, <1>0 DEF WriterSend, native, sender, identity, senders, network,
       handler
  <2> QED
    BY <2>1, <2>2, <2>3, KnownAgain
<1>12. CASE WriterRaises
  <2>1. FramesFrom
    BY <1>12 DEF FramesFrom, WriterRaises, native, sender, identity, senders,
       network, handler
  <2>2. claimed' = None \/ (claimed' = claimed /\ session' = session)
    BY <1>12, <1>0 DEF WriterRaises, native, sender, identity, senders,
       network, handler, Close
  <2>3. caller' = None
        \/ (caller' = caller /\ session' = session /\ owner' = owner)
    BY <1>12, <1>0 DEF WriterRaises, native, sender, identity, senders,
       network, handler, Close
  <2> QED
    BY <2>1, <2>2, <2>3, KnownAgain
<1>13. ASSUME NEW p \in Payloads, SendEvents(p) PROVE FramesKnown'
  <2>1. /\ UNCHANGED <<claimed, session, owner, toServer>>
        /\ \/ caller' = caller
           \/ caller' = [g |-> sock, e |-> [id |-> nextId, p |-> p]]
        /\ sock # 0
    BY <1>13 DEF SendEvents, identity, network, handler
  <2>2. FramesFrom
    BY <2>1 DEF FramesFrom
  <2>3. claimed' # None => Known(session, claimed)'
    <3>1. SUFFICES ASSUME claimed # None PROVE Known(session, claimed)'
      BY <2>1
    <3>2. PICK s, e : s = session /\ e = claimed
      OBVIOUS
    <3>3. Known(s, e)'
      BY <3>1, <3>2, <1>0, KnownStays DEF SenderTypes, FramesKnown
    <3> QED
      BY <2>1, <3>2, <3>3 DEF Known
  <2>4. CASE caller' = caller
    <3>1. ASSUME caller # None PROVE Known(session, caller.e)'
      <4>1. PICK s, e : s = session /\ e = caller.e
        OBVIOUS
      <4>2. Known(s, e)'
        BY <3>1, <4>1, <1>0, KnownStays DEF SenderTypes, FramesKnown
      <4> QED
        BY <2>1, <2>4, <4>1, <4>2 DEF Known
    <3> QED
      BY <2>1, <2>2, <2>3, <2>4, <3>1, <1>0, FramesStayKnown DEF FramesKnown
  <2>5. CASE caller' = [g |-> sock, e |-> [id |-> nextId, p |-> p]]
    <3>1. PICK s, v, n : /\ s = session /\ v = versions[session] /\ n = nextId
                         /\ v \in Seq(Seq(Payloads)) /\ s \in Sessions
      BY <1>0 DEF SenderTypes
    <3>2. n \in Nat /\ Len(v) = n - 1
      BY <3>1, <1>0 DEF OutboxIsExact, NativeTypes
    <3>3. versions'[s] = Append(v, <<p>>)
      BY <1>13, <3>1, <1>0, SubmittedEffect
    <3>4. n \in DOMAIN Append(v, <<p>>) /\ Append(v, <<p>>)[n] = <<p>>
      <4>0. <<p>> \in Seq(Payloads)
        OBVIOUS
      <4>1. PICK S, x : S = Seq(Payloads) /\ x = <<p>> /\ x \in S
        BY <4>0
      <4>2. v \in Seq(S) /\ Len(v) + 1 = n
        BY <3>1, <3>2, <4>1
      <4>3. n \in DOMAIN Append(v, x) /\ Append(v, x)[n] = x
        BY <3>2, <4>1, <4>2
      <4> QED
        BY <4>1, <4>3
    <3>5. 1 \in DOMAIN <<p>> /\ <<p>>[1] = p
      OBVIOUS
    <3>6. PICK w : w = <<p>> /\ 1 \in DOMAIN w /\ w[1] = p
      BY <3>5
    <3>7. n \in DOMAIN versions'[s] /\ versions'[s][n] = w
      BY <3>3, <3>4, <3>6
    <3>8. caller'.e.id = n /\ caller'.e.p = p /\ caller'.g = sock /\ session' = s
      BY <2>1, <2>5, <3>1
    <3>9. Known(session, caller.e)'
      BY <3>6, <3>7, <3>8 DEF Known
    <3>10. owner'[caller'.g] = session'
      BY <2>1, <3>8, <3>1, <1>0 DEF Published
    <3> QED
      BY <2>1, <2>2, <2>3, <3>9, <3>10, FramesStayKnown DEF FramesKnown
  <2> QED
    BY <2>1, <2>4, <2>5
<1>14. ASSUME NEW p \in Payloads, RepairRejectedTransaction(p)
       PROVE  FramesKnown'
  <2>1. FramesFrom
    BY <1>14 DEF FramesFrom, RepairRejectedTransaction, native, sender,
       identity, senders, network, handler
  <2>2. claimed' = None \/ (claimed' = claimed /\ session' = session)
    BY <1>14, <1>0 DEF RepairRejectedTransaction, native, sender, identity,
       senders, network, handler, CloseForRecovery, SendLockFree
  <2>3. caller' = None
        \/ (caller' = caller /\ session' = session /\ owner' = owner)
    BY <1>14, <1>0 DEF RepairRejectedTransaction, native, sender, identity,
       senders, network, handler, CloseForRecovery, SendLockFree
  <2> QED
    BY <2>1, <2>2, <2>3, KnownAgain
<1>15. CASE AbandonRejectedSession
  <2>1. FramesFrom
    BY <1>15 DEF FramesFrom, AbandonRejectedSession, native, sender, identity,
       senders, network, handler
  <2>2. claimed' = None \/ (claimed' = claimed /\ session' = session)
    BY <1>15, <1>0 DEF AbandonRejectedSession, native, sender, identity,
       senders, network, handler, CloseForRecovery, SendLockFree
  <2>3. caller' = None
        \/ (caller' = caller /\ session' = session /\ owner' = owner)
    BY <1>15, <1>0 DEF AbandonRejectedSession, native, sender, identity,
       senders, network, handler, CloseForRecovery, SendLockFree
  <2> QED
    BY <2>1, <2>2, <2>3, KnownAgain
<1>16. CASE CancelConnect
  <2>1. FramesFrom
    BY <1>16 DEF FramesFrom, CancelConnect, native, sender, identity, senders,
       network, handler
  <2>2. claimed' = None \/ (claimed' = claimed /\ session' = session)
    BY <1>16, <1>0 DEF CancelConnect, native, sender, identity, senders,
       network, handler
  <2>3. caller' = None
        \/ (caller' = caller /\ session' = session /\ owner' = owner)
    BY <1>16, <1>0 DEF CancelConnect, native, sender, identity, senders,
       network, handler
  <2> QED
    BY <2>1, <2>2, <2>3, KnownAgain
<1>17. CASE Disconnect
  <2>1. FramesFrom
    BY <1>17 DEF FramesFrom, Disconnect, native, sender, identity, senders,
       network, handler
  <2>2. claimed' = None \/ (claimed' = claimed /\ session' = session)
    BY <1>17, <1>0 DEF Disconnect, native, sender, identity, senders, network,
       handler, Close
  <2>3. caller' = None
        \/ (caller' = caller /\ session' = session /\ owner' = owner)
    BY <1>17, <1>0 DEF Disconnect, native, sender, identity, senders, network,
       handler, Close
  <2> QED
    BY <2>1, <2>2, <2>3, KnownAgain
<1>18. ASSUME NEW g \in Gens, ServeError(g) PROVE FramesKnown'
  <2>1. FramesFrom
    <3>1. toServer[g] # <<>> /\ toServer' = [toServer EXCEPT ![g] = Tail(@)]
          /\ owner' = owner
      BY <1>18 DEF ServeError, NextTxn, handler
    <3> QED
      BY <3>1, <1>0, TailFrom
  <2>2. claimed' = None \/ (claimed' = claimed /\ session' = session)
    BY <1>18, <1>0 DEF ServeError, native, sender, identity, senders, network,
       handler
  <2>3. caller' = None
        \/ (caller' = caller /\ session' = session /\ owner' = owner)
    BY <1>18, <1>0 DEF ServeError, native, sender, identity, senders, network,
       handler
  <2> QED
    BY <2>1, <2>2, <2>3, KnownAgain
<1>19. ASSUME NEW g \in Gens, ServeLimited(g) PROVE FramesKnown'
  <2>1. FramesFrom
    <3>1. toServer[g] # <<>> /\ toServer' = [toServer EXCEPT ![g] = Tail(@)]
          /\ owner' = owner
      BY <1>19 DEF ServeLimited, NextTxn, handler
    <3> QED
      BY <3>1, <1>0, TailFrom
  <2>2. claimed' = None \/ (claimed' = claimed /\ session' = session)
    BY <1>19, <1>0 DEF ServeLimited, native, sender, identity, senders,
       network, handler
  <2>3. caller' = None
        \/ (caller' = caller /\ session' = session /\ owner' = owner)
    BY <1>19, <1>0 DEF ServeLimited, native, sender, identity, senders,
       network, handler
  <2> QED
    BY <2>1, <2>2, <2>3, KnownAgain
<1>20. ASSUME NEW g \in Gens, Break(g) PROVE FramesKnown'
  <2>1. FramesFrom
    <3>1. PICK n \in 0..Len(toServer[g]) :
            toServer' = [toServer EXCEPT ![g] = SubSeq(@, 1, n)]
      BY <1>20 DEF Break
    <3>2. owner' = owner
      BY <1>20 DEF Break, handler
    <3>3. \A i \in DOMAIN SubSeq(toServer[g], 1, n) : \E k \in DOMAIN toServer[g] :
            SubSeq(toServer[g], 1, n)[i] = toServer[g][k]
      <4>1. PICK q : q = toServer[g] /\ q \in Seq(Frames)
        BY <1>0 DEF NetworkTypes
      <4>2. n \in 0..Len(q) /\ Len(q) \in Nat /\ DOMAIN q = 1..Len(q)
        BY <3>1, <4>1
      <4>3. /\ DOMAIN SubSeq(q, 1, n) = 1..n
            /\ \A i \in 1..n : SubSeq(q, 1, n)[i] = q[i]
        BY <4>1, <4>2
      <4>4. \A i \in DOMAIN SubSeq(q, 1, n) :
              i \in DOMAIN q /\ SubSeq(q, 1, n)[i] = q[i]
        BY <4>2, <4>3
      <4> QED
        BY <4>1, <4>4
    <3> QED
      BY <3>1, <3>2, <3>3, <1>0 DEF FramesFrom, NetworkTypes
  <2>2. claimed' = None \/ (claimed' = claimed /\ session' = session)
    BY <1>20, <1>0 DEF Break, native, sender, identity, senders, network,
       handler
  <2>3. caller' = None
        \/ (caller' = caller /\ session' = session /\ owner' = owner)
    BY <1>20, <1>0 DEF Break, native, sender, identity, senders, network,
       handler
  <2> QED
    BY <2>1, <2>2, <2>3, KnownAgain
<1>21. CASE Restart
  <2>1. FramesFrom
    <3>1. toServer' = [c \in Gens |-> <<>>]
      BY <1>21 DEF Restart
    <3>2. DOMAIN <<>> = {}
      OBVIOUS
    <3>3. \A c \in Gens : DOMAIN toServer'[c] = {}
      BY <3>1, <3>2
    <3> QED
      BY <3>3 DEF FramesFrom
  <2>2. claimed' = None \/ (claimed' = claimed /\ session' = session)
    BY <1>21, <1>0 DEF Restart, native, sender, identity, senders, network,
       handler
  <2>3. caller' = None
        \/ (caller' = caller /\ session' = session /\ owner' = owner)
    BY <1>21, <1>0 DEF Restart, native, sender, identity, senders, network,
       handler
  <2> QED
    BY <2>1, <2>2, <2>3, KnownAgain
<1>22. CASE EditGraph
  <2>1. FramesFrom
    BY <1>22 DEF FramesFrom, EditGraph, native, sender, identity, senders,
       network, handler
  <2>2. claimed' = None \/ (claimed' = claimed /\ session' = session)
    BY <1>22, <1>0 DEF EditGraph, native, sender, identity, senders, network,
       handler
  <2>3. caller' = None
        \/ (caller' = caller /\ session' = session /\ owner' = owner)
    BY <1>22, <1>0 DEF EditGraph, native, sender, identity, senders, network,
       handler
  <2> QED
    BY <2>1, <2>2, <2>3, KnownAgain
<1>23. ASSUME NEW g \in Gens, ReceiveResult(g) PROVE FramesKnown'
  <2>1. FramesFrom
    BY <1>23 DEF FramesFrom, ReceiveResult, native, sender, identity, senders,
       network, handler
  <2>2. claimed' = None \/ (claimed' = claimed /\ session' = session)
    BY <1>23, <1>0 DEF ReceiveResult, native, sender, identity, senders,
       network, handler
  <2>3. caller' = None
        \/ (caller' = caller /\ session' = session /\ owner' = owner)
    BY <1>23, <1>0 DEF ReceiveResult, native, sender, identity, senders,
       network, handler
  <2> QED
    BY <2>1, <2>2, <2>3, KnownAgain
<1>24. ASSUME NEW g \in Gens, ReceiveRaises(g) PROVE FramesKnown'
  <2>1. FramesFrom
    BY <1>24 DEF FramesFrom, ReceiveRaises, native, sender, identity, senders,
       network, handler
  <2>2. claimed' = None \/ (claimed' = claimed /\ session' = session)
    BY <1>24, <1>0 DEF ReceiveRaises, native, sender, identity, senders,
       network, handler
  <2>3. caller' = None
        \/ (caller' = caller /\ session' = session /\ owner' = owner)
    BY <1>24, <1>0 DEF ReceiveRaises, native, sender, identity, senders,
       network, handler
  <2> QED
    BY <2>1, <2>2, <2>3, KnownAgain
<1>25. ASSUME NEW g \in Gens, ApplyResult(g) PROVE FramesKnown'
  <2>1. FramesFrom
    BY <1>25, ResultApplied DEF FramesFrom, network, handler
  <2>2. claimed' = None \/ (claimed' = claimed /\ session' = session)
    BY <1>25, <1>0, ResultApplied DEF ApplyResult, native, sender, identity,
       senders, network, handler
  <2>3. caller' = None
        \/ (caller' = caller /\ session' = session /\ owner' = owner)
    BY <1>25, <1>0, ResultApplied DEF ApplyResult, native, sender, identity,
       senders, network, handler
  <2> QED
    BY <2>1, <2>2, <2>3, KnownAgain
<1>26. ASSUME NEW g \in Gens, ApplyLimited(g) PROVE FramesKnown'
  <2>1. FramesFrom
    BY <1>26 DEF FramesFrom, ApplyLimited, native, sender, identity, senders,
       network, handler
  <2>2. claimed' = None \/ (claimed' = claimed /\ session' = session)
    BY <1>26, <1>0 DEF ApplyLimited, native, sender, identity, senders,
       network, handler
  <2>3. caller' = None
        \/ (caller' = caller /\ session' = session /\ owner' = owner)
    BY <1>26, <1>0 DEF ApplyLimited, native, sender, identity, senders,
       network, handler
  <2> QED
    BY <2>1, <2>2, <2>3, KnownAgain
<1>27. ASSUME NEW g \in Gens, CloseReader(g) PROVE FramesKnown'
  <2>1. FramesFrom
    BY <1>27 DEF FramesFrom, CloseReader, native, sender, identity, senders,
       network, handler
  <2>2. claimed' = None \/ (claimed' = claimed /\ session' = session)
    BY <1>27, <1>0 DEF CloseReader, native, sender, identity, senders,
       network, handler, Close
  <2>3. caller' = None
        \/ (caller' = caller /\ session' = session /\ owner' = owner)
    BY <1>27, <1>0 DEF CloseReader, native, sender, identity, senders,
       network, handler, Close
  <2> QED
    BY <2>1, <2>2, <2>3, KnownAgain
<1>28. ASSUME NEW g \in Gens, ServeHello(g) PROVE FramesKnown'
  <2>1. FramesFrom
    <3>1. toServer[g] # <<>> /\ toServer' = [toServer EXCEPT ![g] = Tail(@)]
          /\ owner' = owner
      BY <1>28 DEF ServeHello, NextTxn, handler
    <3> QED
      BY <3>1, <1>0, TailFrom
  <2>2. claimed' = None \/ (claimed' = claimed /\ session' = session)
    BY <1>28, <1>0 DEF ServeHello, native, sender, identity, senders, network,
       handler
  <2>3. caller' = None
        \/ (caller' = caller /\ session' = session /\ owner' = owner)
    BY <1>28, <1>0 DEF ServeHello, native, sender, identity, senders, network,
       handler
  <2> QED
    BY <2>1, <2>2, <2>3, KnownAgain
<1>29. ASSUME NEW g \in Gens, ServeTxn(g) PROVE FramesKnown'
  <2>1. FramesFrom
    <3>1. toServer[g] # <<>> /\ toServer' = [toServer EXCEPT ![g] = Tail(@)]
          /\ owner' = owner
      BY <1>29 DEF ServeTxn, NextTxn, handler
    <3> QED
      BY <3>1, <1>0, TailFrom
  <2>2. claimed' = None \/ (claimed' = claimed /\ session' = session)
    BY <1>29, <1>0 DEF ServeTxn, native, sender, identity, senders, network,
       handler
  <2>3. caller' = None
        \/ (caller' = caller /\ session' = session /\ owner' = owner)
    BY <1>29, <1>0 DEF ServeTxn, native, sender, identity, senders, network,
       handler
  <2> QED
    BY <2>1, <2>2, <2>3, KnownAgain
<1>30. ASSUME NEW g \in Gens, ResolveResult(g) PROVE FramesKnown'
  <2>1. FramesFrom
    BY <1>30 DEF FramesFrom, ResolveResult, native, sender, identity, senders,
       network, handler
  <2>2. claimed' = None \/ (claimed' = claimed /\ session' = session)
    BY <1>30, <1>0 DEF ResolveResult, native, sender, identity, senders,
       network, handler
  <2>3. caller' = None
        \/ (caller' = caller /\ session' = session /\ owner' = owner)
    BY <1>30, <1>0 DEF ResolveResult, native, sender, identity, senders,
       network, handler
  <2> QED
    BY <2>1, <2>2, <2>3, KnownAgain
<1>31. ASSUME NEW g \in Gens, SendResults(g) PROVE FramesKnown'
  <2>1. FramesFrom
    BY <1>31 DEF FramesFrom, SendResults, native, sender, identity, senders,
       network, handler
  <2>2. claimed' = None \/ (claimed' = claimed /\ session' = session)
    BY <1>31, <1>0 DEF SendResults, native, sender, identity, senders,
       network, handler
  <2>3. caller' = None
        \/ (caller' = caller /\ session' = session /\ owner' = owner)
    BY <1>31, <1>0 DEF SendResults, native, sender, identity, senders,
       network, handler
  <2> QED
    BY <2>1, <2>2, <2>3, KnownAgain
<1> QED
  BY <1>0, <1>1, <1>2, <1>3, <1>4, <1>5, <1>6, <1>7, <1>8, <1>9, <1>10,
     <1>11, <1>12, <1>13, <1>14, <1>15, <1>16, <1>17, <1>18, <1>19, <1>20,
     <1>21, <1>22, <1>23, <1>24, <1>25, <1>26, <1>27, <1>28, <1>29, <1>30,
     <1>31, StepCases


-----------------------------------------------------------------------------
(* The stream of answers, step by step.                                    *)

\* A step that leaves a connection alone leaves what its reader is told.
LEMMA StreamSame ==
    ASSUME NEW g \in Gens, rpc'[g] = rpc[g], hand'[g] = hand[g],
           toClient'[g] = toClient[g], link'[g] = link[g],
           outgoing'[g] = outgoing[g], results'[g] = results[g]
    PROVE  Stream(g)' = Stream(g) /\ Held(g)' = Held(g) /\ Coming(g)' = Coming(g)
<1>1. Held(g)' = Held(g)
  BY DEF Held
<1>2. Coming(g)' = Coming(g)
  BY DEF Coming
<1> QED
  BY <1>1, <1>2 DEF Stream

\* The reader takes the next answer.
LEMMA StreamReceived ==
    ASSUME LinkInv, NEW g \in Gens, ReceiveResult(g)
    PROVE  Stream(g)' = Stream(g)
<1>0. TypeOK /\ HandsFull /\ ReaderTypes /\ NetworkTypes
  BY TypeParts DEF LinkInv
<1>1. /\ rpc[g] = "waiting" /\ toClient[g] # <<>>
      /\ hand' = [hand EXCEPT ![g] = Head(toClient[g])]
      /\ toClient' = [toClient EXCEPT ![g] = Tail(@)]
      /\ rpc' = [rpc EXCEPT ![g] = "holding"]
      /\ UNCHANGED <<link, outgoing, results>>
  BY DEF ReceiveResult, handler
<1>2. PICK t, c : t = toClient[g] /\ c = Coming(g)
  OBVIOUS
<1>3. t \in Seq(Replies) /\ c \in Seq(Replies) /\ t # <<>> /\ Head(t) \in Replies
  BY <1>0, <1>1, <1>2, StreamType
<1>4. Held(g) = <<>> /\ Coming(g)' = c
  BY <1>1, <1>2 DEF Held, Coming
<1>5. Held(g)' = <<Head(t)>> /\ toClient'[g] = Tail(t)
  BY <1>0, <1>1, <1>2 DEF Held, ReaderTypes, NetworkTypes
<1>6. <<Head(t)>> \o Tail(t) \o c = <<>> \o t \o c
  BY <1>3, AnswersMove
<1> QED
  BY <1>2, <1>4, <1>5, <1>6 DEF Stream

\* One more result is queued; it is for nobody when the peer is gone.
Queued(g, r) ==
    /\ results' = [results EXCEPT ![g] = Append(@, r)]
    /\ UNCHANGED <<rpc, hand, toClient, link, outgoing>>

\* A queued result is the last thing the reader is told.
LEMMA StreamServed ==
    ASSUME LinkInv, NEW g \in Gens, NEW r \in Replies, Queued(g, r)
    PROVE  /\ link[g] = "up" => Stream(g)' = Append(Stream(g), r)
           /\ link[g] # "up" => Stream(g)' = Stream(g)
<1>0. TypeOK /\ HandsFull /\ NetworkTypes
  BY TypeParts DEF LinkInv
<1>1. PICK h, t, o, q : h = Held(g) /\ t = toClient[g] /\ o = outgoing[g]
                        /\ q = results[g]
  OBVIOUS
<1>2. h \in Seq(Replies) /\ t \in Seq(Replies) /\ o \in Seq(Replies)
      /\ q \in Seq(Replies)
  BY <1>0, <1>1, StreamType
<1>3. Held(g)' = h /\ toClient'[g] = t
  BY <1>1 DEF Held, Queued
<1>4. CASE link[g] = "up"
  <2>1. Coming(g) = o \o q /\ Coming(g)' = o \o Append(q, r)
    BY <1>0, <1>1, <1>4 DEF Coming, NetworkTypes, Queued
  <2>2. h \o t \o (o \o Append(q, r)) = Append(h \o t \o (o \o q), r)
    BY <1>2, AnswersMove
  <2> QED
    BY <1>1, <1>3, <1>4, <2>1, <2>2 DEF Stream
<1>5. CASE link[g] # "up"
  <2>1. Coming(g) = <<>> /\ Coming(g)' = <<>>
    BY <1>5 DEF Coming, Queued
  <2> QED
    BY <1>1, <1>3, <1>5, <2>1 DEF Stream
<1> QED
  BY <1>4, <1>5

\* A batch is handed to the socket.
LEMMA StreamSent ==
    ASSUME LinkInv, NEW g \in Gens, SendResults(g)
    PROVE  Stream(g)' = Stream(g)
<1>0. TypeOK /\ HandsFull /\ NetworkTypes
  BY TypeParts DEF LinkInv
<1>1. /\ toClient' = IF link[g] = "up"
                     THEN [toClient EXCEPT ![g] = @ \o outgoing[g]]
                     ELSE toClient
      /\ outgoing' = [outgoing EXCEPT ![g] = <<>>]
      /\ UNCHANGED <<rpc, hand, link, results>>
  BY DEF SendResults, sender, reader
<1>2. PICK h, t, o, q : h = Held(g) /\ t = toClient[g] /\ o = outgoing[g]
                        /\ q = results[g]
  OBVIOUS
<1>3. h \in Seq(Replies) /\ t \in Seq(Replies) /\ o \in Seq(Replies)
      /\ q \in Seq(Replies)
  BY <1>0, <1>2, StreamType
<1>4. Held(g)' = h
  BY <1>1, <1>2 DEF Held
<1>5. CASE link[g] = "up"
  <2>1. Coming(g) = o \o q /\ Coming(g)' = <<>> \o q /\ toClient'[g] = t \o o
    BY <1>0, <1>1, <1>2, <1>5 DEF Coming, NetworkTypes
  <2>2. \E x \in Replies : TRUE
    <3>1. [kind |-> "ack", id |-> 0, head |-> 0] \in Replies
      BY DEF Replies
    <3> QED
      BY <3>1
  <2>3. h \o (t \o o) \o (<<>> \o q) = h \o t \o (o \o q)
    BY <1>3, <2>2, AnswersMove
  <2> QED
    BY <1>2, <1>4, <2>1, <2>3 DEF Stream
<1>6. CASE link[g] # "up"
  <2>1. Coming(g) = <<>> /\ Coming(g)' = <<>> /\ toClient' = toClient
    BY <1>1, <1>6 DEF Coming
  <2> QED
    BY <1>2, <1>4, <2>1 DEF Stream
<1> QED
  BY <1>5, <1>6

\* The connection is cut: the end of what is under way is lost.
LEMMA StreamCut ==
    ASSUME LinkInv, NEW g \in Gens, UNCHANGED <<rpc, hand>>,
           link'[g] # "up", NEW j \in 0..Len(toClient[g]),
           toClient'[g] = SubSeq(toClient[g], 1, j)
    PROVE  \E n \in 0..Len(Stream(g)) : Stream(g)' = SubSeq(Stream(g), 1, n)
<1>0. TypeOK /\ HandsFull
  BY DEF LinkInv
<1>1. PICK h, t, c : h = Held(g) /\ t = toClient[g] /\ c = Coming(g)
  OBVIOUS
<1>2. h \in Seq(Replies) /\ t \in Seq(Replies) /\ c \in Seq(Replies)
  BY <1>0, <1>1, StreamType
<1>3. Held(g)' = h /\ Coming(g)' = <<>> /\ toClient'[g] = SubSeq(t, 1, j)
  BY <1>1 DEF Held, Coming
<1>4. PICK n : n = Len(h) + j
  OBVIOUS
<1>5. j \in 0..Len(t) /\ Len(t) \in Nat /\ Len(h) \in Nat /\ Len(c) \in Nat
  BY <1>1, <1>2
<1>6. Len(h \o t \o c) = Len(h) + Len(t) + Len(c) /\ h \o t \in Seq(Replies)
      /\ h \o t \o c \in Seq(Replies) /\ Len(h \o t) = Len(h) + Len(t)
  BY <1>2
<1>7. n \in 0..Len(h \o t \o c)
  BY <1>4, <1>5, <1>6
<1>8. PICK u : u = SubSeq(t, 1, j) /\ u \in Seq(Replies) /\ Len(u) = j
               /\ \A i \in 1..j : u[i] = t[i]
  <2>1. PICK u : u = SubSeq(t, 1, j)
    OBVIOUS
  <2>2. u \in Seq(Replies) /\ Len(u) = j
    BY <2>1, <1>2, <1>5
  <2>3. \A i \in 1..j : u[i] = t[i]
    BY <2>1, <1>2, <1>5
  <2> QED
    BY <2>1, <2>2, <2>3
<1>9. h \o u \o <<>> = SubSeq(h \o t \o c, 1, n)
  <2>1. h \o u \in Seq(Replies) /\ Len(h \o u) = n
        /\ \A i \in 1..n : (h \o u)[i] = IF i <= Len(h) THEN h[i] ELSE u[i - Len(h)]
    BY <1>2, <1>4, <1>5, <1>8, ConcatProperties
  <2>2. h \o u \o <<>> = h \o u
    BY <2>1, ConcatEmptySeq
  <2>3. \A i \in 1..Len(h \o t) : (h \o t)[i] =
          IF i <= Len(h) THEN h[i] ELSE t[i - Len(h)]
    BY <1>2, <1>6, ConcatProperties
  <2>4. \A i \in 1..Len(h \o t) : (h \o t \o c)[i] = (h \o t)[i]
    BY <1>2, <1>5, <1>6, ConcatProperties
  <2>5. PICK q : q = h \o t \o c /\ q \in Seq(Replies) /\ n \in 0..Len(q)
    BY <1>6, <1>7
  <2>6. SubSeq(q, 1, n) \in Seq(Replies) /\ Len(SubSeq(q, 1, n)) = n
        /\ \A i \in 1..n : SubSeq(q, 1, n)[i] = q[i]
    BY <2>5
  <2>7. \A i \in 1..n : (h \o u)[i] = q[i]
    <3> SUFFICES ASSUME NEW i \in 1..n PROVE (h \o u)[i] = q[i]
      OBVIOUS
    <3>1. i \in 1..Len(h \o t)
      BY <1>4, <1>5, <1>6
    <3>2. q[i] = IF i <= Len(h) THEN h[i] ELSE t[i - Len(h)]
      BY <3>1, <2>3, <2>4, <2>5
    <3>3. ~(i <= Len(h)) => i - Len(h) \in 1..j
      BY <1>4, <1>5
    <3> QED
      BY <2>1, <3>2, <3>3, <1>8
  <2>8. PICK a, b : a = h \o u /\ b = SubSeq(q, 1, n)
    OBVIOUS
  <2>9. a = b
    <3>1. a \in Seq(Replies) /\ b \in Seq(Replies) /\ Len(a) = n /\ Len(b) = n
          /\ \A i \in 1..n : a[i] = b[i]
      BY <2>1, <2>6, <2>7, <2>8
    <3> QED
      BY <3>1, SeqEqual
  <2> QED
    BY <2>2, <2>5, <2>8, <2>9
<1> QED
  BY <1>1, <1>3, <1>7, <1>8, <1>9 DEF Stream

\* A result joins the batch, alone or in place of the acknowledgement before
\* it, or ends the connection.
Joined(g) ==
    /\ results[g] # <<>>
    /\ results' = [results EXCEPT ![g] = Tail(@)]
    /\ outgoing' = [outgoing EXCEPT ![g] = Coalesce(@, Head(results[g]))]
    /\ UNCHANGED <<rpc, hand, toClient, link>>

\* A result taken into the batch replaces an acknowledgement or nothing.
LEMMA StreamJoined ==
    ASSUME LinkInv, NEW g \in Gens, Joined(g)
    PROVE  \/ Stream(g)' = Stream(g)
           \/ \E a, b \in Seq(Replies), x \in Replies :
                /\ x.kind = "ack" /\ Stream(g) = a \o <<x>> \o b
                /\ Stream(g)' = a \o b
<1>0. TypeOK /\ HandsFull /\ NetworkTypes
  BY TypeParts DEF LinkInv
<1>1. PICK h, t, o, q : h = Held(g) /\ t = toClient[g] /\ o = outgoing[g]
                        /\ q = results[g]
  OBVIOUS
<1>2. h \in Seq(Replies) /\ t \in Seq(Replies) /\ o \in Seq(Replies)
      /\ q \in Seq(Replies)
  BY <1>0, <1>1, StreamType
<1>3. Held(g)' = h /\ toClient'[g] = t /\ q # <<>> /\ results'[g] = Tail(q)
      /\ outgoing'[g] = Coalesce(o, Head(q))
  BY <1>0, <1>1 DEF Held, Joined, NetworkTypes
<1>4. CASE link[g] # "up"
  <2>1. Coming(g) = <<>> /\ Coming(g)' = <<>>
    BY <1>4 DEF Coming, Joined
  <2> QED
    BY <1>1, <1>3, <2>1 DEF Stream
<1>5. CASE link[g] = "up"
  <2>1. Coming(g) = o \o q /\ Coming(g)' = Coalesce(o, Head(q)) \o Tail(q)
    BY <1>1, <1>3, <1>5 DEF Coming, Joined
  <2>2. CASE ~(o # <<>> /\ Head(q).kind = "ack" /\ o[Len(o)].kind = "ack")
    <3>1. Coalesce(o, Head(q)) = Append(o, Head(q))
      BY <2>2 DEF Coalesce
    <3>2. Head(q) \in Replies
      BY <1>2, <1>3
    <3>3. Append(o, Head(q)) \o Tail(q) = o \o q
      BY <1>2, <1>3, <3>2, AnswersMove
    <3> QED
      BY <1>1, <1>3, <2>1, <3>1, <3>3 DEF Stream
  <2>3. CASE o # <<>> /\ Head(q).kind = "ack" /\ o[Len(o)].kind = "ack"
    <3>1. Coalesce(o, Head(q)) = [o EXCEPT ![Len(o)] = Head(q)]
      BY <2>3 DEF Coalesce
    <3>2. PICK a \in Seq(Replies), x \in Replies : GivesWay(h, t, o, q, a, x)
      <4>1. o # <<>> /\ q # <<>>
        BY <1>3, <2>3
      <4> QED
        BY <1>2, <4>1, AnswersCoalesce
    <3>3. Stream(g) = a \o <<x>> \o q /\ Stream(g)' = a \o q
      BY <1>1, <1>3, <2>1, <3>1, <3>2 DEF Stream, GivesWay
    <3>4. x.kind = "ack"
      BY <2>3, <3>2 DEF GivesWay
    <3> QED
      BY <1>2, <3>3, <3>4
  <2> QED
    BY <2>2, <2>3
<1> QED
  BY <1>4, <1>5

\* A result without a reply cuts off what the reader is told.
LEMMA StreamResolved ==
    ASSUME LinkInv, NEW g \in Gens, ResolveResult(g)
    PROVE  \/ /\ link'[g] # "up"
              /\ \E n \in 0..Len(Stream(g)) : Stream(g)' = SubSeq(Stream(g), 1, n)
           \/ Joined(g)
<1>0. TypeOK /\ HandsFull /\ NetworkTypes
  BY TypeParts DEF LinkInv
<1>1. UNCHANGED <<rpc, hand, toClient>>
  BY DEF ResolveResult, sender, reader
<1>2. CASE Head(results[g]).kind = "error"
  <2>1. link' = [link EXCEPT ![g] = IF @ = "up" THEN "down" ELSE @]
    BY <1>2 DEF ResolveResult
  <2>2. link'[g] # "up"
    BY <2>1, <1>0 DEF NetworkTypes
  <2>3. PICK t, j : t = toClient[g] /\ t \in Seq(Replies) /\ j = Len(t)
    BY <1>0 DEF NetworkTypes
  <2>4. j \in 0..Len(t) /\ t = SubSeq(t, 1, j)
    BY <2>3, SubSeqFull
  <2>5. toClient'[g] = SubSeq(toClient[g], 1, j) /\ j \in 0..Len(toClient[g])
    BY <2>3, <2>4, <1>1
  <2> QED
    BY <1>1, <2>2, <2>5, StreamCut
<1>3. CASE Head(results[g]).kind # "error"
  BY <1>1, <1>3 DEF ResolveResult, Joined
<1> QED
  BY <1>2, <1>3

\* A notice goes out ahead of the queued results.
Noticed(g, r) == Answer(g, r) /\ UNCHANGED <<rpc, hand, link, outgoing, results>>

\* A notice goes behind what was sent and ahead of what is queued.
LEMMA AnswersInsert ==
    ASSUME NEW h \in Seq(Replies), NEW t \in Seq(Replies),
           NEW c \in Seq(Replies), NEW x \in Replies
    PROVE  h \o Append(t, x) \o c = (h \o t) \o <<x>> \o c
<1>1. Append(t, x) = t \o <<x>> /\ <<x>> \in Seq(Replies)
  BY AppendIsConcat
<1>2. h \o (t \o <<x>>) = (h \o t) \o <<x>>
  BY <1>1, RepliesAssociate
<1> QED
  BY <1>1, <1>2

\* RateLimited is inserted into what the reader is told.
LEMMA StreamNoticed ==
    ASSUME LinkInv, NEW g \in Gens, NEW r \in Replies, Noticed(g, r)
    PROVE  /\ link[g] = "up" => \E a, b \in Seq(Replies) :
                /\ Stream(g) = a \o b /\ Stream(g)' = a \o <<r>> \o b
           /\ link[g] # "up" => Stream(g)' = Stream(g)
<1>0. TypeOK /\ HandsFull /\ NetworkTypes
  BY TypeParts DEF LinkInv
<1>1. PICK h, t, c : h = Held(g) /\ t = toClient[g] /\ c = Coming(g)
  OBVIOUS
<1>2. h \in Seq(Replies) /\ t \in Seq(Replies) /\ c \in Seq(Replies)
  BY <1>0, <1>1, StreamType
<1>3. Held(g)' = h /\ Coming(g)' = c
  BY <1>1 DEF Held, Coming, Noticed
<1>4. CASE link[g] = "up"
  <2>1. toClient'[g] = Append(t, r)
    BY <1>0, <1>1, <1>4 DEF Noticed, Answer, NetworkTypes
  <2>2. h \o Append(t, r) \o c = (h \o t) \o <<r>> \o c
    BY <1>2, AnswersInsert
  <2>3. h \o t \in Seq(Replies)
    BY <1>2
  <2>4. Stream(g) = (h \o t) \o c /\ Stream(g)' = (h \o t) \o <<r>> \o c
    BY <1>1, <1>3, <2>1, <2>2 DEF Stream
  <2> QED
    BY <1>2, <1>4, <2>3, <2>4
<1>5. CASE link[g] # "up"
  BY <1>1, <1>3, <1>5 DEF Stream, Noticed, Answer
<1> QED
  BY <1>4, <1>5

\* The reader is done with the reply it held.
LEMMA StreamApplied ==
    ASSUME LinkInv, NEW g \in Gens, rpc[g] = "holding",
           rpc' = [rpc EXCEPT ![g] = "waiting"],
           UNCHANGED <<toClient, link, outgoing, results>>
    PROVE  Stream(g)' = Tail(Stream(g))
<1>0. TypeOK /\ HandsFull /\ ReaderTypes
  BY TypeParts DEF LinkInv
<1>1. Tail(Stream(g)) = toClient[g] \o Coming(g)
  BY <1>0, HeldIsFirst
<1>2. Held(g)' = <<>> /\ Coming(g)' = Coming(g)
  BY <1>0 DEF Held, Coming, ReaderTypes
<1>3. toClient[g] \in Seq(Replies)
  BY <1>0, StreamType
<1>4. <<>> \o toClient[g] = toClient[g]
  BY <1>3, ConcatEmptySeq
<1> QED
  BY <1>1, <1>2, <1>4 DEF Stream

-----------------------------------------------------------------------------
(* Answers.                                                                *)

\* What stands behind an answer stays there.
LEMMA BackedStays ==
    ASSUME LinkInv, Next, NEW r \in Replies, Backed(r),
           session' = session, nextId' \in Nat, nextId' >= nextId
    PROVE  Backed(r)'
<1>1. session \in Sessions /\ nextId \in Nat /\ r.id \in Nat
      /\ committed[session] \in Nat
  BY DEF LinkInv, TypeOK, Replies
<1>2. committed'[session] >= committed[session] /\ committed'[session] \in Nat
  BY <1>1, CommittedGrows, TypesKept DEF TypeOK
<1>3. \A i \in DOMAIN log : i \in DOMAIN log' /\ log'[i] = log[i]
  BY LogGrows
<1>4. r.kind = "ack" =>
        /\ r.id <= committed'[session']
        /\ r.head > 0 => /\ r.head \in DOMAIN log'
                         /\ log'[r.head].s = session' /\ log'[r.head].id = r.id
  BY <1>1, <1>2, <1>3 DEF Backed
<1>5. r.kind \in Refusals => r.id < nextId'
  BY <1>1 DEF Backed
<1> QED
  BY <1>4, <1>5 DEF Backed

\* The answers of a step, q, are answers of before or backed.
LEMMA AnswersFrom ==
    ASSUME LinkInv, Next, NEW g \in Gens, sock = g, sock' = g,
           rpc[g] # "closing", session' = session, nextId' \in Nat,
           nextId' >= nextId, NEW q \in Seq(Replies), Stream(g)' = q,
           NEW low \in Nat, lastAcked' = low, Sound(q, low),
           \A i \in DOMAIN q :
             \/ \E k \in DOMAIN Stream(g) : q[i] = Stream(g)[k]
             \/ Backed(q[i])'
    PROVE  AnswersInOrder'
<1>1. TypeOK /\ HandsFull /\ AnswersInOrder
  BY DEF LinkInv
<1>2. 0 \notin Gens
  BY BoundsHold DEF Gens
<1>3. Listening
  BY <1>2 DEF Listening
<1>4. Stream(g) \in Seq(Replies)
  BY <1>1, StreamType
<1>5. ASSUME NEW k \in DOMAIN Stream(g)
      PROVE  Stream(g)[k] \in Replies /\ Backed(Stream(g)[k])
  BY <1>1, <1>3, <1>4 DEF AnswersInOrder
<1>6. ASSUME NEW i \in DOMAIN q PROVE Backed(q[i])'
  <2>1. CASE \E k \in DOMAIN Stream(g) : q[i] = Stream(g)[k]
    <3>1. PICK r : r = q[i] /\ r \in Replies /\ Backed(r)
      BY <1>5, <2>1
    <3>2. Backed(r)'
      BY <3>1, BackedStays
    <3> QED
      BY <3>1, <3>2
  <2> QED
    BY <2>1
<1>7. Sound(Stream(sock), lastAcked)'
  BY DEF Sound
<1>8. \A i \in DOMAIN Stream(sock)' : Backed(Stream(sock)[i])'
  BY <1>6 DEF Backed
<1> QED
  BY <1>7, <1>8 DEF AnswersInOrder

\* The stream is not touched, or nobody reads it any more.
LEMMA AnswersUntouched ==
    ASSUME LinkInv, Next, session' = session, lastAcked' = lastAcked,
           nextId' \in Nat, nextId' >= nextId, sock' \in {0, sock},
           \A g \in Gens : g = sock /\ sock' = g =>
             \/ rpc'[g] = "closing"
             \/ rpc[g] # "closing" /\ Stream(g)' = Stream(g)
    PROVE  AnswersInOrder'
<1>1. TypeOK /\ HandsFull /\ AnswersInOrder /\ sock \in Gens \cup {0}
      /\ lastAcked \in Nat
  BY DEF LinkInv, TypeOK
<1>2. 0 \notin Gens
  BY BoundsHold DEF Gens
<1>3. CASE ~Listening'
  BY <1>3 DEF AnswersInOrder
<1>4. CASE Listening'
  <2>1. sock' # 0 /\ rpc'[sock'] # "closing"
    BY <1>4 DEF Listening
  <2>2. PICK g \in Gens : g = sock /\ sock' = g
    BY <1>1, <2>1
  <2>3. rpc[g] # "closing" /\ Stream(g)' = Stream(g)
    BY <2>1, <2>2
  <2>4. PICK q : q = Stream(g) /\ q \in Seq(Replies)
    BY <1>1, StreamType
  <2>5. Listening
    BY <1>2, <2>2, <2>3 DEF Listening
  <2>6. PICK low \in Nat : low = lastAcked
    BY <1>1
  <2>7. Sound(q, low)
    BY <1>1, <2>2, <2>4, <2>5, <2>6 DEF AnswersInOrder
  <2>8. Stream(g)' = q /\ lastAcked' = low
    BY <2>3, <2>4, <2>6
  <2>9. \A i \in DOMAIN q : \E k \in DOMAIN Stream(g) : q[i] = Stream(g)[k]
    BY <2>4
  <2> QED
    BY <2>2, <2>3, <2>4, <2>6, <2>7, <2>8, <2>9, AnswersFrom
<1> QED
  BY <1>3, <1>4

\* An answer queued behind the others leaves them in order.
LEMMA AnswersServed ==
    ASSUME LinkInv, Next, NEW g \in Gens, sock = g, NEW r \in Replies,
           Queued(g, r), UNCHANGED <<session, lastAcked, nextId, sock>>,
           link[g] = "up" /\ rpc[g] # "closing" =>
             Continues(Stream(g), lastAcked, r) /\ Backed(r)'
    PROVE  AnswersInOrder'
<1>0. /\ TypeOK /\ NativeTypes /\ SenderTypes /\ HandsFull /\ AnswersInOrder
      /\ nextId' \in Nat /\ nextId' >= nextId
  <2>1. NativeTypes /\ SenderTypes /\ TypeOK /\ HandsFull /\ AnswersInOrder
    BY TypeParts DEF LinkInv
  <2> QED
    BY <2>1 DEF NativeTypes
<1>00. rpc' = rpc
  BY DEF Queued
<1>1. CASE rpc[g] = "closing"
  BY <1>00, <1>1 DEF AnswersInOrder, Listening
<1>2. CASE rpc[g] # "closing" /\ link[g] # "up"
  <2>1. Stream(g)' = Stream(g)
    BY <1>2, StreamServed
  <2> QED
    BY <1>0, <1>2, <2>1, AnswersUntouched
<1>3. CASE rpc[g] # "closing" /\ link[g] = "up"
  <2>1. PICK q \in Seq(Replies) : q = Stream(g)
    BY <1>0, StreamType
  <2>2. PICK low \in Nat : low = lastAcked
    BY <1>0 DEF NativeTypes
  <2>3. 0 \notin Gens
    BY BoundsHold DEF Gens
  <2>4. Sound(q, low) /\ Continues(q, low, r)
    BY <1>0, <1>3, <2>1, <2>2, <2>3 DEF AnswersInOrder, Listening
  <2>5. PICK t : t = Append(q, r)
    OBVIOUS
  <2>6. t \in Seq(Replies) /\ Sound(t, low)
    BY <2>4, <2>5, SoundAppend
  <2>7. Stream(g)' = t
    BY <1>3, <2>1, <2>5, StreamServed
  <2>8. ASSUME NEW i \in DOMAIN t
        PROVE  (\E k \in DOMAIN q : t[i] = q[k]) \/ t[i] = r
    BY <2>5
  <2>9. \A i \in DOMAIN t :
            (\E k \in DOMAIN Stream(g) : t[i] = Stream(g)[k]) \/ Backed(t[i])'
    <3>1. TAKE i \in DOMAIN t
    <3>2. CASE \E k \in DOMAIN q : t[i] = q[k]
      BY <3>2, <2>1
    <3>3. CASE t[i] = r
      <4>1. Backed(r)'
        BY <1>3
      <4>2. PICK x : x = t[i]
        OBVIOUS
      <4>3. x = r
        BY <4>2, <3>3
      <4>4. Backed(x)'
        BY <4>1, <4>3
      <4> QED
        BY <4>2, <4>4
    <3> QED
      BY <2>8, <3>2, <3>3
  <2> QED
    BY <1>0, <1>3, <2>2, <2>6, <2>7, <2>9, AnswersFrom
<1> QED
  BY <1>1, <1>2, <1>3

\* Losing the end of what is under way leaves the rest in order.
LEMMA AnswersCut ==
    ASSUME LinkInv, Next, NEW g \in Gens, sock = g,
           UNCHANGED <<session, lastAcked, nextId, sock, rpc>>,
           \E n \in 0..Len(Stream(g)) : Stream(g)' = SubSeq(Stream(g), 1, n)
    PROVE  AnswersInOrder'
<1>0. /\ TypeOK /\ NativeTypes /\ HandsFull /\ AnswersInOrder
      /\ nextId' \in Nat /\ nextId' >= nextId
  <2>1. NativeTypes /\ TypeOK /\ HandsFull /\ AnswersInOrder
    BY TypeParts DEF LinkInv
  <2> QED
    BY <2>1 DEF NativeTypes
<1>1. CASE rpc[g] = "closing"
  BY <1>1 DEF AnswersInOrder, Listening
<1>2. CASE rpc[g] # "closing"
  <2>1. PICK q \in Seq(Replies) : q = Stream(g)
    BY <1>0, StreamType
  <2>2. PICK low \in Nat : low = lastAcked
    BY <1>0 DEF NativeTypes
  <2>3. 0 \notin Gens
    BY BoundsHold DEF Gens
  <2>4. Sound(q, low)
    BY <1>0, <1>2, <2>1, <2>2, <2>3 DEF AnswersInOrder, Listening
  <2>5. PICK n \in 0..Len(q) : Stream(g)' = SubSeq(q, 1, n)
    BY <2>1
  <2>6. PICK t : t = SubSeq(q, 1, n)
    OBVIOUS
  <2>7. t \in Seq(Replies)
    BY <2>6
  <2>8. Sound(t, low) /\ \A i \in DOMAIN t : i \in DOMAIN q /\ t[i] = q[i]
    BY <2>4, <2>6, SoundPrefix
  <2>9. \A i \in DOMAIN t :
            (\E k \in DOMAIN Stream(g) : t[i] = Stream(g)[k]) \/ Backed(t[i])'
    BY <2>1, <2>8
  <2>10. Stream(g)' = t
    BY <2>5, <2>6
  <2> QED
    BY <1>0, <1>2, <2>2, <2>7, <2>8, <2>9, <2>10, AnswersFrom
<1> QED
  BY <1>1, <1>2

\* Two acknowledgements made one leave the rest in order.
LEMMA AnswersJoined ==
    ASSUME LinkInv, Next, NEW g \in Gens, sock = g,
           UNCHANGED <<session, lastAcked, nextId, sock>>, Joined(g)
    PROVE  AnswersInOrder'
<1>0. /\ TypeOK /\ NativeTypes /\ HandsFull /\ AnswersInOrder
      /\ nextId' \in Nat /\ nextId' >= nextId
  <2>1. NativeTypes /\ TypeOK /\ HandsFull /\ AnswersInOrder
    BY TypeParts DEF LinkInv
  <2> QED
    BY <2>1 DEF NativeTypes
<1>00. rpc' = rpc
  BY DEF Joined
<1>1. CASE rpc[g] = "closing"
  BY <1>00, <1>1 DEF AnswersInOrder, Listening
<1>2. CASE rpc[g] # "closing" /\ Stream(g)' = Stream(g)
  BY <1>0, <1>2, AnswersUntouched
<1>3. CASE rpc[g] # "closing" /\ Stream(g)' # Stream(g)
  <2>1. PICK a, b \in Seq(Replies), x \in Replies :
            /\ x.kind = "ack" /\ Stream(g) = a \o <<x>> \o b
            /\ Stream(g)' = a \o b
    BY <1>3, StreamJoined
  <2>2. PICK low \in Nat : low = lastAcked
    BY <1>0 DEF NativeTypes
  <2>3. 0 \notin Gens
    BY BoundsHold DEF Gens
  <2>4. Sound(a \o <<x>> \o b, low)
    BY <1>0, <1>3, <2>1, <2>2, <2>3 DEF AnswersInOrder, Listening
  <2>5. PICK t : t = a \o b
    OBVIOUS
  <2>6. t \in Seq(Replies)
    BY <2>5
  <2>7. /\ Sound(t, low)
        /\ \A i \in DOMAIN t : \E k \in DOMAIN (a \o <<x>> \o b) :
                t[i] = (a \o <<x>> \o b)[k]
    BY <2>1, <2>4, <2>5, SoundDrop
  <2>8. \A i \in DOMAIN t :
            (\E k \in DOMAIN Stream(g) : t[i] = Stream(g)[k]) \/ Backed(t[i])'
    BY <2>1, <2>7
  <2>9. Stream(g)' = t
    BY <2>1, <2>5
  <2> QED
    BY <1>0, <1>3, <2>2, <2>6, <2>7, <2>8, <2>9, AnswersFrom
<1> QED
  BY <1>1, <1>2, <1>3

\* RateLimited overtakes the queued results.
LEMMA AnswersNoticed ==
    ASSUME LinkInv, Next, NEW g \in Gens, sock = g, NEW r \in Replies,
           r.kind = "limited", Noticed(g, r),
           UNCHANGED <<session, lastAcked, nextId, sock>>
    PROVE  AnswersInOrder'
<1>0. /\ TypeOK /\ NativeTypes /\ HandsFull /\ AnswersInOrder
      /\ nextId' \in Nat /\ nextId' >= nextId
  <2>1. NativeTypes /\ TypeOK /\ HandsFull /\ AnswersInOrder
    BY TypeParts DEF LinkInv
  <2> QED
    BY <2>1 DEF NativeTypes
<1>00. rpc' = rpc
  BY DEF Noticed
<1>1. CASE rpc[g] = "closing"
  BY <1>00, <1>1 DEF AnswersInOrder, Listening
<1>2. CASE rpc[g] # "closing" /\ link[g] # "up"
  <2>1. Stream(g)' = Stream(g)
    BY <1>2, StreamNoticed
  <2> QED
    BY <1>0, <1>2, <2>1, AnswersUntouched
<1>3. CASE rpc[g] # "closing" /\ link[g] = "up"
  <2>1. PICK a, b \in Seq(Replies) :
            Stream(g) = a \o b /\ Stream(g)' = a \o <<r>> \o b
    BY <1>3, StreamNoticed
  <2>2. PICK low \in Nat : low = lastAcked
    BY <1>0 DEF NativeTypes
  <2>3. 0 \notin Gens
    BY BoundsHold DEF Gens
  <2>4. Sound(a \o b, low)
    BY <1>0, <1>3, <2>1, <2>2, <2>3 DEF AnswersInOrder, Listening
  <2>5. PICK t : t = a \o <<r>> \o b
    OBVIOUS
  <2>6. Sound(t, low)
    BY <2>4, <2>5, SoundInsert
  <2>7. PICK q, la : Inserted(a, b, r, la, q, t)
    BY <2>5 DEF Inserted
  <2>8. /\ t \in Seq(Replies) /\ t[la + 1] = r
        /\ \A i \in DOMAIN t : i # la + 1 =>
                Earlier(la, i) \in DOMAIN q /\ t[i] = q[Earlier(la, i)]
    BY <2>7, InsertedPlaces
  <2>9. q = Stream(g)
    BY <2>7, <2>1 DEF Inserted
  <2>10. \A i \in DOMAIN t :
            (\E k \in DOMAIN Stream(g) : t[i] = Stream(g)[k]) \/ Backed(t[i])'
    <3>1. TAKE i \in DOMAIN t
    <3>2. CASE i # la + 1
      BY <3>2, <2>8, <2>9
    <3>3. CASE i = la + 1
      <4>1. t[i].kind = "limited"
        BY <3>3, <2>8
      <4> QED
        BY <4>1 DEF Backed, Refusals
    <3> QED
      BY <3>2, <3>3
  <2>11. Stream(g)' = t
    BY <2>1, <2>5
  <2> QED
    BY <1>0, <1>3, <2>2, <2>6, <2>8, <2>10, <2>11, AnswersFrom
<1> QED
  BY <1>1, <1>2, <1>3

\* An acknowledgement applied leaves the rest in order after it.
LEMMA AnswersApplied ==
    ASSUME LinkInv, Next, NEW g \in Gens, sock = g,
           UNCHANGED <<session, sock, toClient, link, outgoing, results>>,
           rpc[g] = "holding", rpc' = [rpc EXCEPT ![g] = "waiting"],
           hand[g].kind = "ack", hand[g].id \in Nat, lastAcked' = hand[g].id,
           nextId' = nextId
    PROVE  AnswersInOrder'
<1>0. /\ TypeOK /\ NativeTypes /\ HandsFull /\ AnswersInOrder
      /\ nextId' \in Nat /\ nextId' >= nextId
  <2>1. NativeTypes /\ TypeOK /\ HandsFull /\ AnswersInOrder
    BY TypeParts DEF LinkInv
  <2> QED
    BY <2>1 DEF NativeTypes
<1>1. PICK q \in Seq(Replies) : q = Stream(g)
  BY <1>0, StreamType
<1>2. PICK low \in Nat, id \in Nat : low = lastAcked /\ id = hand[g].id
  BY <1>0 DEF NativeTypes
<1>3. 0 \notin Gens
  BY BoundsHold DEF Gens
<1>4. Sound(q, low)
  BY <1>0, <1>1, <1>2, <1>3 DEF AnswersInOrder, Listening
<1>5. q # <<>> /\ q[1] = hand[g]
  BY <1>0, <1>1, HeldIsFirst
<1>6. PICK t : t = Tail(q)
  OBVIOUS
<1>7. t \in Seq(Replies) /\ \A i \in DOMAIN t : i + 1 \in DOMAIN q /\ t[i] = q[i + 1]
  BY <1>5, <1>6
<1>8. Sound(t, id)
  BY <1>2, <1>4, <1>5, <1>6, SoundTail
<1>9. Stream(g)' = t
  BY <1>1, <1>6, StreamApplied
<1>10. \A i \in DOMAIN t :
          (\E k \in DOMAIN Stream(g) : t[i] = Stream(g)[k]) \/ Backed(t[i])'
  BY <1>1, <1>7
<1>11. rpc[g] # "closing" /\ lastAcked' = id
  BY <1>2
<1> QED
  BY <1>0, <1>7, <1>8, <1>9, <1>10, <1>11, AnswersFrom

\* What the handler queues continues the answers under way, and the session's
\* committed transactions stand behind it.
LEMMA ServedContinues ==
    ASSUME LinkInv, Next, NEW g \in Gens, sock = g, link[g] = "up",
           rpc[g] # "closing", NEW f \in Frames, NEW s \in Sessions,
           NEW r \in Replies, TxnTaken(g, f, s, r),
           Commits(f, s, r) \/ Declines(f, s, r)
    PROVE  Continues(Stream(g), lastAcked, r) /\ Backed(r)'
<1>0. /\ TypeOK /\ NativeTypes /\ SenderTypes /\ ServerTypes /\ NetworkTypes
      /\ HandsFull /\ Published /\ OutboxIsExact /\ HistoryIsExact
      /\ AnswersInOrder /\ FramesInOrder
  BY TypeParts DEF LinkInv
<1>00. 0 \notin Gens
  BY BoundsHold DEF Gens
<1>1. s = session
  BY <1>0, <1>00 DEF Published, TxnTaken
<1>2. PICK q \in Seq(Replies) : q = Stream(g)
  BY <1>0, StreamType
<1>3. PICK low \in Nat, done \in Nat : low = lastAcked /\ done = committed[s]
  BY <1>0 DEF NativeTypes, ServerTypes
<1>4. low <= done
  BY <1>0, <1>1, <1>3 DEF HistoryIsExact
<1>5. \A i \in DOMAIN q : q[i].kind = "ack" => q[i].id <= done
  <2>1. \A i \in DOMAIN q : Backed(q[i])
    BY <1>0, <1>00, <1>2 DEF AnswersInOrder, Listening
  <2> QED
    BY <2>1, <1>1, <1>3 DEF Backed
<1>6. \A i \in DOMAIN q : q[i].id \in Nat
  <2>1. \A i \in DOMAIN q : q[i] \in Replies
    BY <1>2, ElementOfSeq
  <2> QED
    BY <2>1 DEF Replies
<1>7. r.id \in Nat /\ f.id \in Nat
  BY DEF Replies, Frames
<1>8. UNCHANGED <<session, nextId, lastAcked>>
  BY DEF TxnTaken, native, sender, identity, outbox
<1>9. CASE Commits(f, s, r)
  <2>1. r.kind = "ack" /\ r.id = done + 1 /\ r.id = f.id
    BY <1>9, <1>3 DEF Commits
  <2>2. \A i \in DOMAIN q : q[i].kind = "ack" => q[i].id <= r.id
    BY <2>1, <1>5, <1>6
  <2>3. r.id >= low
    BY <2>1, <1>4
  <2>4. Continues(q, low, r)
    BY <2>1, <2>2, <2>3 DEF Continues, Refusals
  <2>5. committed'[session'] = r.id
    BY <1>9, <2>1, <1>1, <1>8, <1>0 DEF Commits, ServerTypes
  <2>6. /\ r.head \in DOMAIN log'
        /\ log'[r.head].s = session' /\ log'[r.head].id = r.id
    <3>1. PICK R : R = [s : Sessions, id : Nat, p : Payloads]
      OBVIOUS
    <3>2. log \in Seq(R)
      BY <3>1, <1>0 DEF ServerTypes
    <3>3. PICK e : e = [s |-> s, id |-> f.id, p |-> f.p]
      OBVIOUS
    <3>4. e \in R
      BY <3>1, <3>3, <1>7 DEF TxnTaken
    <3>5. log' = Append(log, e) /\ r.head = Len(log) + 1
      BY <3>3, <1>9 DEF Commits
    <3>6. r.head \in DOMAIN log' /\ log'[r.head] = e
      BY <3>2, <3>4, <3>5
    <3> QED
      BY <3>6, <3>3, <2>1, <1>1, <1>8
  <2>7. Backed(r)'
    BY <2>1, <2>5, <2>6, <1>7 DEF Backed, Refusals
  <2> QED
    BY <2>4, <2>7, <1>2, <1>3
<1>10. CASE Declines(f, s, r)
  <2>0. committed'[session'] = done
    BY <1>10, <1>1, <1>3, <1>8 DEF Declines
  <2>1. CASE r.kind = "ack" /\ r.id = committed[s] /\ r.head = 0
    <3>1. r.id = done
      BY <2>1, <1>3
    <3>2. Continues(q, low, r)
      BY <2>1, <3>1, <1>5, <1>4 DEF Continues, Refusals
    <3>3. Backed(r)'
      BY <2>0, <2>1, <3>1 DEF Backed, Refusals
    <3> QED
      BY <3>2, <3>3, <1>2, <1>3
  <2>2. CASE r.kind \in Refusals /\ r.id = f.id /\ f.id = committed[s] + 1
    <3>1. r.id = done + 1 /\ r.kind \notin {"ack", "unexpected"}
      BY <2>2, <1>3 DEF Refusals
    <3>2. \A i \in DOMAIN q : q[i].kind = "ack" => q[i].id < r.id
      BY <3>1, <1>5, <1>6
    <3>3. r.id > low
      BY <3>1, <1>4
    <3>4. Continues(q, low, r)
      BY <2>2, <3>1, <3>2, <3>3 DEF Continues, Stops
    <3>5. r.id < nextId
      <4>1. f.id \in DOMAIN versions[session]
        BY <1>1 DEF TxnTaken, Known
      <4>2. versions[session] \in Seq(Seq(Payloads))
        BY <1>0 DEF ServerTypes, SenderTypes
      <4>3. f.id <= Len(versions[session])
        BY <4>1, <4>2
      <4>4. Len(versions[session]) = nextId - 1 /\ nextId \in Nat
        BY <1>0 DEF OutboxIsExact, NativeTypes
      <4> QED
        BY <4>3, <4>4, <2>2, <1>7
    <3>6. Backed(r)'
      BY <3>1, <3>5, <1>8 DEF Backed
    <3> QED
      BY <3>4, <3>6, <1>2, <1>3
  <2>3. CASE r.kind = "unexpected" /\ f.id > committed[s] + 1
    <3>1. HasStop(q)
      <4>1. SUFFICES ASSUME ~HasStop(q) PROVE FALSE
        OBVIOUS
      <4>2. Gapless(toServer[g], done)
        BY <4>1, <1>0, <1>00, <1>1, <1>2, <1>3 DEF FramesInOrder, Listening
      <4>3. toServer[g] \in Seq(Frames) /\ toServer[g] # <<>> /\ f = toServer[g][1]
        BY <1>0 DEF NetworkTypes, TxnTaken
      <4>4. 1 \in DOMAIN toServer[g]
        BY <4>3
      <4>5. f.id <= 1 + done
        BY <4>2, <4>3, <4>4 DEF Gapless
      <4> QED
        BY <4>5, <2>3, <1>3, <1>7
    <3>2. Continues(q, low, r)
      BY <2>3, <3>1 DEF Continues, Refusals
    <3>3. Backed(r)'
      BY <2>3 DEF Backed, Refusals
    <3> QED
      BY <3>2, <3>3, <1>2, <1>3
  <2> QED
    BY <1>10, <2>1, <2>2, <2>3 DEF Declines
<1> QED
  BY <1>9, <1>10

\* A connection starts with the whole outbox to send.
LEMMA CursorAtStartKept ==
    ASSUME LinkInv, Next
    PROVE  CursorAtStart'
<1>0. /\ TypeOK /\ NativeTypes /\ OutboxIsExact /\ Attempting /\ CursorAtStart
  BY TypeParts DEF LinkInv
<1>1. CASE BeginConnection
  <2>1. unsent' = 0
    BY <1>1, <1>0 DEF BeginConnection, BeginSession, MarkAllUnsent
  <2> QED
    BY <2>1 DEF CursorAtStart
<1>2. CASE AttemptFails
  <2>1. attempt' \notin {"hello", "accepted"}
    BY <1>2, <1>0 DEF AttemptFails
  <2> QED
    BY <2>1 DEF CursorAtStart
<1>3. CASE AcceptHello
  <2>1. PICK id \in Nat : HighwaterValid(id) /\ AcknowledgeOutbox(id)
    BY <1>3, HelloAccepted
  <2>2. Removed(id) \in 0..Len(queue) /\ Len(queue) \in Nat
    BY <2>1, <1>0, RemovedIsPrefix DEF NativeTypes
  <2>3. unsent = 0
    BY <1>3, <1>0 DEF AcceptHello, CursorAtStart
  <2>4. unsent' = 0
    BY <2>1, <2>2, <2>3 DEF AcknowledgeOutbox, CursorAfter
  <2> QED
    BY <2>4 DEF CursorAtStart
<1>4. CASE Publish
  <2>1. attempt' \notin {"hello", "accepted"}
    BY <1>4, <1>0 DEF Publish
  <2> QED
    BY <2>1 DEF CursorAtStart
<1>5. CASE ReplayNext
  <2>1. attempt' \notin {"hello", "accepted"}
    BY <1>5, <1>0 DEF ReplayNext, sender, connecting
  <2> QED
    BY <2>1 DEF CursorAtStart
<1>6. CASE ReplayDone
  <2>1. attempt' \notin {"hello", "accepted"}
    BY <1>6, <1>0 DEF ReplayDone
  <2> QED
    BY <2>1 DEF CursorAtStart
<1>7. CASE ReplayFails
  <2>1. attempt' \notin {"hello", "accepted"}
    BY <1>7, <1>0 DEF ReplayFails
  <2> QED
    BY <2>1 DEF CursorAtStart
<1>8. CASE FinishSend
  <2>1. UNCHANGED <<attempt, unsent>>
    BY <1>8 DEF FinishSend, native, outbox, sender, connecting
  <2> QED
    BY <2>1, <1>0 DEF CursorAtStart
<1>9. CASE SendRaises
  <2>1. unsent' = 0 \/ UNCHANGED <<attempt, unsent>>
    BY <1>9 DEF SendRaises, Close, EndSession, MarkAllUnsent, connecting
  <2> QED
    BY <2>1, <1>0 DEF CursorAtStart
<1>10. CASE WriterClaim
  <2>1. attempt' \notin {"hello", "accepted"}
    BY <1>10, <1>0 DEF WriterClaim, connecting, Attempting
  <2> QED
    BY <2>1 DEF CursorAtStart
<1>11. CASE WriterSend
  <2>1. UNCHANGED <<attempt, unsent>>
    BY <1>11 DEF WriterSend, native, outbox, sender, connecting
  <2> QED
    BY <2>1, <1>0 DEF CursorAtStart
<1>12. CASE WriterRaises
  <2>1. unsent' = 0
    BY <1>12, <1>0 DEF WriterRaises, Close, EndSession, MarkAllUnsent
  <2> QED
    BY <2>1 DEF CursorAtStart
<1>13. ASSUME NEW p \in Payloads, SendEvents(p) PROVE CursorAtStart'
  <2>1. UNCHANGED <<attempt, unsent>>
    BY <1>13 DEF SendEvents, native, outbox, sender, connecting, AppendNext
  <2> QED
    BY <2>1, <1>0 DEF CursorAtStart
<1>14. ASSUME NEW p \in Payloads, RepairRejectedTransaction(p)
       PROVE  CursorAtStart'
  <2>1. UNCHANGED <<attempt, unsent>>
    BY <1>14 DEF RepairRejectedTransaction, native, outbox, sender,
       connecting, RepairRejected
  <2> QED
    BY <2>1, <1>0 DEF CursorAtStart
<1>15. CASE AbandonRejectedSession
  <2>1. unsent' = 0
    BY <1>15, <1>0 DEF AbandonRejectedSession, ResetSession
  <2> QED
    BY <2>1 DEF CursorAtStart
<1>16. CASE CancelConnect
  <2>1. UNCHANGED <<attempt, unsent>>
    BY <1>16 DEF CancelConnect, native, outbox, sender, connecting
  <2> QED
    BY <2>1, <1>0 DEF CursorAtStart
<1>17. CASE Disconnect
  <2>1. unsent' = 0
    BY <1>17, <1>0 DEF Disconnect, Close, EndSession, MarkAllUnsent
  <2> QED
    BY <2>1 DEF CursorAtStart
<1>18. ASSUME NEW g \in Gens, ServeError(g) PROVE CursorAtStart'
  <2>1. UNCHANGED <<attempt, unsent>>
    BY <1>18 DEF ServeError, native, outbox, sender, connecting
  <2> QED
    BY <2>1, <1>0 DEF CursorAtStart
<1>19. ASSUME NEW g \in Gens, ServeLimited(g) PROVE CursorAtStart'
  <2>1. UNCHANGED <<attempt, unsent>>
    BY <1>19 DEF ServeLimited, native, outbox, sender, connecting
  <2> QED
    BY <2>1, <1>0 DEF CursorAtStart
<1>20. ASSUME NEW g \in Gens, Break(g) PROVE CursorAtStart'
  <2>1. UNCHANGED <<attempt, unsent>>
    BY <1>20 DEF Break, native, outbox, sender, connecting
  <2> QED
    BY <2>1, <1>0 DEF CursorAtStart
<1>21. CASE Restart
  <2>1. UNCHANGED <<attempt, unsent>>
    BY <1>21 DEF Restart, native, outbox, sender, connecting
  <2> QED
    BY <2>1, <1>0 DEF CursorAtStart
<1>22. CASE EditGraph
  <2>1. UNCHANGED <<attempt, unsent>>
    BY <1>22 DEF EditGraph, native, outbox, sender, connecting
  <2> QED
    BY <2>1, <1>0 DEF CursorAtStart
<1>23. ASSUME NEW g \in Gens, ReceiveResult(g) PROVE CursorAtStart'
  <2>1. UNCHANGED <<attempt, unsent>>
    BY <1>23 DEF ReceiveResult, native, outbox, sender, connecting
  <2> QED
    BY <2>1, <1>0 DEF CursorAtStart
<1>24. ASSUME NEW g \in Gens, ReceiveRaises(g) PROVE CursorAtStart'
  <2>1. UNCHANGED <<attempt, unsent>>
    BY <1>24 DEF ReceiveRaises, native, outbox, sender, connecting
  <2> QED
    BY <2>1, <1>0 DEF CursorAtStart
<1>25. ASSUME NEW g \in Gens, ApplyResult(g) PROVE CursorAtStart'
  <2>1. CASE sock # g
    BY <1>25, <2>1, <1>0, ResultApplied DEF CursorAtStart, outbox, connecting
  <2>2. CASE sock = g
    <3>0. sock # 0
      BY <2>2, BoundsHold DEF Gens
    <3>1. attempt \notin {"hello", "accepted"} /\ attempt' = attempt
      BY <1>25, <3>0, <1>0, ResultApplied DEF Attempting, connecting
    <3> QED
      BY <3>1 DEF CursorAtStart
  <2> QED
    BY <2>1, <2>2
<1>26. ASSUME NEW g \in Gens, ApplyLimited(g) PROVE CursorAtStart'
  <2>1. UNCHANGED <<attempt, unsent>>
    BY <1>26 DEF ApplyLimited, native, outbox, sender, connecting
  <2> QED
    BY <2>1, <1>0 DEF CursorAtStart
<1>27. ASSUME NEW g \in Gens, CloseReader(g) PROVE CursorAtStart'
  <2>1. unsent' = 0 \/ UNCHANGED <<attempt, unsent>>
    BY <1>27 DEF CloseReader, Close, EndSession, MarkAllUnsent, connecting
  <2> QED
    BY <2>1, <1>0 DEF CursorAtStart
<1>28. ASSUME NEW g \in Gens, ServeHello(g) PROVE CursorAtStart'
  <2>1. UNCHANGED <<attempt, unsent>>
    BY <1>28 DEF ServeHello, native, outbox, sender, connecting
  <2> QED
    BY <2>1, <1>0 DEF CursorAtStart
<1>29. ASSUME NEW g \in Gens, ServeTxn(g) PROVE CursorAtStart'
  <2>1. UNCHANGED <<attempt, unsent>>
    BY <1>29 DEF ServeTxn, native, outbox, sender, connecting
  <2> QED
    BY <2>1, <1>0 DEF CursorAtStart
<1>30. ASSUME NEW g \in Gens, ResolveResult(g) PROVE CursorAtStart'
  <2>1. UNCHANGED <<attempt, unsent>>
    BY <1>30 DEF ResolveResult, native, outbox, sender, connecting
  <2> QED
    BY <2>1, <1>0 DEF CursorAtStart
<1>31. ASSUME NEW g \in Gens, SendResults(g) PROVE CursorAtStart'
  <2>1. UNCHANGED <<attempt, unsent>>
    BY <1>31 DEF SendResults, native, outbox, sender, connecting
  <2> QED
    BY <2>1, <1>0 DEF CursorAtStart
<1> QED
  BY <1>0, <1>1, <1>2, <1>3, <1>4, <1>5, <1>6, <1>7, <1>8, <1>9, <1>10,
     <1>11, <1>12, <1>13, <1>14, <1>15, <1>16, <1>17, <1>18, <1>19, <1>20,
     <1>21, <1>22, <1>23, <1>24, <1>25, <1>26, <1>27, <1>28, <1>29, <1>30,
     <1>31, StepCases

\* The published connection is answered in order.
LEMMA AnswersInOrderKept ==
    ASSUME LinkInv, Next
    PROVE  AnswersInOrder'
<1>0. /\ TypeOK /\ NativeTypes /\ SenderTypes /\ ReaderTypes /\ NetworkTypes
      /\ HandsFull /\ Attempting /\ Published /\ OutboxIsExact
      /\ AnswersInOrder
  BY TypeParts DEF LinkInv
<1>1. CASE BeginConnection
  <2>1. sock' = 0
    BY <1>1, <1>0 DEF BeginConnection
  <2> QED
    BY <2>1 DEF AnswersInOrder, Listening
<1>2. CASE AttemptFails
  <2>1. sock' = 0
    BY <1>2, <1>0 DEF AttemptFails, Attempting
  <2> QED
    BY <2>1 DEF AnswersInOrder, Listening
<1>3. CASE AcceptHello
  <2>1. sock' = 0
    BY <1>3, <1>0, HelloAccepted DEF AcceptHello, Attempting
  <2> QED
    BY <2>1 DEF AnswersInOrder, Listening
<1>4. CASE Publish
  <2>1. /\ attempt = "accepted" /\ sock' = gen
        /\ UNCHANGED <<toClient, link, outgoing, results, hand>>
        /\ rpc' = rpc \/ rpc' = [rpc EXCEPT ![gen] = "waiting"]
    BY <1>4 DEF Publish, network, handler
  <2>2. /\ gen \in Gens /\ rpc[gen] = "none" /\ toClient[gen] = <<>>
        /\ outgoing[gen] = <<>> /\ results[gen] = <<>>
    BY <2>1, <1>0 DEF Attempting
  <2>3. PICK g : g = gen
    OBVIOUS
  <2>4. rpc'[g] # "holding"
    BY <2>1, <2>2, <2>3, <1>0 DEF ReaderTypes
  <2>5. Held(g)' = <<>>
    BY <2>4 DEF Held
  <2>6. <<>> \o <<>> = <<>>
    OBVIOUS
  <2>7. Coming(g)' = <<>>
    BY <2>1, <2>2, <2>3, <2>6 DEF Coming
  <2>8. Stream(g)' = <<>>
    BY <2>1, <2>2, <2>3, <2>5, <2>6, <2>7 DEF Stream
  <2>9. DOMAIN Stream(sock)' = {}
    <3>1. DOMAIN <<>> = {}
      OBVIOUS
    <3> QED
      BY <2>1, <2>3, <2>8, <3>1 DEF Stream, Held, Coming
  <2>10. Sound(Stream(sock), lastAcked)'
    BY <2>9 DEF Sound
  <2> QED
    BY <2>9, <2>10 DEF AnswersInOrder
<1>5. CASE ReplayNext
  <2>1. UNCHANGED <<session, lastAcked>> /\ sock' \in {0, sock}
        /\ nextId' \in Nat /\ nextId' >= nextId
    BY <1>5, <1>0 DEF ReplayNext, NativeTypes, native, outbox, sender, identity
  <2>2. ASSUME NEW c \in Gens, c = sock, sock' = c
        PROVE  rpc'[c] = "closing" \/ (rpc[c] # "closing" /\ Stream(c)' = Stream(c))
    <3>1. /\ rpc'[c] = rpc[c] /\ hand'[c] = hand[c] /\ toClient'[c] = toClient[c]
          /\ link'[c] = link[c] /\ outgoing'[c] = outgoing[c]
          /\ results'[c] = results[c]
      BY <1>5, <2>2, <1>0 DEF ReplayNext, sender, reader, network, handler
    <3> QED
      BY <3>1, StreamSame
  <2> QED
    BY <2>1, <2>2, AnswersUntouched
<1>6. CASE ReplayDone
  <2>1. UNCHANGED <<session, lastAcked>> /\ sock' \in {0, sock}
        /\ nextId' \in Nat /\ nextId' >= nextId
    BY <1>6, <1>0 DEF ReplayDone, NativeTypes, native, outbox, sender, identity
  <2>2. ASSUME NEW c \in Gens, c = sock, sock' = c
        PROVE  rpc'[c] = "closing" \/ (rpc[c] # "closing" /\ Stream(c)' = Stream(c))
    <3>1. rpc[c] = "none" /\ rpc'[c] = "waiting"
      BY <1>6, <2>2, <1>0 DEF ReplayDone, Attempting, ReaderTypes
    <3>2. UNCHANGED <<hand, toClient, link, outgoing, results>>
      BY <1>6 DEF ReplayDone, network, handler
    <3> QED
      BY <3>1, <3>2 DEF Stream, Held, Coming
  <2> QED
    BY <2>1, <2>2, AnswersUntouched
<1>7. CASE ReplayFails
  <2>1. sock' = 0
    BY <1>7, <1>0 DEF ReplayFails, Attempting, Close
  <2> QED
    BY <2>1 DEF AnswersInOrder, Listening
<1>8. CASE FinishSend
  <2>1. UNCHANGED <<session, lastAcked>> /\ sock' \in {0, sock}
        /\ nextId' \in Nat /\ nextId' >= nextId
    BY <1>8, <1>0 DEF FinishSend, NativeTypes, native, outbox, sender, identity
  <2>2. ASSUME NEW c \in Gens, c = sock, sock' = c
        PROVE  rpc'[c] = "closing" \/ (rpc[c] # "closing" /\ Stream(c)' = Stream(c))
    <3>1. /\ rpc'[c] = rpc[c] /\ hand'[c] = hand[c] /\ toClient'[c] = toClient[c]
          /\ link'[c] = link[c] /\ outgoing'[c] = outgoing[c]
          /\ results'[c] = results[c]
      BY <1>8, <2>2, <1>0 DEF FinishSend, sender, reader, network, handler
    <3> QED
      BY <3>1, StreamSame
  <2> QED
    BY <2>1, <2>2, AnswersUntouched
<1>9. CASE SendRaises
  <2>1. UNCHANGED <<session, lastAcked>> /\ sock' \in {0, sock}
        /\ nextId' \in Nat /\ nextId' >= nextId
    BY <1>9, <1>0 DEF SendRaises, NativeTypes, native, outbox, sender,
       identity, Close
  <2>2. ASSUME NEW c \in Gens, c = sock, sock' = c
        PROVE  rpc'[c] = "closing" \/ (rpc[c] # "closing" /\ Stream(c)' = Stream(c))
    <3>1. /\ rpc'[c] = rpc[c] /\ hand'[c] = hand[c] /\ toClient'[c] = toClient[c]
          /\ link'[c] = link[c] /\ outgoing'[c] = outgoing[c]
          /\ results'[c] = results[c]
      BY <1>9, <2>2, <1>0 DEF SendRaises, sender, reader, network, handler,
         Close, ReaderTypes, SenderTypes, Gens
    <3> QED
      BY <3>1, StreamSame
  <2> QED
    BY <2>1, <2>2, AnswersUntouched
<1>10. CASE WriterClaim
  <2>1. UNCHANGED <<session, lastAcked>> /\ sock' \in {0, sock}
        /\ nextId' \in Nat /\ nextId' >= nextId
    BY <1>10, <1>0 DEF WriterClaim, NativeTypes, native, outbox, sender,
       identity
  <2>2. ASSUME NEW c \in Gens, c = sock, sock' = c
        PROVE  rpc'[c] = "closing" \/ (rpc[c] # "closing" /\ Stream(c)' = Stream(c))
    <3>1. /\ rpc'[c] = rpc[c] /\ hand'[c] = hand[c] /\ toClient'[c] = toClient[c]
          /\ link'[c] = link[c] /\ outgoing'[c] = outgoing[c]
          /\ results'[c] = results[c]
      BY <1>10, <2>2, <1>0 DEF WriterClaim, sender, reader, network, handler
    <3> QED
      BY <3>1, StreamSame
  <2> QED
    BY <2>1, <2>2, AnswersUntouched
<1>11. CASE WriterSend
  <2>1. UNCHANGED <<session, lastAcked>> /\ sock' \in {0, sock}
        /\ nextId' \in Nat /\ nextId' >= nextId
    BY <1>11, <1>0 DEF WriterSend, NativeTypes, native, outbox, sender,
       identity
  <2>2. ASSUME NEW c \in Gens, c = sock, sock' = c
        PROVE  rpc'[c] = "closing" \/ (rpc[c] # "closing" /\ Stream(c)' = Stream(c))
    <3>1. /\ rpc'[c] = rpc[c] /\ hand'[c] = hand[c] /\ toClient'[c] = toClient[c]
          /\ link'[c] = link[c] /\ outgoing'[c] = outgoing[c]
          /\ results'[c] = results[c]
      BY <1>11, <2>2, <1>0 DEF WriterSend, sender, reader, network, handler
    <3> QED
      BY <3>1, StreamSame
  <2> QED
    BY <2>1, <2>2, AnswersUntouched
<1>12. CASE WriterRaises
  <2>1. sock' = 0
    BY <1>12, <1>0 DEF WriterRaises, Close
  <2> QED
    BY <2>1 DEF AnswersInOrder, Listening
<1>13. ASSUME NEW p \in Payloads, SendEvents(p) PROVE AnswersInOrder'
  <2>1. UNCHANGED <<session, lastAcked>> /\ sock' \in {0, sock}
        /\ nextId' \in Nat /\ nextId' >= nextId
    BY <1>13, <1>0 DEF SendEvents, NativeTypes, native, outbox, sender,
       identity, AppendNext
  <2>2. ASSUME NEW c \in Gens, c = sock, sock' = c
        PROVE  rpc'[c] = "closing" \/ (rpc[c] # "closing" /\ Stream(c)' = Stream(c))
    <3>1. /\ rpc'[c] = rpc[c] /\ hand'[c] = hand[c] /\ toClient'[c] = toClient[c]
          /\ link'[c] = link[c] /\ outgoing'[c] = outgoing[c]
          /\ results'[c] = results[c]
      BY <1>13, <2>2, <1>0 DEF SendEvents, sender, reader, network, handler
    <3> QED
      BY <3>1, StreamSame
  <2> QED
    BY <2>1, <2>2, AnswersUntouched
<1>14. ASSUME NEW p \in Payloads, RepairRejectedTransaction(p)
       PROVE  AnswersInOrder'
  <2>1. sock' = 0
    BY <1>14, <1>0 DEF RepairRejectedTransaction, CloseForRecovery
  <2> QED
    BY <2>1 DEF AnswersInOrder, Listening
<1>15. CASE AbandonRejectedSession
  <2>1. sock' = 0
    BY <1>15, <1>0 DEF AbandonRejectedSession, CloseForRecovery
  <2> QED
    BY <2>1 DEF AnswersInOrder, Listening
<1>16. CASE CancelConnect
  <2>1. sock' = 0
    BY <1>16, <1>0 DEF CancelConnect, Attempting
  <2> QED
    BY <2>1 DEF AnswersInOrder, Listening
<1>17. CASE Disconnect
  <2>1. sock' = 0
    BY <1>17, <1>0 DEF Disconnect, Close
  <2> QED
    BY <2>1 DEF AnswersInOrder, Listening
<1>18. ASSUME NEW g \in Gens, ServeError(g) PROVE AnswersInOrder'
  <2>1. UNCHANGED <<session, lastAcked, nextId, sock>>
    BY <1>18 DEF ServeError, native, outbox, sender, identity
  <2>2. nextId' \in Nat /\ nextId' >= nextId
    BY <2>1, <1>0 DEF NativeTypes
  <2>3. CASE sock # g
    <3>1. ASSUME NEW c \in Gens, c = sock
          PROVE  /\ rpc'[c] = rpc[c]
                 /\ rpc'[c] = "closing" \/ (rpc[c] # "closing" /\ Stream(c)' = Stream(c))
      <4>1. /\ rpc'[c] = rpc[c] /\ hand'[c] = hand[c] /\ toClient'[c] = toClient[c]
            /\ link'[c] = link[c] /\ outgoing'[c] = outgoing[c]
            /\ results'[c] = results[c]
        BY <1>18, <2>3, <3>1, <1>0 DEF ServeError, sender, reader, network,
           handler, ReaderTypes, NetworkTypes
      <4> QED
        BY <4>1, StreamSame
    <3> QED
      BY <2>1, <2>2, <3>1, AnswersUntouched
  <2>4. CASE sock = g
    <3>1. PICK r \in Replies : r = Reply("error", 0, 0)
      BY DEF Reply, Replies
    <3>2. Queued(g, r)
      BY <1>18, <3>1 DEF ServeError, Queued, sender, reader
    <3>3. Continues(Stream(g), lastAcked, r) /\ Backed(r)'
      BY <3>1 DEF Reply, Continues, Backed, Refusals, Stops
    <3> QED
      BY <2>1, <2>4, <3>2, <3>3, AnswersServed
  <2> QED
    BY <2>3, <2>4
<1>19. ASSUME NEW g \in Gens, ServeLimited(g) PROVE AnswersInOrder'
  <2>1. UNCHANGED <<session, lastAcked, nextId, sock>>
    BY <1>19 DEF ServeLimited, native, outbox, sender, identity
  <2>2. nextId' \in Nat /\ nextId' >= nextId
    BY <2>1, <1>0 DEF NativeTypes
  <2>3. CASE sock # g
    <3>1. ASSUME NEW c \in Gens, c = sock
          PROVE  /\ rpc'[c] = rpc[c]
                 /\ rpc'[c] = "closing" \/ (rpc[c] # "closing" /\ Stream(c)' = Stream(c))
      <4>1. /\ rpc'[c] = rpc[c] /\ hand'[c] = hand[c] /\ toClient'[c] = toClient[c]
            /\ link'[c] = link[c] /\ outgoing'[c] = outgoing[c]
            /\ results'[c] = results[c]
        BY <1>19, <2>3, <3>1, <1>0 DEF ServeLimited, sender, reader, network,
           handler, Answer, ReaderTypes, NetworkTypes
      <4> QED
        BY <4>1, StreamSame
    <3> QED
      BY <2>1, <2>2, <3>1, AnswersUntouched
  <2>4. CASE sock = g
    <3>1. PICK r \in Replies : r = Reply("limited", 0, 0)
      BY DEF Reply, Replies
    <3>2. Noticed(g, r) /\ r.kind = "limited"
      BY <1>19, <3>1 DEF ServeLimited, Noticed, sender, reader, handler, Reply
    <3> QED
      BY <2>1, <2>4, <3>2, AnswersNoticed
  <2> QED
    BY <2>3, <2>4
<1>20. ASSUME NEW g \in Gens, Break(g) PROVE AnswersInOrder'
  <2>1. UNCHANGED <<session, lastAcked, nextId, sock>>
    BY <1>20 DEF Break, native, outbox, sender, identity
  <2>2. nextId' \in Nat /\ nextId' >= nextId
    BY <2>1, <1>0 DEF NativeTypes
  <2>3. CASE sock # g
    <3>1. ASSUME NEW c \in Gens, c = sock
          PROVE  /\ rpc'[c] = rpc[c]
                 /\ rpc'[c] = "closing" \/ (rpc[c] # "closing" /\ Stream(c)' = Stream(c))
      <4>1. /\ rpc'[c] = rpc[c] /\ hand'[c] = hand[c] /\ toClient'[c] = toClient[c]
            /\ link'[c] = link[c] /\ outgoing'[c] = outgoing[c]
            /\ results'[c] = results[c]
        BY <1>20, <2>3, <3>1, <1>0 DEF Break, sender, reader, network, handler,
           ReaderTypes, NetworkTypes
      <4> QED
        BY <4>1, StreamSame
    <3> QED
      BY <2>1, <2>2, <3>1, AnswersUntouched
  <2>4. CASE sock = g
    <3>1. UNCHANGED <<rpc, hand>> /\ link'[g] # "up"
      BY <1>20, <1>0 DEF Break, sender, reader, NetworkTypes
    <3>2. PICK j \in 0..Len(toClient[g]) :
            toClient' = [toClient EXCEPT ![g] = SubSeq(@, 1, j)]
      BY <1>20 DEF Break
    <3>3. toClient'[g] = SubSeq(toClient[g], 1, j)
      BY <3>2, <1>0 DEF NetworkTypes
    <3>4. \E n \in 0..Len(Stream(g)) : Stream(g)' = SubSeq(Stream(g), 1, n)
      BY <3>1, <3>3, StreamCut
    <3> QED
      BY <2>1, <2>4, <3>1, <3>4, AnswersCut
  <2> QED
    BY <2>3, <2>4
<1>21. CASE Restart
  <2>1. UNCHANGED <<session, lastAcked, nextId, sock, rpc, hand, toClient>>
    BY <1>21 DEF Restart, native, outbox, sender, identity, reader
  <2>2. nextId' \in Nat /\ nextId' >= nextId
    BY <2>1, <1>0 DEF NativeTypes
  <2>3. CASE sock = 0
    BY <2>1, <2>3 DEF AnswersInOrder, Listening
  <2>4. CASE sock # 0
    <3>1. PICK g \in Gens : g = sock
      BY <2>4, <1>0 DEF SenderTypes
    <3>2. link'[g] # "up"
      BY <1>21 DEF Restart
    <3>3. toClient[g] \in Seq(Replies)
      BY <1>0 DEF NetworkTypes
    <3>4. PICK j \in 0..Len(toClient[g]) : j = Len(toClient[g])
      BY <3>3
    <3>5. toClient'[g] = SubSeq(toClient[g], 1, j)
      BY <2>1, <3>3, <3>4, SubSeqFull
    <3>6. \E n \in 0..Len(Stream(g)) : Stream(g)' = SubSeq(Stream(g), 1, n)
      BY <2>1, <3>2, <3>5, StreamCut
    <3> QED
      BY <2>1, <3>1, <3>6, AnswersCut
  <2> QED
    BY <2>3, <2>4
<1>22. CASE EditGraph
  <2>1. UNCHANGED <<session, lastAcked>> /\ sock' \in {0, sock}
        /\ nextId' \in Nat /\ nextId' >= nextId
    BY <1>22, <1>0 DEF EditGraph, NativeTypes, native, outbox, sender, identity
  <2>2. ASSUME NEW c \in Gens, c = sock, sock' = c
        PROVE  rpc'[c] = "closing" \/ (rpc[c] # "closing" /\ Stream(c)' = Stream(c))
    <3>1. /\ rpc'[c] = rpc[c] /\ hand'[c] = hand[c] /\ toClient'[c] = toClient[c]
          /\ link'[c] = link[c] /\ outgoing'[c] = outgoing[c]
          /\ results'[c] = results[c]
      BY <1>22, <2>2, <1>0 DEF EditGraph, sender, reader, network, handler
    <3> QED
      BY <3>1, StreamSame
  <2> QED
    BY <2>1, <2>2, AnswersUntouched
<1>23. ASSUME NEW g \in Gens, ReceiveResult(g) PROVE AnswersInOrder'
  <2>1. UNCHANGED <<session, lastAcked>> /\ sock' \in {0, sock}
        /\ nextId' \in Nat /\ nextId' >= nextId
    BY <1>23, <1>0 DEF ReceiveResult, NativeTypes, native, outbox, sender,
       identity
  <2>2. ASSUME NEW c \in Gens, c = sock, sock' = c
        PROVE  rpc'[c] = "closing" \/ (rpc[c] # "closing" /\ Stream(c)' = Stream(c))
    <3>1. CASE c = g
      <4>1. rpc[c] # "closing"
        BY <1>23, <3>1 DEF ReceiveResult
      <4> QED
        BY <1>23, <3>1, <4>1, StreamReceived
    <3>2. CASE c # g
      <4>1. /\ rpc'[c] = rpc[c] /\ hand'[c] = hand[c] /\ toClient'[c] = toClient[c]
            /\ link'[c] = link[c] /\ outgoing'[c] = outgoing[c]
            /\ results'[c] = results[c]
        BY <1>23, <3>2, <1>0 DEF ReceiveResult, sender, reader, network,
           handler, ReaderTypes, NetworkTypes
      <4> QED
        BY <4>1, StreamSame
    <3> QED
      BY <3>1, <3>2
  <2> QED
    BY <2>1, <2>2, AnswersUntouched
<1>24. ASSUME NEW g \in Gens, ReceiveRaises(g) PROVE AnswersInOrder'
  <2>1. UNCHANGED <<session, lastAcked>> /\ sock' \in {0, sock}
        /\ nextId' \in Nat /\ nextId' >= nextId
    BY <1>24, <1>0 DEF ReceiveRaises, NativeTypes, native, outbox, sender,
       identity
  <2>2. ASSUME NEW c \in Gens, c = sock, sock' = c
        PROVE  rpc'[c] = "closing" \/ (rpc[c] # "closing" /\ Stream(c)' = Stream(c))
    <3>1. CASE c = g
      <4>1. rpc'[c] = "closing"
        BY <1>24, <3>1, <1>0 DEF ReceiveRaises, ReaderTypes
      <4> QED
        BY <4>1
    <3>2. CASE c # g
      <4>1. /\ rpc'[c] = rpc[c] /\ hand'[c] = hand[c] /\ toClient'[c] = toClient[c]
            /\ link'[c] = link[c] /\ outgoing'[c] = outgoing[c]
            /\ results'[c] = results[c]
        BY <1>24, <3>2, <1>0 DEF ReceiveRaises, sender, reader, network,
           handler, ReaderTypes, NetworkTypes
      <4> QED
        BY <4>1, StreamSame
    <3> QED
      BY <3>1, <3>2
  <2> QED
    BY <2>1, <2>2, AnswersUntouched
<1>25. ASSUME NEW g \in Gens, ApplyResult(g) PROVE AnswersInOrder'
  <2>1. /\ rpc[g] = "holding" /\ hand' = [hand EXCEPT ![g] = None]
        /\ UNCHANGED <<session, sock, toClient, link, outgoing, results>>
    BY <1>25, ResultApplied DEF identity, network, handler
  <2>2. CASE sock # g
    <3>1. UNCHANGED <<lastAcked, nextId>> /\ rpc' = [rpc EXCEPT ![g] = "waiting"]
      BY <1>25, <2>2, ResultApplied DEF outbox
    <3>2. nextId' \in Nat /\ nextId' >= nextId
      BY <3>1, <1>0 DEF NativeTypes
    <3>3. ASSUME NEW c \in Gens, c = sock
          PROVE  rpc'[c] = "closing" \/ (rpc[c] # "closing" /\ Stream(c)' = Stream(c))
      <4>1. rpc'[c] = rpc[c] /\ hand'[c] = hand[c]
        BY <2>1, <2>2, <3>1, <3>3, <1>0 DEF ReaderTypes
      <4> QED
        BY <4>1, <2>1, StreamSame
    <3> QED
      BY <2>1, <3>1, <3>2, <3>3, AnswersUntouched
  <2>3. CASE sock = g /\ rpc' = [rpc EXCEPT ![g] = "closing"]
    <3>1. rpc'[sock'] = "closing"
      BY <2>1, <2>3, <1>0 DEF ReaderTypes
    <3> QED
      BY <3>1 DEF AnswersInOrder, Listening
  <2>4. CASE sock = g /\ rpc' = [rpc EXCEPT ![g] = "waiting"]
    <3>1. rpc'[g] = "waiting"
      BY <2>4, <1>0 DEF ReaderTypes
    <3>2. rpc' # [rpc EXCEPT ![g] = "closing"]
      BY <3>1, <1>0 DEF ReaderTypes
    <3>3. /\ hand[g] \in Replies /\ hand[g].kind = "ack"
          /\ HighwaterValid(hand[g].id) /\ AcknowledgeOutbox(hand[g].id)
      BY <1>25, <2>4, <3>2, ResultApplied
    <3>4. PICK id \in Nat : id = hand[g].id
      BY <3>3 DEF Replies
    <3>5. lastAcked' = id /\ nextId' = nextId
      BY <3>3, <3>4, <1>0, OutboxAcknowledged
    <3> QED
      BY <2>1, <2>4, <3>3, <3>4, <3>5, AnswersApplied
  <2> QED
    BY <1>25, <2>2, <2>3, <2>4, ResultApplied
<1>26. ASSUME NEW g \in Gens, ApplyLimited(g) PROVE AnswersInOrder'
  <2>1. UNCHANGED <<session, lastAcked>> /\ sock' \in {0, sock}
        /\ nextId' \in Nat /\ nextId' >= nextId
    BY <1>26, <1>0 DEF ApplyLimited, NativeTypes, native, outbox, sender,
       identity
  <2>2. ASSUME NEW c \in Gens, c = sock, sock' = c
        PROVE  rpc'[c] = "closing" \/ (rpc[c] # "closing" /\ Stream(c)' = Stream(c))
    <3>1. CASE c = g
      <4>1. rpc'[c] = "closing"
        BY <1>26, <3>1, <1>0 DEF ApplyLimited, AfterLimited, ReaderTypes
      <4> QED
        BY <4>1
    <3>2. CASE c # g
      <4>1. /\ rpc'[c] = rpc[c] /\ hand'[c] = hand[c] /\ toClient'[c] = toClient[c]
            /\ link'[c] = link[c] /\ outgoing'[c] = outgoing[c]
            /\ results'[c] = results[c]
        BY <1>26, <3>2, <1>0 DEF ApplyLimited, sender, reader, network,
           handler, ReaderTypes, NetworkTypes
      <4> QED
        BY <4>1, StreamSame
    <3> QED
      BY <3>1, <3>2
  <2> QED
    BY <2>1, <2>2, AnswersUntouched
<1>27. ASSUME NEW g \in Gens, CloseReader(g) PROVE AnswersInOrder'
  <2>1. UNCHANGED <<session, lastAcked>> /\ sock' \in {0, sock}
        /\ nextId' \in Nat /\ nextId' >= nextId
    BY <1>27, <1>0 DEF CloseReader, NativeTypes, native, outbox, sender,
       identity, Close
  <2>2. ASSUME NEW c \in Gens, c = sock, sock' = c
        PROVE  rpc'[c] = "closing" \/ (rpc[c] # "closing" /\ Stream(c)' = Stream(c))
    <3>1. /\ rpc'[c] = rpc[c] /\ hand'[c] = hand[c] /\ toClient'[c] = toClient[c]
          /\ link'[c] = link[c] /\ outgoing'[c] = outgoing[c]
          /\ results'[c] = results[c]
      BY <1>27, <2>2, <1>0 DEF CloseReader, sender, reader, network, handler,
         Close, ReaderTypes, SenderTypes, Gens
    <3> QED
      BY <3>1, StreamSame
  <2> QED
    BY <2>1, <2>2, AnswersUntouched
<1>28. ASSUME NEW g \in Gens, ServeHello(g) PROVE AnswersInOrder'
  <2>1. UNCHANGED <<session, lastAcked>> /\ sock' \in {0, sock}
        /\ nextId' \in Nat /\ nextId' >= nextId
    BY <1>28, <1>0 DEF ServeHello, NativeTypes, native, outbox, sender,
       identity
  <2>2. ASSUME NEW c \in Gens, c = sock, sock' = c
        PROVE  rpc'[c] = "closing" \/ (rpc[c] # "closing" /\ Stream(c)' = Stream(c))
    <3>1. c # g
      <4>1. toServer[g] # <<>> /\ Head(toServer[g]).kind = "hello"
            /\ toServer[g] \in Seq(Frames)
        BY <1>28, <1>0 DEF ServeHello, NetworkTypes
      <4>2. 1 \in DOMAIN toServer[g] /\ toServer[g][1].kind = "hello"
        BY <4>1
      <4>3. 0 \notin Gens
        BY BoundsHold DEF Gens
      <4> QED
        BY <4>2, <4>3, <2>2, <1>0 DEF Published
    <3>2. UNCHANGED <<rpc, hand, link, outgoing, results>>
      BY <1>28 DEF ServeHello, sender, reader, handler
    <3>3. toClient'[c] = toClient[c]
      BY <1>28, <3>1, <1>0 DEF ServeHello, Answer, NetworkTypes
    <3>4. rpc[c] # "closing" \/ rpc'[c] = "closing"
      BY <3>2
    <3> QED
      BY <3>2, <3>3, <3>4, StreamSame
  <2> QED
    BY <2>1, <2>2, AnswersUntouched
<1>29. ASSUME NEW g \in Gens, ServeTxn(g) PROVE AnswersInOrder'
  <2>1. UNCHANGED <<session, lastAcked, nextId, sock>>
    BY <1>29 DEF ServeTxn, native, outbox, sender, identity
  <2>2. nextId' \in Nat /\ nextId' >= nextId
    BY <2>1, <1>0 DEF NativeTypes
  <2>3. CASE sock # g
    <3>1. ASSUME NEW c \in Gens, c = sock
          PROVE  /\ rpc'[c] = rpc[c]
                 /\ rpc'[c] = "closing" \/ (rpc[c] # "closing" /\ Stream(c)' = Stream(c))
      <4>1. /\ rpc'[c] = rpc[c] /\ hand'[c] = hand[c] /\ toClient'[c] = toClient[c]
            /\ link'[c] = link[c] /\ outgoing'[c] = outgoing[c]
            /\ results'[c] = results[c]
        BY <1>29, <2>3, <3>1, <1>0 DEF ServeTxn, sender, reader, network,
           handler, ReaderTypes, NetworkTypes
      <4> QED
        BY <4>1, StreamSame
    <3> QED
      BY <2>1, <2>2, <3>1, AnswersUntouched
  <2>4. CASE sock = g
    <3>1. PICK f \in Frames, s \in Sessions, r \in Replies :
            TxnTaken(g, f, s, r) /\ (Commits(f, s, r) \/ Declines(f, s, r))
      BY <1>29, TxnServed
    <3>2. Queued(g, r)
      BY <3>1 DEF TxnTaken, Queued, sender, reader
    <3>3. link[g] = "up" /\ rpc[g] # "closing" =>
            Continues(Stream(g), lastAcked, r) /\ Backed(r)'
      BY <2>4, <3>1, ServedContinues
    <3> QED
      BY <2>1, <2>4, <3>2, <3>3, AnswersServed
  <2> QED
    BY <2>3, <2>4
<1>30. ASSUME NEW g \in Gens, ResolveResult(g) PROVE AnswersInOrder'
  <2>1. UNCHANGED <<session, lastAcked, nextId, sock>>
    BY <1>30 DEF ResolveResult, native, outbox, sender, identity
  <2>2. nextId' \in Nat /\ nextId' >= nextId
    BY <2>1, <1>0 DEF NativeTypes
  <2>3. CASE sock # g
    <3>1. ASSUME NEW c \in Gens, c = sock
          PROVE  /\ rpc'[c] = rpc[c]
                 /\ rpc'[c] = "closing" \/ (rpc[c] # "closing" /\ Stream(c)' = Stream(c))
      <4>1. /\ rpc'[c] = rpc[c] /\ hand'[c] = hand[c] /\ toClient'[c] = toClient[c]
            /\ link'[c] = link[c] /\ outgoing'[c] = outgoing[c]
            /\ results'[c] = results[c]
        BY <1>30, <2>3, <3>1, <1>0 DEF ResolveResult, sender, reader, network,
           handler, ReaderTypes, NetworkTypes
      <4> QED
        BY <4>1, StreamSame
    <3> QED
      BY <2>1, <2>2, <3>1, AnswersUntouched
  <2>4. CASE sock = g
    <3>1. CASE Joined(g)
      BY <2>1, <2>4, <3>1, AnswersJoined
    <3>2. CASE ~Joined(g)
      <4>1. \E n \in 0..Len(Stream(g)) : Stream(g)' = SubSeq(Stream(g), 1, n)
        BY <1>30, <3>2, StreamResolved
      <4>2. rpc' = rpc
        BY <1>30 DEF ResolveResult, sender, reader
      <4> QED
        BY <2>1, <2>4, <4>1, <4>2, AnswersCut
    <3> QED
      BY <3>1, <3>2
  <2> QED
    BY <2>3, <2>4
<1>31. ASSUME NEW g \in Gens, SendResults(g) PROVE AnswersInOrder'
  <2>1. UNCHANGED <<session, lastAcked>> /\ sock' \in {0, sock}
        /\ nextId' \in Nat /\ nextId' >= nextId
    BY <1>31, <1>0 DEF SendResults, NativeTypes, native, outbox, sender,
       identity
  <2>2. ASSUME NEW c \in Gens, c = sock, sock' = c
        PROVE  rpc'[c] = "closing" \/ (rpc[c] # "closing" /\ Stream(c)' = Stream(c))
    <3>1. CASE c = g
      <4>1. rpc'[c] = rpc[c]
        BY <1>31 DEF SendResults, sender, reader
      <4> QED
        BY <1>31, <3>1, <4>1, StreamSent
    <3>2. CASE c # g
      <4>1. /\ rpc'[c] = rpc[c] /\ hand'[c] = hand[c] /\ toClient'[c] = toClient[c]
            /\ link'[c] = link[c] /\ outgoing'[c] = outgoing[c]
            /\ results'[c] = results[c]
        BY <1>31, <3>2, <1>0 DEF SendResults, sender, reader, network, handler,
           ReaderTypes, NetworkTypes
      <4> QED
        BY <4>1, StreamSame
    <3> QED
      BY <3>1, <3>2
  <2> QED
    BY <2>1, <2>2, AnswersUntouched
<1> QED
  BY <1>0, <1>1, <1>2, <1>3, <1>4, <1>5, <1>6, <1>7, <1>8, <1>9, <1>10,
     <1>11, <1>12, <1>13, <1>14, <1>15, <1>16, <1>17, <1>18, <1>19, <1>20,
     <1>21, <1>22, <1>23, <1>24, <1>25, <1>26, <1>27, <1>28, <1>29, <1>30,
     <1>31, StepCases

-----------------------------------------------------------------------------
(* The frames under way leave no gap.                                      *)

\* Frames without a gap have none once more is committed.
LEMMA GaplessMore ==
    ASSUME NEW q \in Seq(Frames), NEW done \in Nat, NEW more \in Nat,
           more >= done, Gapless(q, done)
    PROVE  Gapless(q, more) /\ Reached(q, done) <= Reached(q, more)
<1>1. \A i \in DOMAIN q : q[i].id \in Nat
  <2>1. \A i \in DOMAIN q : q[i] \in Frames
    BY ElementOfSeq
  <2> QED
    BY <2>1 DEF Frames
<1>2. DOMAIN q = 1..Len(q) /\ Len(q) \in Nat
  OBVIOUS
<1>3. Gapless(q, more)
  <2>1. SUFFICES ASSUME NEW i \in DOMAIN q
                 PROVE  q[i].id <= 1 + (IF i = 1 THEN more
                                        ELSE Greater(more, q[i - 1].id))
    BY DEF Gapless
  <2>2. q[i].id <= 1 + (IF i = 1 THEN done ELSE Greater(done, q[i - 1].id))
    BY DEF Gapless
  <2>3. CASE i = 1
    BY <2>2, <2>3, <1>1
  <2>4. CASE i # 1
    <3>1. i - 1 \in DOMAIN q
      BY <2>4, <1>2
    <3>2. PICK m \in Nat, n \in Nat : m = q[i - 1].id /\ n = q[i].id
      BY <3>1, <1>1
    <3>3. n <= 1 + Greater(done, m)
      BY <2>2, <2>4, <3>2
    <3>4. n <= 1 + Greater(more, m)
      BY <3>3 DEF Greater
    <3> QED
      BY <2>4, <3>2, <3>4
  <2> QED
    BY <2>3, <2>4
<1>4. Reached(q, done) <= Reached(q, more)
  <2>1. CASE q = <<>>
    BY <2>1 DEF Reached
  <2>2. CASE q # <<>>
    <3>1. Len(q) \in DOMAIN q
      BY <2>2, <1>2
    <3>2. q[Len(q)].id \in Nat
      BY <3>1, <1>1
    <3> QED
      BY <2>2, <3>2 DEF Reached, Greater
  <2> QED
    BY <2>1, <2>2
<1> QED
  BY <1>3, <1>4

\* A frame served leaves the rest without a gap.
LEMMA GaplessServed ==
    ASSUME NEW q \in Seq(Frames), NEW done \in Nat, NEW more \in Nat,
           q # <<>>, Gapless(q, done), more >= Greater(done, q[1].id)
    PROVE  Gapless(Tail(q), more) /\ Reached(q, done) <= Reached(Tail(q), more)
<1>1. \A i \in DOMAIN q : q[i].id \in Nat
  <2>1. \A i \in DOMAIN q : q[i] \in Frames
    BY ElementOfSeq
  <2> QED
    BY <2>1 DEF Frames
<1>2. DOMAIN q = 1..Len(q) /\ Len(q) \in Nat /\ Len(q) # 0 /\ 1 \in DOMAIN q
  <2>1. DOMAIN q = 1..Len(q) /\ Len(q) \in Nat
    OBVIOUS
  <2>2. Len(q) # 0
    BY EmptySeq
  <2> QED
    BY <2>1, <2>2
<1>3. PICK t \in Seq(Frames) : t = Tail(q)
  BY HeadTailProperties
<1>4. /\ Len(t) = Len(q) - 1 /\ DOMAIN t = 1..(Len(q) - 1)
      /\ \A i \in DOMAIN t : i + 1 \in DOMAIN q /\ t[i] = q[i + 1]
  BY <1>3, <1>2
<1>5. \A i \in DOMAIN t : t[i].id \in Nat
  BY <1>1, <1>4
<1>6. Gapless(t, more)
  <2>1. SUFFICES ASSUME NEW i \in DOMAIN t
                 PROVE  t[i].id <= 1 + (IF i = 1 THEN more
                                        ELSE Greater(more, t[i - 1].id))
    BY DEF Gapless
  <2>2. i \in Nat /\ i >= 1 /\ i + 1 # 1 /\ (i + 1) - 1 = i /\ i \in DOMAIN q
    BY <1>4, <1>2
  <2>3. q[i + 1].id <= 1 + Greater(done, q[i].id)
    <3>1. PICK k \in DOMAIN q : k = i + 1
      BY <1>4
    <3>2. k - 1 = i /\ k # 1
      BY <3>1, <2>2
    <3>3. q[k].id <= 1 + Greater(done, q[k - 1].id)
      BY <3>2 DEF Gapless
    <3> QED
      BY <3>1, <3>2, <3>3
  <2>4. PICK m \in Nat, n \in Nat : m = q[i].id /\ n = t[i].id
    BY <2>2, <1>1, <1>5
  <2>5. n <= 1 + Greater(done, m)
    BY <2>3, <2>4, <1>4
  <2>6. CASE i = 1
    <3>1. more >= Greater(done, m)
      BY <2>4, <2>6
    <3>2. n <= 1 + more
      BY <2>5, <3>1 DEF Greater
    <3> QED
      BY <2>4, <2>6, <3>2
  <2>7. CASE i # 1
    <3>0. PICK k \in DOMAIN t : k = i - 1
      BY <2>2, <2>7, <1>4
    <3>1. t[i - 1] = q[i]
      <4>1. k + 1 = i /\ t[k] = q[k + 1]
        BY <3>0, <1>4, <2>2
      <4> QED
        BY <4>1, <3>0
    <3>2. more >= done
      <4>1. q[1].id \in Nat
        BY <1>1, <1>2
      <4> QED
        BY <4>1 DEF Greater
    <3>3. n <= 1 + Greater(more, m)
      BY <2>5, <3>2 DEF Greater
    <3> QED
      BY <2>4, <2>7, <3>1, <3>3
  <2> QED
    BY <2>6, <2>7
<1>7. Reached(q, done) <= Reached(t, more)
  <2>1. PICK n \in Nat : n = q[Len(q)].id
    BY <1>1, <1>2
  <2>2. Reached(q, done) = Greater(done, n)
    BY <2>1 DEF Reached
  <2>3. CASE t = <<>>
    <3>1. Len(q) = 1
      BY <2>3, <1>4, <1>2
    <3>2. more >= Greater(done, n)
      BY <3>1, <2>1
    <3> QED
      BY <2>2, <2>3, <3>2 DEF Reached
  <2>4. CASE t # <<>>
    <3>1. Len(t) # 0
      BY <2>4
    <3>2. Len(t) \in DOMAIN t /\ Len(t) + 1 = Len(q)
      BY <3>1, <1>4, <1>2
    <3>3. t[Len(t)] = q[Len(q)]
      BY <3>2, <1>4
    <3>4. Reached(t, more) = Greater(more, n)
      BY <2>1, <2>4, <3>3 DEF Reached
    <3>5. more >= done
      <4>1. q[1].id \in Nat
        BY <1>1, <1>2
      <4> QED
        BY <4>1 DEF Greater
    <3> QED
      BY <2>2, <3>4, <3>5 DEF Greater
  <2> QED
    BY <2>3, <2>4
<1> QED
  BY <1>3, <1>6, <1>7

\* A frame that follows the ones before it leaves no gap.
LEMMA GaplessSent ==
    ASSUME NEW q \in Seq(Frames), NEW done \in Nat, NEW f \in Frames,
           Gapless(q, done), f.id <= 1 + Reached(q, done)
    PROVE  /\ Gapless(Append(q, f), done)
           /\ Reached(Append(q, f), done) = Greater(done, f.id)
<1>2. DOMAIN q = 1..Len(q) /\ Len(q) \in Nat
  OBVIOUS
<1>3. PICK t : t = Append(q, f)
  OBVIOUS
<1>4. /\ t \in Seq(Frames) /\ Len(t) = Len(q) + 1 /\ DOMAIN t = 1..(Len(q) + 1)
      /\ t[Len(q) + 1] = f /\ \A i \in DOMAIN q : t[i] = q[i]
  BY <1>3, <1>2
<1>5. Gapless(t, done)
  <2>1. SUFFICES ASSUME NEW i \in DOMAIN t
                 PROVE  t[i].id <= 1 + (IF i = 1 THEN done
                                        ELSE Greater(done, t[i - 1].id))
    BY DEF Gapless
  <2>2. CASE i \in DOMAIN q
    <3>1. q[i].id <= 1 + (IF i = 1 THEN done ELSE Greater(done, q[i - 1].id))
      BY <2>2 DEF Gapless
    <3>2. i # 1 => i - 1 \in DOMAIN q
      BY <2>2, <1>2
    <3>3. i # 1 => t[i - 1] = q[i - 1]
      BY <3>2, <1>4
    <3>4. t[i] = q[i]
      BY <2>2, <1>4
    <3> QED
      BY <3>1, <3>3, <3>4
  <2>3. CASE i \notin DOMAIN q
    <3>1. i = Len(q) + 1
      BY <2>3, <1>2, <1>4
    <3>2. t[i] = f
      BY <3>1, <1>4
    <3>3. CASE q = <<>>
      <4>1. i = 1
        BY <3>1, <3>3
      <4> QED
        BY <3>2, <3>3, <4>1 DEF Reached
    <3>4. CASE q # <<>>
      <4>1. Len(q) \in DOMAIN q /\ i # 1 /\ i - 1 = Len(q)
        BY <3>1, <3>4, <1>2
      <4>2. t[i - 1] = q[Len(q)]
        BY <4>1, <1>4
      <4> QED
        BY <3>2, <3>4, <4>1, <4>2 DEF Reached
    <3> QED
      BY <3>3, <3>4
  <2> QED
    BY <2>2, <2>3
<1>6. Reached(t, done) = Greater(done, f.id)
  <2>1. t # <<>>
    BY <1>4, <1>2
  <2> QED
    BY <2>1, <1>4 DEF Reached
<1> QED
  BY <1>3, <1>5, <1>6

\* The reader of g is told of nothing that stops it.
Quiet(g) == rpc[g] # "closing" /\ link[g] = "up" /\ ~HasStop(Stream(g))

\* The frames under way on g follow what the session has committed, up to the
\* last one handed over.
InStep(g) ==
    /\ Gapless(toServer[g], committed[session])
    /\ Handed <= Reached(toServer[g], committed[session])

\* FramesInOrder is InStep on a published connection that is quiet.
LEMMA FramesInOrderParts ==
    /\ FramesInOrder <=> (sock # 0 /\ Quiet(sock) => InStep(sock))
    /\ FramesInOrder' <=> (sock' # 0 /\ Quiet(sock)' => InStep(sock)')
  BY DEF FramesInOrder, Quiet, InStep, Listening

\* The last id handed over is a number.
LEMMA HandedTyped ==
    ASSUME NativeTypes, SenderTypes
    PROVE  Handed \in Int
<1>1. /\ lastAcked \in Nat /\ unsent \in Nat /\ nextId \in Nat
      /\ claimed # None => claimed.id \in Nat
      /\ caller # None => caller.e.id \in Nat
  BY DEF NativeTypes, SenderTypes, Entries
<1> QED
  BY <1>1 DEF Handed

\* A published connection that is quiet after a step was so before.
WasQuiet == \A c \in Gens : sock' = c /\ Quiet(c)' => sock = c /\ Quiet(c)

\* It suffices to look at a connection that stays published.
LEMMA QuietBefore ==
    ASSUME sock' \in {0, sock},
           \A c \in Gens : sock = c /\ sock' = c =>
             \/ rpc'[c] = "closing" \/ link'[c] # "up" \/ HasStop(Stream(c)')
             \/ /\ rpc[c] # "closing" /\ link[c] = "up"
                /\ HasStop(Stream(c)) => HasStop(Stream(c)')
    PROVE  WasQuiet
<1>1. 0 \notin Gens
  BY BoundsHold DEF Gens
<1>2. \A c \in Gens : HasStop(Stream(c)') <=> HasStop(Stream(c))'
  BY DEF HasStop
<1>3. SUFFICES ASSUME NEW c \in Gens, sock' = c, Quiet(c)'
               PROVE  sock = c /\ Quiet(c)
  BY DEF WasQuiet
<1>4. sock = c
  BY <1>1, <1>3
<1>5. rpc'[c] # "closing" /\ link'[c] = "up" /\ ~HasStop(Stream(c)')
  BY <1>3, <1>2 DEF Quiet
<1>6. rpc[c] # "closing" /\ link[c] = "up" /\ ~HasStop(Stream(c))
  BY <1>3, <1>4, <1>5
<1> QED
  BY <1>4, <1>6 DEF Quiet

\* No connection is quiet when none is published.
LEMMA NoneQuiet ==
    ASSUME sock' = 0
    PROVE  WasQuiet
  BY BoundsHold DEF WasQuiet, Gens

\* The answers of a sound stream tell of a stop when they did so before.
LEMMA StopsStay ==
    ASSUME LinkInv, NEW g \in Gens, sock = g, rpc[g] # "closing"
    PROVE  /\ \A r \in Replies : Stream(g)' = Append(Stream(g), r) =>
                (HasStop(Stream(g)) \/ r.kind \in Stops => HasStop(Stream(g)'))
           /\ \A a, b \in Seq(Replies), x \in Replies :
                x.kind = "ack" /\ Stream(g) = a \o <<x>> \o b
                    /\ Stream(g)' = a \o b =>
                (HasStop(Stream(g)) => HasStop(Stream(g)'))
           /\ \A a, b \in Seq(Replies), x \in Replies :
                x.kind = "limited" /\ Stream(g) = a \o b
                    /\ Stream(g)' = a \o <<x>> \o b => HasStop(Stream(g)')
           /\ rpc[g] = "holding" /\ hand[g].kind = "ack"
                /\ Stream(g)' = Tail(Stream(g)) =>
                (HasStop(Stream(g)) => HasStop(Stream(g)'))
<1>0. TypeOK /\ NativeTypes /\ HandsFull /\ AnswersInOrder
  BY TypeParts DEF LinkInv
<1>1. PICK q \in Seq(Replies) : q = Stream(g)
  BY <1>0, StreamType
<1>2. PICK low \in Nat : low = lastAcked
  BY <1>0 DEF NativeTypes
<1>3. 0 \notin Gens
  BY BoundsHold DEF Gens
<1>4. Sound(q, low)
  BY <1>0, <1>1, <1>2, <1>3 DEF AnswersInOrder, Listening
<1>5. ASSUME NEW r \in Replies, Stream(g)' = Append(Stream(g), r),
             HasStop(Stream(g)) \/ r.kind \in Stops
      PROVE  HasStop(Stream(g)')
  <2>1. PICK t : t = Append(q, r)
    OBVIOUS
  <2>2. HasStop(q) \/ r.kind \in Stops
    BY <1>1, <1>5
  <2>3. /\ Len(q) + 1 \in DOMAIN t /\ t[Len(q) + 1] = r
        /\ \A i \in DOMAIN q : i \in DOMAIN t /\ t[i] = q[i]
    BY <2>1
  <2>4. HasStop(t)
    BY <2>2, <2>3 DEF HasStop
  <2> QED
    BY <2>1, <2>4, <1>1, <1>5
<1>6. ASSUME NEW a \in Seq(Replies), NEW b \in Seq(Replies), NEW x \in Replies,
             x.kind = "ack", Stream(g) = a \o <<x>> \o b, Stream(g)' = a \o b,
             HasStop(Stream(g))
      PROVE  HasStop(Stream(g)')
  <2>1. Sound(a \o <<x>> \o b, low)
    BY <1>1, <1>4, <1>6
  <2>2. HasStop(a \o <<x>> \o b)
    BY <1>6
  <2>3. HasStop(a \o b)
    BY <2>1, <2>2, <1>6, SoundDrop
  <2> QED
    BY <2>3, <1>6
<1>7. ASSUME NEW a \in Seq(Replies), NEW b \in Seq(Replies), NEW x \in Replies,
             x.kind = "limited", Stream(g) = a \o b,
             Stream(g)' = a \o <<x>> \o b
      PROVE  HasStop(Stream(g)')
  <2>1. Sound(a \o b, low)
    BY <1>1, <1>4, <1>7
  <2>2. HasStop(a \o <<x>> \o b)
    BY <2>1, <1>7, SoundInsert
  <2> QED
    BY <2>2, <1>7
<1>8. ASSUME rpc[g] = "holding", hand[g].kind = "ack",
             Stream(g)' = Tail(Stream(g)), HasStop(Stream(g))
      PROVE  HasStop(Stream(g)')
  <2>1. q # <<>> /\ q[1].kind = "ack"
    BY <1>0, <1>1, <1>8, HeldIsFirst
  <2>2. HasStop(q)
    BY <1>1, <1>8
  <2>3. HasStop(Tail(q))
    BY <2>1, <2>2, <1>4, SoundTail
  <2> QED
    BY <2>3, <1>1, <1>8
<1> QED
  BY <1>5, <1>6, <1>7, <1>8

\* Only Publish makes a quiet connection.
LEMMA StillQuiet ==
    ASSUME LinkInv, Next
    PROVE  Publish \/ WasQuiet
<1>0. /\ TypeOK /\ NativeTypes /\ SenderTypes /\ ReaderTypes /\ NetworkTypes
      /\ HandsFull /\ Attempting /\ Published /\ Sending /\ OutboxIsExact
  BY TypeParts DEF LinkInv
<1>1. CASE BeginConnection
  <2>1. sock' = 0
    BY <1>1, <1>0 DEF BeginConnection
  <2> QED
    BY <2>1, NoneQuiet
<1>2. CASE AttemptFails
  <2>1. sock' = 0
    BY <1>2, <1>0 DEF AttemptFails, Attempting
  <2> QED
    BY <2>1, NoneQuiet
<1>3. CASE AcceptHello
  <2>1. sock' = 0
    BY <1>3, <1>0, HelloAccepted DEF AcceptHello, Attempting
  <2> QED
    BY <2>1, NoneQuiet
<1>4. CASE Publish
  BY <1>4
<1>5. CASE ReplayNext
  <2>1. sock' \in {0, sock}
    BY <1>5 DEF ReplayNext, sender
  <2>2. ASSUME NEW c \in Gens, sock = c, sock' = c
        PROVE
          \/ rpc'[c] = "closing" \/ link'[c] # "up" \/ HasStop(Stream(c)')
          \/ /\ rpc[c] # "closing" /\ link[c] = "up"
             /\ HasStop(Stream(c)) => HasStop(Stream(c)')
    <3>1. /\ rpc'[c] = rpc[c] /\ hand'[c] = hand[c] /\ toClient'[c] = toClient[c]
          /\ link'[c] = link[c] /\ outgoing'[c] = outgoing[c]
          /\ results'[c] = results[c]
      BY <1>5, <2>2, <1>0 DEF ReplayNext, sender, reader, network, handler
    <3>2. Stream(c)' = Stream(c)
      BY <3>1, StreamSame
    <3> QED
      BY <3>1, <3>2
  <2> QED
    BY <2>1, <2>2, QuietBefore
<1>6. CASE ReplayDone
  <2>1. sock' \in {0, sock}
    BY <1>6 DEF ReplayDone, sender
  <2>2. ASSUME NEW c \in Gens, sock = c, sock' = c
        PROVE
          \/ rpc'[c] = "closing" \/ link'[c] # "up" \/ HasStop(Stream(c)')
          \/ /\ rpc[c] # "closing" /\ link[c] = "up"
             /\ HasStop(Stream(c)) => HasStop(Stream(c)')
    <3>1. rpc[c] = "none" /\ rpc'[c] = "waiting"
      BY <1>6, <2>2, <1>0 DEF ReplayDone, Attempting, ReaderTypes
    <3>2. UNCHANGED <<hand, toClient, link, outgoing, results>>
      BY <1>6 DEF ReplayDone, network, handler
    <3>3. Stream(c)' = Stream(c)
      BY <3>1, <3>2 DEF Stream, Held, Coming
    <3> QED
      BY <3>1, <3>2, <3>3
  <2> QED
    BY <2>1, <2>2, QuietBefore
<1>7. CASE ReplayFails
  <2>1. sock' = 0
    BY <1>7, <1>0 DEF ReplayFails, Attempting, Close
  <2> QED
    BY <2>1, NoneQuiet
<1>8. CASE FinishSend
  <2>1. sock' \in {0, sock}
    BY <1>8 DEF FinishSend, sender
  <2>2. ASSUME NEW c \in Gens, sock = c, sock' = c
        PROVE
          \/ rpc'[c] = "closing" \/ link'[c] # "up" \/ HasStop(Stream(c)')
          \/ /\ rpc[c] # "closing" /\ link[c] = "up"
             /\ HasStop(Stream(c)) => HasStop(Stream(c)')
    <3>1. /\ rpc'[c] = rpc[c] /\ hand'[c] = hand[c] /\ toClient'[c] = toClient[c]
          /\ link'[c] = link[c] /\ outgoing'[c] = outgoing[c]
          /\ results'[c] = results[c]
      BY <1>8, <2>2, <1>0 DEF FinishSend, sender, reader, network, handler
    <3>2. Stream(c)' = Stream(c)
      BY <3>1, StreamSame
    <3> QED
      BY <3>1, <3>2
  <2> QED
    BY <2>1, <2>2, QuietBefore
<1>9. CASE SendRaises
  <2>1. sock' = 0
    BY <1>9, <1>0 DEF SendRaises, Close, Sending
  <2> QED
    BY <2>1, NoneQuiet
<1>10. CASE WriterClaim
  <2>1. sock' \in {0, sock}
    BY <1>10 DEF WriterClaim, sender
  <2>2. ASSUME NEW c \in Gens, sock = c, sock' = c
        PROVE
          \/ rpc'[c] = "closing" \/ link'[c] # "up" \/ HasStop(Stream(c)')
          \/ /\ rpc[c] # "closing" /\ link[c] = "up"
             /\ HasStop(Stream(c)) => HasStop(Stream(c)')
    <3>1. /\ rpc'[c] = rpc[c] /\ hand'[c] = hand[c] /\ toClient'[c] = toClient[c]
          /\ link'[c] = link[c] /\ outgoing'[c] = outgoing[c]
          /\ results'[c] = results[c]
      BY <1>10, <2>2, <1>0 DEF WriterClaim, sender, reader, network, handler
    <3>2. Stream(c)' = Stream(c)
      BY <3>1, StreamSame
    <3> QED
      BY <3>1, <3>2
  <2> QED
    BY <2>1, <2>2, QuietBefore
<1>11. CASE WriterSend
  <2>1. sock' \in {0, sock}
    BY <1>11 DEF WriterSend, sender
  <2>2. ASSUME NEW c \in Gens, sock = c, sock' = c
        PROVE
          \/ rpc'[c] = "closing" \/ link'[c] # "up" \/ HasStop(Stream(c)')
          \/ /\ rpc[c] # "closing" /\ link[c] = "up"
             /\ HasStop(Stream(c)) => HasStop(Stream(c)')
    <3>1. /\ rpc'[c] = rpc[c] /\ hand'[c] = hand[c] /\ toClient'[c] = toClient[c]
          /\ link'[c] = link[c] /\ outgoing'[c] = outgoing[c]
          /\ results'[c] = results[c]
      BY <1>11, <2>2, <1>0 DEF WriterSend, sender, reader, network, handler
    <3>2. Stream(c)' = Stream(c)
      BY <3>1, StreamSame
    <3> QED
      BY <3>1, <3>2
  <2> QED
    BY <2>1, <2>2, QuietBefore
<1>12. CASE WriterRaises
  <2>1. sock' = 0
    BY <1>12, <1>0 DEF WriterRaises, Close
  <2> QED
    BY <2>1, NoneQuiet
<1>13. ASSUME NEW p \in Payloads, SendEvents(p) PROVE Publish \/ WasQuiet
  <2>1. sock' \in {0, sock}
    BY <1>13 DEF SendEvents, sender
  <2>2. ASSUME NEW c \in Gens, sock = c, sock' = c
        PROVE
          \/ rpc'[c] = "closing" \/ link'[c] # "up" \/ HasStop(Stream(c)')
          \/ /\ rpc[c] # "closing" /\ link[c] = "up"
             /\ HasStop(Stream(c)) => HasStop(Stream(c)')
    <3>1. /\ rpc'[c] = rpc[c] /\ hand'[c] = hand[c] /\ toClient'[c] = toClient[c]
          /\ link'[c] = link[c] /\ outgoing'[c] = outgoing[c]
          /\ results'[c] = results[c]
      BY <1>13, <2>2, <1>0 DEF SendEvents, sender, reader, network, handler
    <3>2. Stream(c)' = Stream(c)
      BY <3>1, StreamSame
    <3> QED
      BY <3>1, <3>2
  <2> QED
    BY <2>1, <2>2, QuietBefore
<1>14. ASSUME NEW p \in Payloads, RepairRejectedTransaction(p)
       PROVE  Publish \/ WasQuiet
  <2>1. sock' = 0
    BY <1>14, <1>0 DEF RepairRejectedTransaction, CloseForRecovery
  <2> QED
    BY <2>1, NoneQuiet
<1>15. CASE AbandonRejectedSession
  <2>1. sock' = 0
    BY <1>15, <1>0 DEF AbandonRejectedSession, CloseForRecovery
  <2> QED
    BY <2>1, NoneQuiet
<1>16. CASE CancelConnect
  <2>1. sock' = 0
    BY <1>16, <1>0 DEF CancelConnect, Attempting
  <2> QED
    BY <2>1, NoneQuiet
<1>17. CASE Disconnect
  <2>1. sock' = 0
    BY <1>17, <1>0 DEF Disconnect, Close
  <2> QED
    BY <2>1, NoneQuiet
<1>18. ASSUME NEW g \in Gens, ServeError(g) PROVE Publish \/ WasQuiet
  <2>1. sock' \in {0, sock}
    BY <1>18 DEF ServeError, sender
  <2>2. ASSUME NEW c \in Gens, sock = c, sock' = c
        PROVE
          \/ rpc'[c] = "closing" \/ link'[c] # "up" \/ HasStop(Stream(c)')
          \/ /\ rpc[c] # "closing" /\ link[c] = "up"
             /\ HasStop(Stream(c)) => HasStop(Stream(c)')
    <3>1. CASE c = g
      <4>1. PICK r \in Replies : r = Reply("error", 0, 0)
        BY DEF Reply, Replies
      <4>2. Queued(g, r) /\ r.kind \in Stops
        BY <1>18, <4>1 DEF ServeError, Queued, sender, reader, Reply, Stops
      <4>3. rpc' = rpc /\ link' = link
        BY <4>2 DEF Queued
      <4>4. link[g] = "up" => Stream(g)' = Append(Stream(g), r)
        BY <4>2, StreamServed
      <4>5. link[g] = "up" /\ rpc[g] # "closing" => HasStop(Stream(g)')
        BY <2>2, <3>1, <4>2, <4>4, StopsStay
      <4> QED
        BY <3>1, <4>3, <4>5
    <3>2. CASE c # g
      <4>1. /\ rpc'[c] = rpc[c] /\ hand'[c] = hand[c] /\ toClient'[c] = toClient[c]
            /\ link'[c] = link[c] /\ outgoing'[c] = outgoing[c]
            /\ results'[c] = results[c]
        BY <1>18, <3>2, <1>0 DEF ServeError, sender, reader, network, handler,
           ReaderTypes, NetworkTypes
      <4>2. Stream(c)' = Stream(c)
        BY <4>1, StreamSame
      <4> QED
        BY <4>1, <4>2
    <3> QED
      BY <3>1, <3>2
  <2> QED
    BY <2>1, <2>2, QuietBefore
<1>19. ASSUME NEW g \in Gens, ServeLimited(g) PROVE Publish \/ WasQuiet
  <2>1. sock' \in {0, sock}
    BY <1>19 DEF ServeLimited, sender
  <2>2. ASSUME NEW c \in Gens, sock = c, sock' = c
        PROVE
          \/ rpc'[c] = "closing" \/ link'[c] # "up" \/ HasStop(Stream(c)')
          \/ /\ rpc[c] # "closing" /\ link[c] = "up"
             /\ HasStop(Stream(c)) => HasStop(Stream(c)')
    <3>1. CASE c = g
      <4>1. PICK r \in Replies : r = Reply("limited", 0, 0)
        BY DEF Reply, Replies
      <4>2. Noticed(g, r) /\ r.kind = "limited"
        BY <1>19, <4>1 DEF ServeLimited, Noticed, sender, reader, handler,
           Reply
      <4>3. rpc' = rpc /\ link' = link
        BY <4>2 DEF Noticed
      <4>4. link[g] = "up" /\ rpc[g] # "closing" => HasStop(Stream(g)')
        BY <2>2, <3>1, <4>2, StreamNoticed, StopsStay
      <4> QED
        BY <3>1, <4>3, <4>4
    <3>2. CASE c # g
      <4>1. /\ rpc'[c] = rpc[c] /\ hand'[c] = hand[c] /\ toClient'[c] = toClient[c]
            /\ link'[c] = link[c] /\ outgoing'[c] = outgoing[c]
            /\ results'[c] = results[c]
        BY <1>19, <3>2, <1>0 DEF ServeLimited, sender, reader, network,
           handler, Answer, ReaderTypes, NetworkTypes
      <4>2. Stream(c)' = Stream(c)
        BY <4>1, StreamSame
      <4> QED
        BY <4>1, <4>2
    <3> QED
      BY <3>1, <3>2
  <2> QED
    BY <2>1, <2>2, QuietBefore
<1>20. ASSUME NEW g \in Gens, Break(g) PROVE Publish \/ WasQuiet
  <2>1. sock' \in {0, sock}
    BY <1>20 DEF Break, sender
  <2>2. ASSUME NEW c \in Gens, sock = c, sock' = c
        PROVE
          \/ rpc'[c] = "closing" \/ link'[c] # "up" \/ HasStop(Stream(c)')
          \/ /\ rpc[c] # "closing" /\ link[c] = "up"
             /\ HasStop(Stream(c)) => HasStop(Stream(c)')
    <3>1. CASE c = g
      <4>1. link'[g] # "up"
        BY <1>20, <1>0 DEF Break, NetworkTypes
      <4> QED
        BY <3>1, <4>1
    <3>2. CASE c # g
      <4>1. /\ rpc'[c] = rpc[c] /\ hand'[c] = hand[c] /\ toClient'[c] = toClient[c]
            /\ link'[c] = link[c] /\ outgoing'[c] = outgoing[c]
            /\ results'[c] = results[c]
        BY <1>20, <3>2, <1>0 DEF Break, sender, reader, network, handler,
           ReaderTypes, NetworkTypes
      <4>2. Stream(c)' = Stream(c)
        BY <4>1, StreamSame
      <4> QED
        BY <4>1, <4>2
    <3> QED
      BY <3>1, <3>2
  <2> QED
    BY <2>1, <2>2, QuietBefore
<1>21. CASE Restart
  <2>1. sock' \in {0, sock}
    BY <1>21 DEF Restart, sender
  <2>2. ASSUME NEW c \in Gens, sock = c, sock' = c
        PROVE
          \/ rpc'[c] = "closing" \/ link'[c] # "up" \/ HasStop(Stream(c)')
          \/ /\ rpc[c] # "closing" /\ link[c] = "up"
             /\ HasStop(Stream(c)) => HasStop(Stream(c)')
    <3>1. link'[c] # "up"
      BY <1>21 DEF Restart
    <3> QED
      BY <3>1
  <2> QED
    BY <2>1, <2>2, QuietBefore
<1>22. CASE EditGraph
  <2>1. sock' \in {0, sock}
    BY <1>22 DEF EditGraph, sender
  <2>2. ASSUME NEW c \in Gens, sock = c, sock' = c
        PROVE
          \/ rpc'[c] = "closing" \/ link'[c] # "up" \/ HasStop(Stream(c)')
          \/ /\ rpc[c] # "closing" /\ link[c] = "up"
             /\ HasStop(Stream(c)) => HasStop(Stream(c)')
    <3>1. /\ rpc'[c] = rpc[c] /\ hand'[c] = hand[c] /\ toClient'[c] = toClient[c]
          /\ link'[c] = link[c] /\ outgoing'[c] = outgoing[c]
          /\ results'[c] = results[c]
      BY <1>22, <2>2, <1>0 DEF EditGraph, sender, reader, network, handler
    <3>2. Stream(c)' = Stream(c)
      BY <3>1, StreamSame
    <3> QED
      BY <3>1, <3>2
  <2> QED
    BY <2>1, <2>2, QuietBefore
<1>23. ASSUME NEW g \in Gens, ReceiveResult(g) PROVE Publish \/ WasQuiet
  <2>1. sock' \in {0, sock}
    BY <1>23 DEF ReceiveResult, sender
  <2>2. ASSUME NEW c \in Gens, sock = c, sock' = c
        PROVE
          \/ rpc'[c] = "closing" \/ link'[c] # "up" \/ HasStop(Stream(c)')
          \/ /\ rpc[c] # "closing" /\ link[c] = "up"
             /\ HasStop(Stream(c)) => HasStop(Stream(c)')
    <3>1. CASE c = g
      <4>1. rpc[c] # "closing" /\ link' = link
        BY <1>23, <3>1 DEF ReceiveResult
      <4>2. Stream(c)' = Stream(c)
        BY <1>23, <3>1, StreamReceived
      <4> QED
        BY <4>1, <4>2
    <3>2. CASE c # g
      <4>1. /\ rpc'[c] = rpc[c] /\ hand'[c] = hand[c] /\ toClient'[c] = toClient[c]
            /\ link'[c] = link[c] /\ outgoing'[c] = outgoing[c]
            /\ results'[c] = results[c]
        BY <1>23, <3>2, <1>0 DEF ReceiveResult, sender, reader, network,
           handler, ReaderTypes, NetworkTypes
      <4>2. Stream(c)' = Stream(c)
        BY <4>1, StreamSame
      <4> QED
        BY <4>1, <4>2
    <3> QED
      BY <3>1, <3>2
  <2> QED
    BY <2>1, <2>2, QuietBefore
<1>24. ASSUME NEW g \in Gens, ReceiveRaises(g) PROVE Publish \/ WasQuiet
  <2>1. sock' \in {0, sock}
    BY <1>24 DEF ReceiveRaises, sender
  <2>2. ASSUME NEW c \in Gens, sock = c, sock' = c
        PROVE
          \/ rpc'[c] = "closing" \/ link'[c] # "up" \/ HasStop(Stream(c)')
          \/ /\ rpc[c] # "closing" /\ link[c] = "up"
             /\ HasStop(Stream(c)) => HasStop(Stream(c)')
    <3>1. CASE c = g
      <4>1. rpc'[c] = "closing"
        BY <1>24, <3>1, <1>0 DEF ReceiveRaises, ReaderTypes
      <4> QED
        BY <4>1
    <3>2. CASE c # g
      <4>1. /\ rpc'[c] = rpc[c] /\ hand'[c] = hand[c] /\ toClient'[c] = toClient[c]
            /\ link'[c] = link[c] /\ outgoing'[c] = outgoing[c]
            /\ results'[c] = results[c]
        BY <1>24, <3>2, <1>0 DEF ReceiveRaises, sender, reader, network,
           handler, ReaderTypes, NetworkTypes
      <4>2. Stream(c)' = Stream(c)
        BY <4>1, StreamSame
      <4> QED
        BY <4>1, <4>2
    <3> QED
      BY <3>1, <3>2
  <2> QED
    BY <2>1, <2>2, QuietBefore
<1>25. ASSUME NEW g \in Gens, ApplyResult(g) PROVE Publish \/ WasQuiet
  <2>1. sock' \in {0, sock}
    BY <1>25 DEF ApplyResult, sender
  <2>2. ASSUME NEW c \in Gens, sock = c, sock' = c
        PROVE
          \/ rpc'[c] = "closing" \/ link'[c] # "up" \/ HasStop(Stream(c)')
          \/ /\ rpc[c] # "closing" /\ link[c] = "up"
             /\ HasStop(Stream(c)) => HasStop(Stream(c)')
    <3>0. /\ rpc[g] = "holding" /\ hand' = [hand EXCEPT ![g] = None]
          /\ UNCHANGED <<toClient, link, outgoing, results>>
      BY <1>25, ResultApplied DEF network, handler
    <3>1. CASE c # g
      <4>1. rpc'[c] = rpc[c] /\ hand'[c] = hand[c]
        BY <1>25, <2>2, <3>1, <1>0, ResultApplied DEF ReaderTypes
      <4>2. Stream(c)' = Stream(c)
        BY <3>0, <4>1, StreamSame
      <4> QED
        BY <3>0, <4>1, <4>2
    <3>2. CASE c = g /\ rpc' = [rpc EXCEPT ![g] = "closing"]
      BY <3>2, <1>0 DEF ReaderTypes
    <3>3. CASE c = g /\ rpc' # [rpc EXCEPT ![g] = "closing"]
      <4>1. rpc' = [rpc EXCEPT ![g] = "waiting"] /\ hand[g].kind = "ack"
        BY <1>25, <2>2, <3>3, ResultApplied
      <4>2. Stream(g)' = Tail(Stream(g))
        BY <3>0, <4>1, StreamApplied
      <4>3. HasStop(Stream(g)) => HasStop(Stream(g)')
        BY <2>2, <3>0, <3>3, <4>1, <4>2, StopsStay
      <4> QED
        BY <3>0, <3>3, <4>3
    <3> QED
      BY <3>1, <3>2, <3>3
  <2> QED
    BY <2>1, <2>2, QuietBefore
<1>26. ASSUME NEW g \in Gens, ApplyLimited(g) PROVE Publish \/ WasQuiet
  <2>1. sock' \in {0, sock}
    BY <1>26 DEF ApplyLimited, sender
  <2>2. ASSUME NEW c \in Gens, sock = c, sock' = c
        PROVE
          \/ rpc'[c] = "closing" \/ link'[c] # "up" \/ HasStop(Stream(c)')
          \/ /\ rpc[c] # "closing" /\ link[c] = "up"
             /\ HasStop(Stream(c)) => HasStop(Stream(c)')
    <3>1. CASE c = g
      <4>1. rpc'[c] = "closing"
        BY <1>26, <3>1, <1>0 DEF ApplyLimited, AfterLimited, ReaderTypes
      <4> QED
        BY <4>1
    <3>2. CASE c # g
      <4>1. /\ rpc'[c] = rpc[c] /\ hand'[c] = hand[c] /\ toClient'[c] = toClient[c]
            /\ link'[c] = link[c] /\ outgoing'[c] = outgoing[c]
            /\ results'[c] = results[c]
        BY <1>26, <3>2, <1>0 DEF ApplyLimited, sender, reader, network,
           handler, ReaderTypes, NetworkTypes
      <4>2. Stream(c)' = Stream(c)
        BY <4>1, StreamSame
      <4> QED
        BY <4>1, <4>2
    <3> QED
      BY <3>1, <3>2
  <2> QED
    BY <2>1, <2>2, QuietBefore
<1>27. ASSUME NEW g \in Gens, CloseReader(g) PROVE Publish \/ WasQuiet
  <2>1. sock' \in {0, sock}
    BY <1>27 DEF CloseReader, sender, Close
  <2>2. ASSUME NEW c \in Gens, sock = c, sock' = c
        PROVE
          \/ rpc'[c] = "closing" \/ link'[c] # "up" \/ HasStop(Stream(c)')
          \/ /\ rpc[c] # "closing" /\ link[c] = "up"
             /\ HasStop(Stream(c)) => HasStop(Stream(c)')
    <3>1. /\ rpc'[c] = rpc[c] /\ hand'[c] = hand[c] /\ toClient'[c] = toClient[c]
          /\ link'[c] = link[c] /\ outgoing'[c] = outgoing[c]
          /\ results'[c] = results[c]
      BY <1>27, <2>2, <1>0 DEF CloseReader, sender, reader, network, handler,
         Close, ReaderTypes, SenderTypes, Gens
    <3>2. Stream(c)' = Stream(c)
      BY <3>1, StreamSame
    <3> QED
      BY <3>1, <3>2
  <2> QED
    BY <2>1, <2>2, QuietBefore
<1>28. ASSUME NEW g \in Gens, ServeHello(g) PROVE Publish \/ WasQuiet
  <2>1. sock' \in {0, sock}
    BY <1>28 DEF ServeHello, sender
  <2>2. ASSUME NEW c \in Gens, sock = c, sock' = c
        PROVE
          \/ rpc'[c] = "closing" \/ link'[c] # "up" \/ HasStop(Stream(c)')
          \/ /\ rpc[c] # "closing" /\ link[c] = "up"
             /\ HasStop(Stream(c)) => HasStop(Stream(c)')
    <3>1. c # g
      <4>1. toServer[g] # <<>> /\ Head(toServer[g]).kind = "hello"
            /\ toServer[g] \in Seq(Frames)
        BY <1>28, <1>0 DEF ServeHello, NetworkTypes
      <4>2. 1 \in DOMAIN toServer[g] /\ toServer[g][1].kind = "hello"
        BY <4>1
      <4>3. 0 \notin Gens
        BY BoundsHold DEF Gens
      <4> QED
        BY <4>2, <4>3, <2>2, <1>0 DEF Published
    <3>2. UNCHANGED <<rpc, hand, link, outgoing, results>>
      BY <1>28 DEF ServeHello, sender, reader, handler
    <3>3. toClient'[c] = toClient[c]
      BY <1>28, <3>1, <1>0 DEF ServeHello, Answer, NetworkTypes
    <3>4. Stream(c)' = Stream(c)
      BY <3>2, <3>3, StreamSame
    <3> QED
      BY <3>2, <3>4
  <2> QED
    BY <2>1, <2>2, QuietBefore
<1>29. ASSUME NEW g \in Gens, ServeTxn(g) PROVE Publish \/ WasQuiet
  <2>1. sock' \in {0, sock}
    BY <1>29 DEF ServeTxn, sender
  <2>2. ASSUME NEW c \in Gens, sock = c, sock' = c
        PROVE
          \/ rpc'[c] = "closing" \/ link'[c] # "up" \/ HasStop(Stream(c)')
          \/ /\ rpc[c] # "closing" /\ link[c] = "up"
             /\ HasStop(Stream(c)) => HasStop(Stream(c)')
    <3>1. CASE c = g
      <4>1. PICK f \in Frames, s \in Sessions, r \in Replies :
              TxnTaken(g, f, s, r)
        BY <1>29, TxnServed
      <4>2. Queued(g, r)
        BY <4>1 DEF TxnTaken, Queued, sender, reader
      <4>3. rpc' = rpc /\ link' = link
        BY <4>2 DEF Queued
      <4>4. link[g] = "up" => Stream(g)' = Append(Stream(g), r)
        BY <4>2, StreamServed
      <4>5. link[g] = "up" /\ rpc[g] # "closing" /\ HasStop(Stream(g))
              => HasStop(Stream(g)')
        BY <2>2, <3>1, <4>4, StopsStay
      <4> QED
        BY <3>1, <4>3, <4>5
    <3>2. CASE c # g
      <4>1. /\ rpc'[c] = rpc[c] /\ hand'[c] = hand[c] /\ toClient'[c] = toClient[c]
            /\ link'[c] = link[c] /\ outgoing'[c] = outgoing[c]
            /\ results'[c] = results[c]
        BY <1>29, <3>2, <1>0 DEF ServeTxn, sender, reader, network, handler,
           ReaderTypes, NetworkTypes
      <4>2. Stream(c)' = Stream(c)
        BY <4>1, StreamSame
      <4> QED
        BY <4>1, <4>2
    <3> QED
      BY <3>1, <3>2
  <2> QED
    BY <2>1, <2>2, QuietBefore
<1>30. ASSUME NEW g \in Gens, ResolveResult(g) PROVE Publish \/ WasQuiet
  <2>1. sock' \in {0, sock}
    BY <1>30 DEF ResolveResult, sender
  <2>2. ASSUME NEW c \in Gens, sock = c, sock' = c
        PROVE
          \/ rpc'[c] = "closing" \/ link'[c] # "up" \/ HasStop(Stream(c)')
          \/ /\ rpc[c] # "closing" /\ link[c] = "up"
             /\ HasStop(Stream(c)) => HasStop(Stream(c)')
    <3>1. CASE c = g
      <4>1. CASE Joined(g)
        <5>1. rpc' = rpc /\ link' = link
          BY <4>1 DEF Joined
        <5>2. rpc[g] # "closing" /\ HasStop(Stream(g)) => HasStop(Stream(g)')
          BY <2>2, <3>1, <4>1, StreamJoined, StopsStay
        <5> QED
          BY <3>1, <5>1, <5>2
      <4>2. CASE ~Joined(g)
        BY <1>30, <3>1, <4>2, StreamResolved
      <4> QED
        BY <4>1, <4>2
    <3>2. CASE c # g
      <4>1. /\ rpc'[c] = rpc[c] /\ hand'[c] = hand[c] /\ toClient'[c] = toClient[c]
            /\ link'[c] = link[c] /\ outgoing'[c] = outgoing[c]
            /\ results'[c] = results[c]
        BY <1>30, <3>2, <1>0 DEF ResolveResult, sender, reader, network,
           handler, ReaderTypes, NetworkTypes
      <4>2. Stream(c)' = Stream(c)
        BY <4>1, StreamSame
      <4> QED
        BY <4>1, <4>2
    <3> QED
      BY <3>1, <3>2
  <2> QED
    BY <2>1, <2>2, QuietBefore
<1>31. ASSUME NEW g \in Gens, SendResults(g) PROVE Publish \/ WasQuiet
  <2>1. sock' \in {0, sock}
    BY <1>31 DEF SendResults, sender
  <2>2. ASSUME NEW c \in Gens, sock = c, sock' = c
        PROVE
          \/ rpc'[c] = "closing" \/ link'[c] # "up" \/ HasStop(Stream(c)')
          \/ /\ rpc[c] # "closing" /\ link[c] = "up"
             /\ HasStop(Stream(c)) => HasStop(Stream(c)')
    <3>1. CASE c = g
      <4>1. rpc' = rpc /\ link' = link
        BY <1>31 DEF SendResults, sender, reader
      <4>2. Stream(c)' = Stream(c)
        BY <1>31, <3>1, StreamSent
      <4> QED
        BY <4>1, <4>2
    <3>2. CASE c # g
      <4>1. /\ rpc'[c] = rpc[c] /\ hand'[c] = hand[c] /\ toClient'[c] = toClient[c]
            /\ link'[c] = link[c] /\ outgoing'[c] = outgoing[c]
            /\ results'[c] = results[c]
        BY <1>31, <3>2, <1>0 DEF SendResults, sender, reader, network, handler,
           ReaderTypes, NetworkTypes
      <4>2. Stream(c)' = Stream(c)
        BY <4>1, StreamSame
      <4> QED
        BY <4>1, <4>2
    <3> QED
      BY <3>1, <3>2
  <2> QED
    BY <2>1, <2>2, QuietBefore
<1> QED
  BY <1>0, <1>1, <1>2, <1>3, <1>4, <1>5, <1>6, <1>7, <1>8, <1>9, <1>10,
     <1>11, <1>12, <1>13, <1>14, <1>15, <1>16, <1>17, <1>18, <1>19, <1>20,
     <1>21, <1>22, <1>23, <1>24, <1>25, <1>26, <1>27, <1>28, <1>29, <1>30,
     <1>31, StepCases

\* Serving frames never lowers the committed id.
LEMMA ReachedTyped ==
    ASSUME NEW q \in Seq(Frames), NEW done \in Nat
    PROVE  Reached(q, done) \in Nat /\ done <= Reached(q, done)
<1>1. CASE q = <<>>
  BY <1>1 DEF Reached
<1>2. CASE q # <<>>
  <2>1. Len(q) \in 1..Len(q)
    BY <1>2, EmptySeq, LenProperties
  <2>2. q[Len(q)] \in Frames
    BY <2>1, ElementOfSeq
  <2>3. q[Len(q)].id \in Nat
    BY <2>2 DEF Frames
  <2> QED
    BY <1>2, <2>3 DEF Reached, Greater
<1> QED
  BY <1>1, <1>2

\* The frames under way stay in step when none is added or served.
LEMMA InStepSame ==
    ASSUME LinkInv, Next, NEW g \in Gens, InStep(g), session' = session,
           toServer'[g] = toServer[g], Handed' \in Int,
           Handed' <= Handed \/ Handed' <= committed[session]
    PROVE  InStep(g)'
<1>0. TypeOK /\ NativeTypes /\ SenderTypes /\ ServerTypes /\ NetworkTypes
  BY TypeParts DEF LinkInv
<1>1. PICK q \in Seq(Frames) : q = toServer[g]
  BY <1>0 DEF NetworkTypes
<1>2. PICK done \in Nat : done = committed[session]
  BY <1>0 DEF ServerTypes, SenderTypes
<1>3. PICK more \in Nat : more = committed'[session]
  <2>1. ServerTypes'
    BY TypesKept, TypeParts
  <2> QED
    BY <2>1, <1>0 DEF ServerTypes, SenderTypes
<1>4. more >= done
  BY <1>0, <1>2, <1>3, CommittedGrows DEF SenderTypes
<1>5. Gapless(q, done) /\ Handed <= Reached(q, done)
  BY <1>1, <1>2 DEF InStep
<1>6. Gapless(q, more) /\ Reached(q, done) <= Reached(q, more)
  BY <1>4, <1>5, GaplessMore
<1>7. /\ Reached(q, done) \in Nat /\ Reached(q, more) \in Nat
      /\ done <= Reached(q, done)
  BY ReachedTyped
<1>8. Handed \in Int
  BY <1>0, HandedTyped
<1>9. PICK h \in Int : h = Handed'
  OBVIOUS
<1>10. h <= Reached(q, more)
  BY <1>2, <1>5, <1>6, <1>7, <1>8, <1>9
<1>11. toServer'[g] = q /\ committed'[session'] = more
  BY <1>1, <1>3
<1> QED
  BY <1>6, <1>9, <1>10, <1>11 DEF InStep

\* A step after which every quiet connection is in step.
LEMMA FramesSettled ==
    ASSUME LinkInv, WasQuiet,
           \A g \in Gens : sock = g /\ sock' = g /\ Quiet(g) /\ Quiet(g)'
                /\ InStep(g) => InStep(g)',
           sock' \in Gens \cup {0}
    PROVE  FramesInOrder'
<1>1. FramesInOrder /\ 0 \notin Gens
  BY BoundsHold DEF LinkInv, Gens
<1>2. SUFFICES ASSUME sock' # 0, Quiet(sock)' PROVE InStep(sock)'
  BY FramesInOrderParts
<1>3. PICK g \in Gens : g = sock'
  BY <1>2
<1>4. Quiet(g)'
  BY <1>2, <1>3 DEF Quiet, HasStop, Stream, Held, Coming
<1>5. sock = g /\ Quiet(g)
  BY <1>3, <1>4 DEF WasQuiet
<1>6. InStep(g)
  BY <1>1, <1>5, FramesInOrderParts
<1>7. InStep(g)'
  BY <1>3, <1>4, <1>5, <1>6
<1> QED
  BY <1>3, <1>7 DEF InStep

\* A step that neither sends nor serves on the published connection.
LEMMA FramesSame ==
    ASSUME LinkInv, Next, WasQuiet, sock' = 0 \/ session' = session,
           \A g \in Gens : sock = g /\ sock' = g /\ rpc'[g] # "closing" =>
             /\ toServer'[g] = toServer[g] /\ Handed' \in Int
             /\ Handed' <= Handed \/ Handed' <= committed[session]
    PROVE  FramesInOrder'
<1>1. sock' \in Gens \cup {0}
  BY TypesKept, TypeParts DEF SenderTypes
<1>2. 0 \notin Gens
  BY BoundsHold DEF Gens
<1>3. ASSUME NEW g \in Gens, sock = g, sock' = g, Quiet(g)', InStep(g)
      PROVE  InStep(g)'
  <2>1. rpc'[g] # "closing" /\ session' = session
    BY <1>2, <1>3 DEF Quiet
  <2> QED
    BY <1>3, <2>1, InStepSame
<1> QED
  BY <1>1, <1>3, FramesSettled

\* A frame that follows the last one handed over is sent.
LEMMA FramesSent ==
    ASSUME LinkInv, Next, NEW g \in Gens, NEW f \in Frames, InStep(g),
           session' = session, committed' = committed,
           toServer'[g] = Append(toServer[g], f), f.id <= Handed + 1,
           Handed' \in Int, Handed' <= Greater(committed[session], f.id)
    PROVE  InStep(g)'
<1>0. TypeOK /\ NativeTypes /\ SenderTypes /\ ServerTypes /\ NetworkTypes
  BY TypeParts DEF LinkInv
<1>1. PICK q \in Seq(Frames) : q = toServer[g]
  BY <1>0 DEF NetworkTypes
<1>2. PICK done \in Nat : done = committed[session]
  BY <1>0 DEF ServerTypes, SenderTypes
<1>5. Gapless(q, done) /\ Handed <= Reached(q, done)
  BY <1>1, <1>2 DEF InStep
<1>7. Reached(q, done) \in Nat
  BY ReachedTyped
<1>8. Handed \in Int /\ f.id \in Nat
  <2>1. f.id \in Nat
    BY DEF Frames
  <2> QED
    BY <2>1, <1>0, HandedTyped
<1>9. f.id <= 1 + Reached(q, done)
  BY <1>5, <1>7, <1>8
<1>10. PICK t : t = Append(q, f)
  OBVIOUS
<1>11. Gapless(t, done) /\ Reached(t, done) = Greater(done, f.id)
  BY <1>5, <1>9, <1>10, GaplessSent
<1>12. toServer'[g] = t /\ committed'[session'] = done
  BY <1>1, <1>2, <1>10
<1>13. Handed' <= Reached(t, done)
  BY <1>2, <1>11
<1>14. PICK h : h = Handed'
  OBVIOUS
<1> QED
  BY <1>11, <1>12, <1>13, <1>14 DEF InStep

\* A frame is served, and the committed id is at least its.
LEMMA FramesServed ==
    ASSUME LinkInv, Next, NEW g \in Gens, NEW f \in Frames, InStep(g),
           session' = session, toServer[g] # <<>>, f = toServer[g][1],
           toServer'[g] = Tail(toServer[g]), Handed' = Handed,
           f.id <= committed'[session]
    PROVE  InStep(g)'
<1>0. TypeOK /\ NativeTypes /\ SenderTypes /\ ServerTypes /\ NetworkTypes
  BY TypeParts DEF LinkInv
<1>1. PICK q \in Seq(Frames) : q = toServer[g]
  BY <1>0 DEF NetworkTypes
<1>2. PICK done \in Nat : done = committed[session]
  BY <1>0 DEF ServerTypes, SenderTypes
<1>3. PICK more \in Nat : more = committed'[session]
  <2>1. ServerTypes'
    BY TypesKept, TypeParts
  <2> QED
    BY <2>1, <1>0 DEF ServerTypes, SenderTypes
<1>4. more >= Greater(done, q[1].id)
  <2>1. more >= done
    BY <1>0, <1>2, <1>3, CommittedGrows DEF SenderTypes
  <2>2. q[1] = f
    BY <1>1
  <2> QED
    BY <2>1, <2>2, <1>3 DEF Greater
<1>5. Gapless(q, done) /\ Handed <= Reached(q, done)
  BY <1>1, <1>2 DEF InStep
<1>6. PICK t \in Seq(Frames) : t = Tail(q)
  BY <1>1, HeadTailProperties
<1>7. Gapless(t, more) /\ Reached(q, done) <= Reached(t, more)
  BY <1>1, <1>4, <1>5, <1>6, GaplessServed
<1>8. Reached(q, done) \in Nat /\ Reached(t, more) \in Nat
  BY ReachedTyped
<1>9. Handed \in Int
  BY <1>0, HandedTyped
<1>10. PICK h \in Int : h = Handed'
  BY <1>9
<1>11. h <= Reached(t, more)
  BY <1>5, <1>7, <1>8, <1>9, <1>10
<1>12. toServer'[g] = t /\ committed'[session'] = more
  BY <1>1, <1>3, <1>6
<1> QED
  BY <1>7, <1>10, <1>11, <1>12 DEF InStep

\* The last id handed over remains a number.
LEMMA HandedStaysTyped ==
    ASSUME LinkInv, Next
    PROVE  Handed' \in Int
<1>0. NativeTypes' /\ SenderTypes'
  BY TypesKept, TypeParts
<1>1. /\ lastAcked' \in Nat /\ unsent' \in Nat /\ nextId' \in Nat
      /\ claimed' # None => claimed'.id \in Nat
      /\ caller' # None => caller'.e.id \in Nat
  BY <1>0 DEF NativeTypes, SenderTypes, Entries
<1> QED
  BY <1>1 DEF Handed

\* The frames of the published connection leave no gap.
LEMMA FramesInOrderKept ==
    ASSUME LinkInv, Next
    PROVE  FramesInOrder'
<1>0. /\ TypeOK /\ NativeTypes /\ SenderTypes /\ ReaderTypes /\ NetworkTypes
      /\ ServerTypes /\ HandsFull /\ Attempting /\ CursorAtStart /\ Published
      /\ Sending /\ OutboxIsExact /\ HistoryIsExact
  BY TypeParts DEF LinkInv
<1>1. CASE BeginConnection
  <2>1. sock' = 0
    BY <1>1, <1>0 DEF BeginConnection
  <2> QED
    BY <2>1 DEF FramesInOrder, Listening
<1>2. CASE AttemptFails
  <2>1. sock' = 0
    BY <1>2, <1>0 DEF AttemptFails, Attempting
  <2> QED
    BY <2>1 DEF FramesInOrder, Listening
<1>3. CASE AcceptHello
  <2>1. sock' = 0
    BY <1>3, <1>0, HelloAccepted DEF AcceptHello, Attempting
  <2> QED
    BY <2>1 DEF FramesInOrder, Listening
<1>4. CASE Publish
  <2>1. /\ attempt = "accepted" /\ sock' = gen
        /\ background => attempt' = "idle"
        /\ ~background => attempt' = "replay"
        /\ UNCHANGED <<toServer, committed, session, background, claimed,
                       lastAcked, unsent>>
    BY <1>4 DEF Publish, native, outbox, identity, senders, network, server
  <2>2. toServer[gen] = <<>> /\ sock = 0 /\ unsent = 0
    BY <2>1, <1>0 DEF Attempting, CursorAtStart
  <2>3. claimed = None
    BY <2>2, <1>0 DEF Sending
  <2>4. lastAcked \in Nat /\ lastAcked <= committed[session]
    BY <1>0 DEF HistoryIsExact, NativeTypes, SenderTypes
  <2>5. Handed' = lastAcked
    <3>1. lastAcked + 0 = lastAcked
      BY <2>4
    <3> QED
      BY <2>1, <2>2, <2>3, <3>1, <1>0 DEF Handed, SenderTypes
  <2>6. toServer'[sock'] = <<>> /\ committed'[session'] = committed[session]
    BY <2>1, <2>2
  <2>7. DOMAIN <<>> = {}
    OBVIOUS
  <2>8. Gapless(toServer[sock], committed[session])'
    BY <2>6, <2>7 DEF Gapless
  <2>9. (Handed <= Reached(toServer[sock], committed[session]))'
    BY <2>4, <2>5, <2>6 DEF Reached
  <2> QED
    BY <2>8, <2>9 DEF FramesInOrder
<1>5. CASE ReplayNext
  <2>1. CASE Publish
    BY <2>1, <1>4
  <2>2. CASE ~Publish
    <3>1. WasQuiet
      BY <2>2, StillQuiet
    <3>2. session' = session /\ sock' = sock /\ committed' = committed
      BY <1>5 DEF ReplayNext, sender, identity, server
    <3>3. ASSUME NEW c \in Gens, sock = c, Quiet(c), InStep(c)
          PROVE  InStep(c)'
      <4>0. link[c] = "up" /\ c # 0
        BY <3>3, BoundsHold DEF Quiet, Gens
      <4>01. /\ unsent \in Nat /\ lastAcked \in Nat /\ queue \in Seq(Entries)
             /\ unsent < Len(queue) /\ attempt = "replay"
        BY <1>5, <1>0 DEF ReplayNext, Claimable, NativeTypes
      <4>02. unsent + 1 \in DOMAIN queue
        BY <4>01
      <4>03. ~background /\ sock = gen
        BY <4>01, <1>0 DEF Attempting
      <4>1. PICK e \in Entries : e = queue[unsent + 1] /\ Transmit(c, e)
        BY <1>5, <3>3, <4>01, <4>02, <4>03, ElementOfSeq DEF ReplayNext
      <4>2. PICK f \in Frames : f = Txn(e)
        BY <4>1 DEF Txn, Frames, Entries
      <4>3. f.id = e.id
        BY <4>2 DEF Txn
      <4>4. toServer'[c] = Append(toServer[c], f)
        BY <4>0, <4>1, <4>2, <1>0 DEF Transmit, NetworkTypes
      <4>04. e.id = lastAcked + (unsent + 1)
        BY <4>1, <4>02, <1>0 DEF OutboxIsExact
      <4>5. f.id <= Handed + 1
        <5>1. Handed = lastAcked + unsent
          BY <4>01, <4>03 DEF Handed
        <5> QED
          BY <5>1, <4>3, <4>04, <4>01
      <4>6. Handed' <= Greater(committed[session], f.id)
        <5>1. /\ UNCHANGED <<background, attempt, lastAcked>>
              /\ unsent' = unsent + 1
          BY <1>5 DEF ReplayNext, ClaimNext, sender, identity, connecting
        <5>2. Handed' = lastAcked + (unsent + 1)
          BY <5>1, <4>01, <4>03 DEF Handed
        <5>3. PICK n \in Nat : n = f.id
          BY DEF Frames
        <5>4. PICK done \in Nat : done = committed[session]
          BY <1>0 DEF ServerTypes, SenderTypes
        <5>5. Handed' = n
          BY <5>2, <5>3, <4>3, <4>04
        <5> QED
          BY <5>3, <5>4, <5>5 DEF Greater
      <4>7. Handed' \in Int
        BY HandedStaysTyped
      <4> QED
        BY <3>2, <3>3, <4>4, <4>5, <4>6, <4>7, FramesSent
    <3>4. sock' \in Gens \cup {0}
      BY <3>2, <1>0 DEF SenderTypes
    <3> QED
      BY <3>1, <3>3, <3>4, FramesSettled
  <2> QED
    BY <2>1, <2>2
<1>6. CASE ReplayDone
  <2>1. CASE Publish
    BY <2>1, <1>4
  <2>2. CASE ~Publish
    <3>1. WasQuiet
      BY <2>2, StillQuiet
    <3>2. session' = session
      BY <1>6 DEF ReplayDone, sender, identity
    <3>3. ASSUME NEW c \in Gens, sock = c, sock' = c, rpc'[c] # "closing"
          PROVE  /\ toServer'[c] = toServer[c] /\ Handed' \in Int
                 /\ Handed' <= Handed \/ Handed' <= committed[session]
      <4>1. toServer'[c] = toServer[c]
        BY <1>6, <3>3, <1>0 DEF ReplayDone, network, NetworkTypes
      <4>2. Handed' = Handed
        <5>1. /\ attempt = "replay" /\ ~Claimable /\ attempt' = "idle"
              /\ UNCHANGED <<background, caller, nextId>>
          BY <1>6 DEF ReplayDone, native, outbox, identity, senders
        <5>2. ~background /\ phase = "ready" /\ caller = None
          BY <5>1, <1>0 DEF Attempting, Sending
        <5>3. /\ unsent \in 0..Len(queue) /\ lastAcked \in Nat /\ nextId \in Nat
              /\ queue \in Seq(Entries) /\ Len(queue) = nextId - 1 - lastAcked
          BY <1>0 DEF NativeTypes, OutboxIsExact
        <5>4. ~(unsent < Len(queue)) /\ Len(queue) \in Nat
          BY <5>1, <5>2, <5>3 DEF Claimable
        <5>5. lastAcked + unsent = nextId - 1
          BY <5>3, <5>4
        <5> QED
          BY <5>1, <5>2, <5>5 DEF Handed
      <4>3. Handed \in Int
        BY <1>0, HandedTyped
      <4> QED
        BY <4>1, <4>2, <4>3
    <3> QED
      BY <3>1, <3>2, <3>3, FramesSame
  <2> QED
    BY <2>1, <2>2
<1>7. CASE ReplayFails
  <2>1. sock' = 0
    BY <1>7, <1>0 DEF ReplayFails, Attempting, Close
  <2> QED
    BY <2>1 DEF FramesInOrder, Listening
<1>8. CASE FinishSend
  <2>1. CASE Publish
    BY <2>1, <1>4
  <2>2. CASE ~Publish
    <3>1. WasQuiet
      BY <2>2, StillQuiet
    <3>2. session' = session /\ sock' = sock /\ committed' = committed
      BY <1>8 DEF FinishSend, sender, identity, server
    <3>3. ASSUME NEW c \in Gens, sock = c, Quiet(c), InStep(c)
          PROVE  InStep(c)'
      <4>0. link[c] = "up" /\ c # 0
        BY <3>3, BoundsHold DEF Quiet, Gens
      <4>01. /\ caller # None /\ caller' = None
             /\ UNCHANGED <<background, attempt, nextId>>
        BY <1>8 DEF FinishSend, native, outbox, identity, connecting
      <4>02. /\ ~background /\ attempt # "replay" /\ sock = caller.g
             /\ caller.e.id = nextId - 1
        BY <4>0, <4>01, <3>3, <1>0 DEF Sending
      <4>03. nextId \in Nat
        BY <1>0 DEF NativeTypes
      <4>1. PICK e \in Entries : e = caller.e /\ Transmit(c, e)
        BY <1>8, <3>3, <4>01, <4>02, <1>0 DEF FinishSend, SenderTypes
      <4>2. PICK f \in Frames : f = Txn(e)
        BY <4>1 DEF Txn, Frames, Entries
      <4>3. f.id = e.id
        BY <4>2 DEF Txn
      <4>4. toServer'[c] = Append(toServer[c], f)
        BY <4>0, <4>1, <4>2, <1>0 DEF Transmit, NetworkTypes
      <4>04. e.id = nextId - 1
        BY <4>1, <4>02
      <4>5. f.id <= Handed + 1
        <5>1. Handed = (nextId - 1) - 1
          BY <4>01, <4>02 DEF Handed
        <5> QED
          BY <5>1, <4>3, <4>04, <4>03
      <4>6. Handed' <= Greater(committed[session], f.id)
        <5>2. Handed' = nextId - 1
          BY <4>01, <4>02 DEF Handed
        <5>3. PICK n \in Nat : n = f.id
          BY DEF Frames
        <5>4. PICK done \in Nat : done = committed[session]
          BY <1>0 DEF ServerTypes, SenderTypes
        <5>5. Handed' = n
          BY <5>2, <5>3, <4>3, <4>04
        <5> QED
          BY <5>3, <5>4, <5>5 DEF Greater
      <4>7. Handed' \in Int
        BY HandedStaysTyped
      <4> QED
        BY <3>2, <3>3, <4>4, <4>5, <4>6, <4>7, FramesSent
    <3>4. sock' \in Gens \cup {0}
      BY <3>2, <1>0 DEF SenderTypes
    <3> QED
      BY <3>1, <3>3, <3>4, FramesSettled
  <2> QED
    BY <2>1, <2>2
<1>9. CASE SendRaises
  <2>1. sock' = 0
    BY <1>9, <1>0 DEF SendRaises, Close, Sending
  <2> QED
    BY <2>1 DEF FramesInOrder, Listening
<1>10. CASE WriterClaim
  <2>1. CASE Publish
    BY <2>1, <1>4
  <2>2. CASE ~Publish
    <3>1. WasQuiet
      BY <2>2, StillQuiet
    <3>2. session' = session
      BY <1>10 DEF WriterClaim, sender, identity
    <3>3. ASSUME NEW c \in Gens, sock = c, sock' = c, rpc'[c] # "closing"
          PROVE  /\ toServer'[c] = toServer[c] /\ Handed' \in Int
                 /\ Handed' <= Handed \/ Handed' <= committed[session]
      <4>1. toServer'[c] = toServer[c]
        BY <1>10, <3>3, <1>0 DEF WriterClaim, network, NetworkTypes
      <4>2. Handed' = Handed
        <5>1. /\ background /\ claimed = None /\ claimed' = queue[unsent + 1]
              /\ UNCHANGED <<background, lastAcked>> /\ unsent < Len(queue)
          BY <1>10 DEF WriterClaim, Claimable, identity
        <5>2. /\ unsent \in Nat /\ lastAcked \in Nat /\ queue \in Seq(Entries)
          BY <1>0 DEF NativeTypes
        <5>3. unsent + 1 \in DOMAIN queue
          BY <5>1, <5>2
        <5>4. queue[unsent + 1] \in Entries
          BY <5>2, <5>3, ElementOfSeq
        <5>5. queue[unsent + 1].id = lastAcked + (unsent + 1)
          BY <5>3, <1>0 DEF OutboxIsExact
        <5>6. claimed' # None /\ claimed'.id = lastAcked + (unsent + 1)
          BY <5>1, <5>4, <5>5, NoneAssumption
        <5>7. claimed'.id - 1 = lastAcked + unsent
          BY <5>2, <5>6
        <5> QED
          BY <5>1, <5>6, <5>7 DEF Handed
      <4>3. Handed \in Int
        BY <1>0, HandedTyped
      <4> QED
        BY <4>1, <4>2, <4>3
    <3> QED
      BY <3>1, <3>2, <3>3, FramesSame
  <2> QED
    BY <2>1, <2>2
<1>11. CASE WriterSend
  <2>1. CASE Publish
    BY <2>1, <1>4
  <2>2. CASE ~Publish
    <3>1. WasQuiet
      BY <2>2, StillQuiet
    <3>2. session' = session /\ sock' = sock /\ committed' = committed
      BY <1>11 DEF WriterSend, sender, identity, server
    <3>3. ASSUME NEW c \in Gens, sock = c, Quiet(c), InStep(c)
          PROVE  InStep(c)'
      <4>0. link[c] = "up" /\ c # 0
        BY <3>3, BoundsHold DEF Quiet, Gens
      <4>01. /\ claimed # None /\ claimed' = None
             /\ UNCHANGED <<background, lastAcked, unsent>>
        BY <1>11 DEF WriterSend, native, outbox, identity
      <4>02. /\ background
             /\ lastAcked + unsent <= Greater(claimed.id, committed[session])
        BY <4>01, <1>0 DEF Sending
      <4>1. PICK e \in Entries : e = claimed /\ Transmit(c, e)
        BY <1>11, <3>3, <4>01, <1>0 DEF WriterSend, SenderTypes
      <4>2. PICK f \in Frames : f = Txn(e)
        BY <4>1 DEF Txn, Frames, Entries
      <4>3. f.id = e.id
        BY <4>2 DEF Txn
      <4>4. toServer'[c] = Append(toServer[c], f)
        BY <4>0, <4>1, <4>2, <1>0 DEF Transmit, NetworkTypes
      <4>5. f.id <= Handed + 1
        <5>1. Handed = e.id - 1
          BY <4>01, <4>02, <4>1 DEF Handed
        <5>2. e.id \in Nat
          BY DEF Entries
        <5> QED
          BY <5>1, <5>2, <4>3
      <4>6. Handed' <= Greater(committed[session], f.id)
        <5>2. Handed' = lastAcked + unsent
          BY <4>01, <4>02 DEF Handed
        <5>3. PICK n \in Nat : n = f.id
          BY DEF Frames
        <5>4. PICK done \in Nat : done = committed[session]
          BY <1>0 DEF ServerTypes, SenderTypes
        <5>5. lastAcked + unsent <= Greater(n, done)
          BY <4>02, <4>1, <4>3, <5>3, <5>4
        <5>6. Greater(n, done) = Greater(done, n)
          BY DEF Greater
        <5> QED
          BY <5>2, <5>3, <5>4, <5>5, <5>6
      <4>7. Handed' \in Int
        BY HandedStaysTyped
      <4> QED
        BY <3>2, <3>3, <4>4, <4>5, <4>6, <4>7, FramesSent
    <3>4. sock' \in Gens \cup {0}
      BY <3>2, <1>0 DEF SenderTypes
    <3> QED
      BY <3>1, <3>3, <3>4, FramesSettled
  <2> QED
    BY <2>1, <2>2
<1>12. CASE WriterRaises
  <2>1. sock' = 0
    BY <1>12, <1>0 DEF WriterRaises, Close
  <2> QED
    BY <2>1 DEF FramesInOrder, Listening
<1>13. ASSUME NEW p \in Payloads, SendEvents(p) PROVE FramesInOrder'
  <2>1. CASE Publish
    BY <2>1, <1>4
  <2>2. CASE ~Publish
    <3>1. WasQuiet
      BY <2>2, StillQuiet
    <3>2. session' = session
      BY <1>13 DEF SendEvents, sender, identity
    <3>3. ASSUME NEW c \in Gens, sock = c, sock' = c, rpc'[c] # "closing"
          PROVE  /\ toServer'[c] = toServer[c] /\ Handed' \in Int
                 /\ Handed' <= Handed \/ Handed' <= committed[session]
      <4>1. toServer'[c] = toServer[c]
        BY <1>13, <3>3, <1>0 DEF SendEvents, network, NetworkTypes
      <4>2. Handed' = Handed
        <5>1. UNCHANGED <<background, claimed, lastAcked, unsent, attempt>>
          BY <1>13 DEF SendEvents, AppendNext, identity, connecting
        <5>2. CASE background
          BY <5>1, <5>2 DEF Handed
        <5>3. CASE ~background
          <6>1. /\ caller = None /\ attempt # "replay"
                /\ caller' = [g |-> sock, e |-> [id |-> nextId, p |-> p]]
            BY <1>13, <5>3 DEF SendEvents, SendLockFree
          <6>2. caller' # None
            <7>1. caller' \in [g : Gens, e : Entries]
              BY <6>1, <3>3, <1>0 DEF Entries, NativeTypes
            <7> QED
              BY <7>1, NoneAssumption
          <6>3. caller'.e.id = nextId
            BY <6>1
          <6> QED
            BY <5>1, <5>3, <6>1, <6>2, <6>3 DEF Handed
        <5> QED
          BY <5>2, <5>3
      <4>3. Handed \in Int
        BY <1>0, HandedTyped
      <4> QED
        BY <4>1, <4>2, <4>3
    <3> QED
      BY <3>1, <3>2, <3>3, FramesSame
  <2> QED
    BY <2>1, <2>2
<1>14. ASSUME NEW p \in Payloads, RepairRejectedTransaction(p)
       PROVE  FramesInOrder'
  <2>1. sock' = 0
    BY <1>14, <1>0 DEF RepairRejectedTransaction, CloseForRecovery
  <2> QED
    BY <2>1 DEF FramesInOrder, Listening
<1>15. CASE AbandonRejectedSession
  <2>1. sock' = 0
    BY <1>15, <1>0 DEF AbandonRejectedSession, CloseForRecovery
  <2> QED
    BY <2>1 DEF FramesInOrder, Listening
<1>16. CASE CancelConnect
  <2>1. sock' = 0
    BY <1>16, <1>0 DEF CancelConnect, Attempting
  <2> QED
    BY <2>1 DEF FramesInOrder, Listening
<1>17. CASE Disconnect
  <2>1. sock' = 0
    BY <1>17, <1>0 DEF Disconnect, Close
  <2> QED
    BY <2>1 DEF FramesInOrder, Listening
<1>18. ASSUME NEW g \in Gens, ServeError(g) PROVE FramesInOrder'
  <2>1. CASE Publish
    BY <2>1, <1>4
  <2>2. CASE ~Publish
    <3>1. WasQuiet
      BY <2>2, StillQuiet
    <3>2. session' = session /\ sock' = sock
      BY <1>18 DEF ServeError, sender, identity
    <3>3. Handed' = Handed /\ Handed \in Int
      <4>1. Handed' = Handed
        BY <1>18 DEF ServeError, Handed, native, outbox, sender, identity,
           senders, connecting
      <4> QED
        BY <4>1, <1>0, HandedTyped
    <3>4. ASSUME NEW c \in Gens, sock = c, Quiet(c), Quiet(c)', InStep(c)
          PROVE  InStep(c)'
      <4>1. CASE c # g
        <5>1. toServer'[c] = toServer[c]
          BY <1>18, <4>1, <1>0 DEF ServeError, NextTxn, NetworkTypes
        <5> QED
          BY <3>2, <3>3, <3>4, <5>1, InStepSame
      <4>2. CASE c = g
        <5>1. rpc[g] # "closing" /\ link[g] = "up" /\ ~HasStop(Stream(g)')
          <6>1. HasStop(Stream(g)') <=> HasStop(Stream(g))'
            BY DEF HasStop
          <6> QED
            BY <6>1, <3>4, <4>2 DEF Quiet
        <5>2. PICK r \in Replies : r = Reply("error", 0, 0)
          BY DEF Reply, Replies
        <5>3. Queued(g, r) /\ r.kind \in Stops
          BY <1>18, <5>2 DEF ServeError, Queued, sender, reader, Reply, Stops
        <5>4. HasStop(Stream(g)')
          BY <3>4, <4>2, <5>1, <5>3, StreamServed, StopsStay
        <5> QED
          BY <5>1, <5>4
      <4> QED
        BY <4>1, <4>2
    <3>5. sock' \in Gens \cup {0}
      BY <3>2, <1>0 DEF SenderTypes
    <3> QED
      BY <3>1, <3>4, <3>5, FramesSettled
  <2> QED
    BY <2>1, <2>2
<1>19. ASSUME NEW g \in Gens, ServeLimited(g) PROVE FramesInOrder'
  <2>1. CASE Publish
    BY <2>1, <1>4
  <2>2. CASE ~Publish
    <3>1. WasQuiet
      BY <2>2, StillQuiet
    <3>2. session' = session /\ sock' = sock
      BY <1>19 DEF ServeLimited, sender, identity
    <3>3. Handed' = Handed /\ Handed \in Int
      <4>1. Handed' = Handed
        BY <1>19 DEF ServeLimited, Handed, native, outbox, sender, identity,
           senders, connecting
      <4> QED
        BY <4>1, <1>0, HandedTyped
    <3>4. ASSUME NEW c \in Gens, sock = c, Quiet(c), Quiet(c)', InStep(c)
          PROVE  InStep(c)'
      <4>1. CASE c # g
        <5>1. toServer'[c] = toServer[c]
          BY <1>19, <4>1, <1>0 DEF ServeLimited, NextTxn, NetworkTypes
        <5> QED
          BY <3>2, <3>3, <3>4, <5>1, InStepSame
      <4>2. CASE c = g
        <5>1. rpc[g] # "closing" /\ link[g] = "up" /\ ~HasStop(Stream(g)')
          <6>1. HasStop(Stream(g)') <=> HasStop(Stream(g))'
            BY DEF HasStop
          <6> QED
            BY <6>1, <3>4, <4>2 DEF Quiet
        <5>2. PICK r \in Replies : r = Reply("limited", 0, 0)
          BY DEF Reply, Replies
        <5>3. Noticed(g, r) /\ r.kind = "limited"
          BY <1>19, <5>2 DEF ServeLimited, Noticed, sender, reader, handler,
             Reply
        <5>4. HasStop(Stream(g)')
          BY <3>4, <4>2, <5>1, <5>3, StreamNoticed, StopsStay
        <5> QED
          BY <5>1, <5>4
      <4> QED
        BY <4>1, <4>2
    <3>5. sock' \in Gens \cup {0}
      BY <3>2, <1>0 DEF SenderTypes
    <3> QED
      BY <3>1, <3>4, <3>5, FramesSettled
  <2> QED
    BY <2>1, <2>2
<1>20. ASSUME NEW g \in Gens, Break(g) PROVE FramesInOrder'
  <2>1. CASE Publish
    BY <2>1, <1>4
  <2>2. CASE ~Publish
    <3>1. WasQuiet
      BY <2>2, StillQuiet
    <3>2. session' = session /\ sock' = sock /\ link'[g] # "up"
      BY <1>20, <1>0 DEF Break, sender, identity, NetworkTypes
    <3>3. Handed' = Handed /\ Handed \in Int
      <4>1. Handed' = Handed
        BY <1>20 DEF Break, Handed, native, outbox, sender, identity, senders,
           connecting
      <4> QED
        BY <4>1, <1>0, HandedTyped
    <3>4. ASSUME NEW c \in Gens, sock = c, Quiet(c), Quiet(c)', InStep(c)
          PROVE  InStep(c)'
      <4>1. c # g
        BY <3>2, <3>4 DEF Quiet
      <4>2. toServer'[c] = toServer[c]
        BY <1>20, <4>1, <1>0 DEF Break, NetworkTypes
      <4> QED
        BY <3>2, <3>3, <3>4, <4>2, InStepSame
    <3>5. sock' \in Gens \cup {0}
      BY <3>2, <1>0 DEF SenderTypes
    <3> QED
      BY <3>1, <3>4, <3>5, FramesSettled
  <2> QED
    BY <2>1, <2>2
<1>21. CASE Restart
  <2>1. CASE sock' = 0
    BY <2>1 DEF FramesInOrder, Listening
  <2>2. CASE sock' # 0
    <3>1. sock' \in Gens
      BY <1>21, <2>2, <1>0 DEF Restart, sender, SenderTypes
    <3>2. link'[sock'] # "up"
      BY <1>21, <3>1 DEF Restart
    <3> QED
      BY <3>2 DEF FramesInOrder
  <2> QED
    BY <2>1, <2>2
<1>22. CASE EditGraph
  <2>1. CASE Publish
    BY <2>1, <1>4
  <2>2. CASE ~Publish
    <3>1. WasQuiet
      BY <2>2, StillQuiet
    <3>2. session' = session
      BY <1>22 DEF EditGraph, sender, identity
    <3>3. ASSUME NEW c \in Gens, sock = c, sock' = c, rpc'[c] # "closing"
          PROVE  /\ toServer'[c] = toServer[c] /\ Handed' \in Int
                 /\ Handed' <= Handed \/ Handed' <= committed[session]
      <4>1. toServer'[c] = toServer[c]
        BY <1>22, <3>3, <1>0 DEF EditGraph, network, NetworkTypes
      <4>2. Handed' = Handed
        BY <1>22, <3>3, <1>0 DEF EditGraph, Handed, native, outbox, sender,
           identity, senders, connecting
      <4>3. Handed \in Int
        BY <1>0, HandedTyped
      <4> QED
        BY <4>1, <4>2, <4>3
    <3> QED
      BY <3>1, <3>2, <3>3, FramesSame
  <2> QED
    BY <2>1, <2>2
<1>23. ASSUME NEW g \in Gens, ReceiveResult(g) PROVE FramesInOrder'
  <2>1. CASE Publish
    BY <2>1, <1>4
  <2>2. CASE ~Publish
    <3>1. WasQuiet
      BY <2>2, StillQuiet
    <3>2. session' = session
      BY <1>23 DEF ReceiveResult, sender, identity
    <3>3. ASSUME NEW c \in Gens, sock = c, sock' = c, rpc'[c] # "closing"
          PROVE  /\ toServer'[c] = toServer[c] /\ Handed' \in Int
                 /\ Handed' <= Handed \/ Handed' <= committed[session]
      <4>1. toServer'[c] = toServer[c]
        BY <1>23, <3>3, <1>0 DEF ReceiveResult, network, NetworkTypes
      <4>2. Handed' = Handed
        BY <1>23, <3>3, <1>0 DEF ReceiveResult, Handed, native, outbox,
           sender, identity, senders, connecting
      <4>3. Handed \in Int
        BY <1>0, HandedTyped
      <4> QED
        BY <4>1, <4>2, <4>3
    <3> QED
      BY <3>1, <3>2, <3>3, FramesSame
  <2> QED
    BY <2>1, <2>2
<1>24. ASSUME NEW g \in Gens, ReceiveRaises(g) PROVE FramesInOrder'
  <2>1. CASE Publish
    BY <2>1, <1>4
  <2>2. CASE ~Publish
    <3>1. WasQuiet
      BY <2>2, StillQuiet
    <3>2. session' = session
      BY <1>24 DEF ReceiveRaises, sender, identity
    <3>3. ASSUME NEW c \in Gens, sock = c, sock' = c, rpc'[c] # "closing"
          PROVE  /\ toServer'[c] = toServer[c] /\ Handed' \in Int
                 /\ Handed' <= Handed \/ Handed' <= committed[session]
      <4>1. toServer'[c] = toServer[c]
        BY <1>24, <3>3, <1>0 DEF ReceiveRaises, network, NetworkTypes
      <4>2. Handed' = Handed
        BY <1>24, <3>3, <1>0 DEF ReceiveRaises, Handed, native, outbox,
           sender, identity, senders, connecting
      <4>3. Handed \in Int
        BY <1>0, HandedTyped
      <4> QED
        BY <4>1, <4>2, <4>3
    <3> QED
      BY <3>1, <3>2, <3>3, FramesSame
  <2> QED
    BY <2>1, <2>2
<1>25. ASSUME NEW g \in Gens, ApplyResult(g) PROVE FramesInOrder'
  <2>1. CASE Publish
    BY <2>1, <1>4
  <2>2. CASE ~Publish
    <3>1. WasQuiet
      BY <2>2, StillQuiet
    <3>2. session' = session
      BY <1>25 DEF ApplyResult, sender, identity
    <3>3. ASSUME NEW c \in Gens, sock = c, sock' = c, rpc'[c] # "closing"
          PROVE  /\ toServer'[c] = toServer[c] /\ Handed' \in Int
                 /\ Handed' <= Handed \/ Handed' <= committed[session]
      <4>1. toServer'[c] = toServer[c]
        BY <1>25, <3>3, <1>0 DEF ApplyResult, network, NetworkTypes
      <4>2. Handed' = Handed \/ (Handed' <= committed[session] /\ Handed' \in Int)
        <5>1. UNCHANGED <<background, claimed, attempt, caller>>
          BY <1>25, ResultApplied DEF identity, connecting, senders
        <5>2. CASE UNCHANGED <<lastAcked, unsent, nextId>>
          <6>1. lastAcked' + unsent' = lastAcked + unsent /\ nextId' = nextId
            BY <5>2
          <6>2. Handed' = Handed
            BY <5>1, <6>1 DEF Handed
          <6> QED
            BY <6>2
        <5>3. CASE ~UNCHANGED <<lastAcked, unsent, nextId>>
          <6>1. sock = g /\ g = c
            BY <1>25, <3>3, <5>3, ResultApplied DEF outbox
          <6>2. rpc' # [rpc EXCEPT ![g] = "closing"]
            BY <3>3, <6>1, <1>0 DEF ReaderTypes
          <6>3. /\ hand[g] \in Replies /\ HighwaterValid(hand[g].id)
                /\ hand[g].id <= committed[session]
                /\ AcknowledgeOutbox(hand[g].id)
            BY <1>25, <6>1, <6>2, ResultApplied
          <6>4. PICK id \in Nat : id = hand[g].id
            BY <6>3 DEF Replies
          <6>5. /\ nextId' = nextId
                /\ lastAcked' + unsent' =
                     IF id - lastAcked < unsent THEN lastAcked + unsent ELSE id
            BY <6>3, <6>4, <1>0, OutboxAcknowledged
          <6>6. \/ lastAcked' + unsent' = lastAcked + unsent
                \/ lastAcked' + unsent' = id
            BY <6>5
          <6>7. Handed' = Handed \/ Handed' = id
            BY <5>1, <6>5, <6>6 DEF Handed
          <6>8. id <= committed[session] /\ id \in Int
            BY <6>3, <6>4
          <6> QED
            BY <6>7, <6>8
        <5> QED
          BY <5>2, <5>3
      <4>3. Handed \in Int
        BY <1>0, HandedTyped
      <4> QED
        BY <4>1, <4>2, <4>3
    <3> QED
      BY <3>1, <3>2, <3>3, FramesSame
  <2> QED
    BY <2>1, <2>2
<1>26. ASSUME NEW g \in Gens, ApplyLimited(g) PROVE FramesInOrder'
  <2>1. CASE Publish
    BY <2>1, <1>4
  <2>2. CASE ~Publish
    <3>1. WasQuiet
      BY <2>2, StillQuiet
    <3>2. session' = session
      BY <1>26 DEF ApplyLimited, sender, identity
    <3>3. ASSUME NEW c \in Gens, sock = c, sock' = c, rpc'[c] # "closing"
          PROVE  /\ toServer'[c] = toServer[c] /\ Handed' \in Int
                 /\ Handed' <= Handed \/ Handed' <= committed[session]
      <4>1. toServer'[c] = toServer[c]
        BY <1>26, <3>3, <1>0 DEF ApplyLimited, network, NetworkTypes
      <4>2. Handed' = Handed
        BY <1>26, <3>3, <1>0 DEF ApplyLimited, Handed, native, outbox, sender,
           identity, senders, connecting
      <4>3. Handed \in Int
        BY <1>0, HandedTyped
      <4> QED
        BY <4>1, <4>2, <4>3
    <3> QED
      BY <3>1, <3>2, <3>3, FramesSame
  <2> QED
    BY <2>1, <2>2
<1>27. ASSUME NEW g \in Gens, CloseReader(g) PROVE FramesInOrder'
  <2>1. CASE Publish
    BY <2>1, <1>4
  <2>2. CASE ~Publish
    <3>1. WasQuiet
      BY <2>2, StillQuiet
    <3>2. session' = session
      BY <1>27 DEF CloseReader, sender, identity
    <3>3. ASSUME NEW c \in Gens, sock = c, sock' = c, rpc'[c] # "closing"
          PROVE  /\ toServer'[c] = toServer[c] /\ Handed' \in Int
                 /\ Handed' <= Handed \/ Handed' <= committed[session]
      <4>1. toServer'[c] = toServer[c]
        BY <1>27, <3>3, <1>0 DEF CloseReader, network, NetworkTypes
      <4>2. Handed' = Handed
        BY <1>27, BoundsHold, <3>3, <1>0 DEF CloseReader, Handed, native,
           outbox, sender, identity, senders, connecting, Close, Gens
      <4>3. Handed \in Int
        BY <1>0, HandedTyped
      <4> QED
        BY <4>1, <4>2, <4>3
    <3> QED
      BY <3>1, <3>2, <3>3, FramesSame
  <2> QED
    BY <2>1, <2>2
<1>28. ASSUME NEW g \in Gens, ServeHello(g) PROVE FramesInOrder'
  <2>1. CASE Publish
    BY <2>1, <1>4
  <2>2. CASE ~Publish
    <3>1. WasQuiet
      BY <2>2, StillQuiet
    <3>2. session' = session
      BY <1>28 DEF ServeHello, sender, identity
    <3>3. ASSUME NEW c \in Gens, sock = c, sock' = c, rpc'[c] # "closing"
          PROVE  /\ toServer'[c] = toServer[c] /\ Handed' \in Int
                 /\ Handed' <= Handed \/ Handed' <= committed[session]
      <4>1. toServer'[c] = toServer[c]
        <5>1. toServer[g] # <<>> /\ Head(toServer[g]).kind = "hello"
              /\ toServer[g] \in Seq(Frames)
          BY <1>28, <1>0 DEF ServeHello, NetworkTypes
        <5>2. 1 \in DOMAIN toServer[g] /\ toServer[g][1].kind = "hello"
          BY <5>1
        <5>3. c # 0
          BY BoundsHold DEF Gens
        <5>4. c # g
          BY <5>2, <5>3, <3>3, <1>0 DEF Published
        <5> QED
          BY <1>28, <5>4, <1>0 DEF ServeHello, NetworkTypes
      <4>2. Handed' = Handed
        BY <1>28, <3>3, <1>0 DEF ServeHello, Handed, native, outbox, sender,
           identity, senders, connecting
      <4>3. Handed \in Int
        BY <1>0, HandedTyped
      <4> QED
        BY <4>1, <4>2, <4>3
    <3> QED
      BY <3>1, <3>2, <3>3, FramesSame
  <2> QED
    BY <2>1, <2>2
<1>29. ASSUME NEW g \in Gens, ServeTxn(g) PROVE FramesInOrder'
  <2>1. CASE Publish
    BY <2>1, <1>4
  <2>2. CASE ~Publish
    <3>1. WasQuiet
      BY <2>2, StillQuiet
    <3>2. session' = session /\ sock' = sock
      BY <1>29 DEF ServeTxn, sender, identity
    <3>3. Handed' = Handed /\ Handed \in Int
      <4>1. Handed' = Handed
        BY <1>29 DEF ServeTxn, Handed, native, outbox, sender, identity,
           senders, connecting
      <4> QED
        BY <4>1, <1>0, HandedTyped
    <3>4. ASSUME NEW c \in Gens, sock = c, Quiet(c), Quiet(c)', InStep(c)
          PROVE  InStep(c)'
      <4>1. CASE c # g
        <5>1. toServer'[c] = toServer[c]
          BY <1>29, <4>1, <1>0 DEF ServeTxn, NextTxn, NetworkTypes
        <5> QED
          BY <3>2, <3>3, <3>4, <5>1, InStepSame
      <4>2. CASE c = g
        <5>1. rpc[g] # "closing" /\ link[g] = "up" /\ ~HasStop(Stream(g)')
          <6>1. HasStop(Stream(g)') <=> HasStop(Stream(g))'
            BY DEF HasStop
          <6> QED
            BY <6>1, <3>4, <4>2 DEF Quiet
        <5>2. PICK f \in Frames, s \in Sessions, r \in Replies :
                TxnTaken(g, f, s, r) /\ (Commits(f, s, r) \/ Declines(f, s, r))
          BY <1>29, TxnServed
        <5>3. Queued(g, r)
          BY <5>2 DEF TxnTaken, Queued, sender, reader
        <5>4. r.kind \notin Stops
          BY <3>4, <4>2, <5>1, <5>3, StreamServed, StopsStay
        <5>5. s = session
          <6>1. c # 0
            BY BoundsHold DEF Gens
          <6> QED
            BY <6>1, <3>4, <4>2, <5>2, <1>0 DEF TxnTaken, Published
        <5>6. toServer[g] \in Seq(Frames) /\ toServer[g] # <<>> /\ f = toServer[g][1]
          BY <5>2, <1>0 DEF TxnTaken, NetworkTypes
        <5>7. f.id <= 1 + committed[session]
          <6>1. 1 \in DOMAIN toServer[g]
            BY <5>6
          <6> QED
            BY <6>1, <5>6, <3>4, <4>2 DEF InStep, Gapless
        <5>8. f.id \in Nat /\ committed[session] \in Nat
          BY <1>0 DEF Frames, ServerTypes, SenderTypes
        <5>9. f.id <= committed'[session]
          <6>1. CASE Commits(f, s, r)
            BY <6>1, <5>5, <5>8, <1>0 DEF Commits, ServerTypes
          <6>2. CASE Declines(f, s, r)
            BY <6>2, <5>4, <5>5, <5>7, <5>8 DEF Declines, Stops
          <6> QED
            BY <5>2, <6>1, <6>2
        <5>10. toServer'[g] = Tail(toServer[g])
          BY <5>2, <1>0 DEF TxnTaken, NetworkTypes
        <5> QED
          BY <3>2, <3>3, <3>4, <4>2, <5>6, <5>9, <5>10, FramesServed
      <4> QED
        BY <4>1, <4>2
    <3>5. sock' \in Gens \cup {0}
      BY <3>2, <1>0 DEF SenderTypes
    <3> QED
      BY <3>1, <3>4, <3>5, FramesSettled
  <2> QED
    BY <2>1, <2>2
<1>30. ASSUME NEW g \in Gens, ResolveResult(g) PROVE FramesInOrder'
  <2>1. CASE Publish
    BY <2>1, <1>4
  <2>2. CASE ~Publish
    <3>1. WasQuiet
      BY <2>2, StillQuiet
    <3>2. session' = session
      BY <1>30 DEF ResolveResult, sender, identity
    <3>3. ASSUME NEW c \in Gens, sock = c, sock' = c, rpc'[c] # "closing"
          PROVE  /\ toServer'[c] = toServer[c] /\ Handed' \in Int
                 /\ Handed' <= Handed \/ Handed' <= committed[session]
      <4>1. toServer'[c] = toServer[c]
        BY <1>30, <3>3, <1>0 DEF ResolveResult, network, NetworkTypes
      <4>2. Handed' = Handed
        BY <1>30, <3>3, <1>0 DEF ResolveResult, Handed, native, outbox,
           sender, identity, senders, connecting
      <4>3. Handed \in Int
        BY <1>0, HandedTyped
      <4> QED
        BY <4>1, <4>2, <4>3
    <3> QED
      BY <3>1, <3>2, <3>3, FramesSame
  <2> QED
    BY <2>1, <2>2
<1>31. ASSUME NEW g \in Gens, SendResults(g) PROVE FramesInOrder'
  <2>1. CASE Publish
    BY <2>1, <1>4
  <2>2. CASE ~Publish
    <3>1. WasQuiet
      BY <2>2, StillQuiet
    <3>2. session' = session
      BY <1>31 DEF SendResults, sender, identity
    <3>3. ASSUME NEW c \in Gens, sock = c, sock' = c, rpc'[c] # "closing"
          PROVE  /\ toServer'[c] = toServer[c] /\ Handed' \in Int
                 /\ Handed' <= Handed \/ Handed' <= committed[session]
      <4>1. toServer'[c] = toServer[c]
        BY <1>31, <3>3, <1>0 DEF SendResults, network, NetworkTypes
      <4>2. Handed' = Handed
        BY <1>31, <3>3, <1>0 DEF SendResults, Handed, native, outbox, sender,
           identity, senders, connecting
      <4>3. Handed \in Int
        BY <1>0, HandedTyped
      <4> QED
        BY <4>1, <4>2, <4>3
    <3> QED
      BY <3>1, <3>2, <3>3, FramesSame
  <2> QED
    BY <2>1, <2>2
<1> QED
  BY <1>0, <1>1, <1>2, <1>3, <1>4, <1>5, <1>6, <1>7, <1>8, <1>9, <1>10,
     <1>11, <1>12, <1>13, <1>14, <1>15, <1>16, <1>17, <1>18, <1>19, <1>20,
     <1>21, <1>22, <1>23, <1>24, <1>25, <1>26, <1>27, <1>28, <1>29, <1>30,
     <1>31, StepCases

-----------------------------------------------------------------------------
(* The invariant.                                                          *)

\* The invariant holds before the first connection.
LEMMA LinkInit == Init => LinkInv
<1> SUFFICES ASSUME Init PROVE LinkInv
  OBVIOUS
<1>0. /\ MaxGen \in Nat /\ 0 \notin Gens /\ 1 \in Sessions
      /\ scenario \in Scenarios /\ background \in BOOLEAN
      /\ scenario.faults \in Nat /\ scenario.flips \in Nat
      /\ scenario.repairs \in Nat
  <2>1. MaxGen \in Nat /\ 0 \notin Gens
    BY BoundsHold DEF Gens
  <2>2. scenario \in Scenarios
    BY DEF Init
  <2>3. 1 \in Sessions
    <3>1. /\ scenario.sessions \in Nat /\ scenario.sessions >= 1
          /\ scenario.sessions <= Most("sessions") /\ Most("sessions") \in Nat
      BY <2>2, BoundsHold
    <3> QED
      BY <3>1 DEF Sessions
  <2>4. /\ background \in scenario.modes /\ scenario.modes \subseteq BOOLEAN
        /\ scenario.faults \in Nat /\ scenario.flips \in Nat
        /\ scenario.repairs \in Nat
    BY <2>2, ProducerLinkAssumption DEF Init
  <2> QED
    BY <2>1, <2>2, <2>3, <2>4
<1>1. \A S : <<>> \in Seq(S)
  OBVIOUS
<1>2. Len(<<>>) = 0 /\ DOMAIN <<>> = {}
  OBVIOUS
<1>3. NativeTypes
  <2>1. queue \in Seq(Entries) /\ Len(queue) = 0
    BY <1>1, <1>2 DEF Init
  <2> QED
    BY <2>1 DEF Init, NativeTypes
<1>4. SenderTypes
  <2>1. artifact \in Seq(Entries)
    BY <1>1 DEF Init
  <2> QED
    BY <2>1, <1>0 DEF Init, SenderTypes
<1>5. ReaderTypes
  BY DEF Init, ReaderTypes
<1>6. NetworkTypes
  <2>1. toServer \in [Gens -> Seq(Frames)]
    BY <1>1 DEF Init
  <2>2. toClient \in [Gens -> Seq(Replies)] /\ results \in [Gens -> Seq(Replies)]
        /\ outgoing \in [Gens -> Seq(Replies)]
    BY <1>1 DEF Init
  <2>3. link \in [Gens -> {"unused", "up", "shut", "down"}]
        /\ owner \in [Gens -> Sessions]
    BY <1>0 DEF Init
  <2> QED
    BY <2>1, <2>2, <2>3 DEF NetworkTypes
<1>7. ServerTypes
  <2>1. log \in Seq([s : Sessions, id : Nat, p : Payloads])
    BY <1>1 DEF Init
  <2>2. versions \in [Sessions -> Seq(Seq(Payloads))]
    BY <1>1 DEF Init
  <2>3. committed \in [Sessions -> Nat] /\ acked \in [Sessions -> Nat]
        /\ attached \in BOOLEAN
    BY DEF Init
  <2>4. faults \in 0..scenario.faults /\ flips \in 0..scenario.flips
        /\ repairs \in 0..scenario.repairs
    BY <1>0 DEF Init
  <2> QED
    BY <2>1, <2>2, <2>3, <2>4 DEF ServerTypes
<1>8. TypeOK
  BY <1>3, <1>4, <1>5, <1>6, <1>7, TypeParts
<1>9. HandsFull
  <2>1. ASSUME NEW g \in Gens
        PROVE  rpc[g] # "holding" /\ toClient[g] = <<>> /\ outgoing[g] = <<>>
    BY DEF Init
  <2> QED
    BY <2>1, SendableEmpty DEF HandsFull
<1>10. UnusedIsEmpty
  BY DEF Init, UnusedIsEmpty
<1>11. Attempting /\ CursorAtStart /\ Published
  BY DEF Init, Attempting, CursorAtStart, Published
<1>12. Sending /\ Recovering
  BY DEF Init, Sending, Recovering
<1>13. OutboxIsExact
  <2>1. versions[session] = <<>>
    BY <1>0 DEF Init
  <2> QED
    BY <2>1, <1>2 DEF Init, OutboxIsExact
<1>14. HistoryIsExact
  <2>1. \A s \in Sessions : versions[s] = <<>> /\ acked[s] = 0 /\ committed[s] = 0
    BY DEF Init
  <2>2. session \in Sessions /\ lastAcked = 0
    BY <1>0 DEF Init
  <2> QED
    BY <2>1, <2>2, <1>2 DEF HistoryIsExact
<1>15. LogIsOrdered
  <2>1. \A s \in Sessions : committed[s] = 0
    BY DEF Init
  <2>2. log = <<>>
    BY DEF Init
  <2>3. \A s \in Sessions : 1..committed[s] = {}
    BY <2>1
  <2> QED
    BY <2>2, <2>3, <1>2 DEF LogIsOrdered
<1>16. FramesKnown
  <2>1. \A g \in Gens : toServer[g] = <<>>
    BY DEF Init
  <2>2. claimed = None /\ caller = None
    BY DEF Init
  <2> QED
    BY <2>1, <2>2, <1>2 DEF FramesKnown
<1>17. AnswersInOrder /\ FramesInOrder
  BY DEF Init, AnswersInOrder, FramesInOrder, Listening
<1>18. CheckpointIsLast
  BY DEF Init, CheckpointIsLast
<1> QED
  BY <1>8, <1>9, <1>10, <1>11, <1>12, <1>13, <1>14, <1>15, <1>16, <1>17,
     <1>18 DEF LinkInv

\* The invariant survives a step that changes nothing.
LEMMA LinkStutter ==
    ASSUME LinkInv, UNCHANGED vars
    PROVE  LinkInv'
<1>1. /\ UNCHANGED <<phase, gen, queue, unsent, nextId, lastAcked, rejectedId>>
      /\ UNCHANGED <<disposition, session, background, scenario, sock, failure>>
      /\ UNCHANGED <<artifact, checkpoint, attempt, live, caller, claimed>>
      /\ UNCHANGED <<rpc, hand, link, toServer, toClient, owner, results>>
      /\ UNCHANGED <<outgoing, log, committed, attached, versions, acked>>
      /\ UNCHANGED <<faults, flips, repairs>>
  BY DEF vars, native, outbox, recovery, sender, identity, record, connecting,
     senders, reader, network, handler, server, history, bounds
<1>0. NativeTypes /\ SenderTypes /\ ReaderTypes /\ NetworkTypes /\ ServerTypes
  BY TypeParts DEF LinkInv
<1>2. TypeOK' /\ HandsFull'
  <2>1. NativeTypes' /\ SenderTypes'
    BY <1>0, <1>1 DEF NativeTypes, SenderTypes
  <2>2. ReaderTypes' /\ NetworkTypes'
    BY <1>0, <1>1 DEF ReaderTypes, NetworkTypes
  <2>3. ServerTypes'
    BY <1>0, <1>1 DEF ServerTypes
  <2>4. HandsFull'
    BY <1>1 DEF LinkInv, HandsFull
  <2> QED
    BY <2>1, <2>2, <2>3, <2>4, TypeParts
<1>3. UnusedIsEmpty' /\ Attempting' /\ CursorAtStart' /\ Published'
  BY <1>1 DEF LinkInv, UnusedIsEmpty, Attempting, CursorAtStart, Published
<1>4. Sending' /\ Recovering'
  BY <1>1 DEF LinkInv, Sending, Recovering
<1>5. OutboxIsExact' /\ HistoryIsExact'
  BY <1>1 DEF LinkInv, OutboxIsExact, HistoryIsExact, Current
<1>6. LogIsOrdered' /\ CheckpointIsLast'
  BY <1>1 DEF LinkInv, LogIsOrdered, CheckpointIsLast
<1>7. FramesKnown'
  BY <1>1 DEF LinkInv, FramesKnown, Known
<1>8. AnswersInOrder'
  <2>1. Stream(sock)' = Stream(sock)
    BY <1>1 DEF Stream, Held, Coming
  <2>2. PICK q : q = Stream(sock)
    OBVIOUS
  <2>3. AnswersInOrder
    BY DEF LinkInv
  <2>4. Listening => Sound(q, lastAcked) /\ \A i \in DOMAIN q : Backed(q[i])
    BY <2>2, <2>3 DEF AnswersInOrder
  <2>5. \A i \in DOMAIN q : Backed(q[i]) => Backed(q[i])'
    BY <1>1 DEF Backed
  <2>6. Listening' = Listening
    BY <1>1 DEF Listening
  <2>7. Stream(sock)' = q /\ lastAcked' = lastAcked
    BY <1>1, <2>1, <2>2
  <2>8. Listening' => /\ Sound(Stream(sock), lastAcked)'
                      /\ \A i \in DOMAIN Stream(sock)' : Backed(Stream(sock)[i])'
    BY <2>4, <2>5, <2>6, <2>7 DEF Sound
  <2> QED
    BY <2>8 DEF AnswersInOrder
<1>9. FramesInOrder'
  BY <1>1 DEF LinkInv, FramesInOrder, Listening, Stream, Held, Coming, HasStop,
     Handed, Gapless, Reached
<1> QED
  BY <1>2, <1>3, <1>4, <1>5, <1>6, <1>7, <1>8, <1>9 DEF LinkInv

\* Every step keeps the invariant.
LEMMA LinkNext == LinkInv /\ [Next]_vars => LinkInv'
<1>1. ASSUME LinkInv, Next PROVE LinkInv'
  <2>1. TypeOK' /\ HandsFull' /\ UnusedIsEmpty' /\ Attempting'
    BY <1>1, TypesKept, HandsFullKept, UnusedIsEmptyKept, AttemptingKept
  <2>2. CursorAtStart' /\ Published' /\ Sending' /\ Recovering'
    BY <1>1, CursorAtStartKept, PublishedKept, SendingKept, RecoveringKept
  <2>3. OutboxIsExact' /\ HistoryIsExact' /\ LogIsOrdered' /\ FramesKnown'
    BY <1>1, OutboxIsExactKept, HistoryIsExactKept, LogIsOrderedKept,
       FramesKnownKept
  <2>4. AnswersInOrder' /\ FramesInOrder' /\ CheckpointIsLast'
    BY <1>1, AnswersInOrderKept, FramesInOrderKept, CheckpointIsLastKept
  <2> QED
    BY <2>1, <2>2, <2>3, <2>4 DEF LinkInv
<1> QED
  BY <1>1, LinkStutter

-----------------------------------------------------------------------------
(* Results.                                                                *)

\* The threads of the producer, its connections and the handlers behind them
\* keep the inductive invariant.
THEOREM LinkInvariance == Spec => []LinkInv
<1>1. QED
  BY LinkInit, LinkNext, PTL DEF Spec

\* Every submitted transaction is acknowledged or in the outbox, once, in
\* order, with its latest bytes (OrderedOutboxStorage, EventSender).
THEOREM OutboxAccountsForAll == Spec => []NothingLost
<1>1. LinkInv => NothingLost
  <2> SUFFICES ASSUME LinkInv PROVE NothingLost
    OBVIOUS
  <2>1. NativeTypes /\ ServerTypes /\ SenderTypes /\ OutboxIsExact /\ HistoryIsExact
    BY TypeParts DEF LinkInv
  <2>2. /\ lastAcked <= committed[session]
        /\ committed[session] <= Len(versions[session])
    BY <2>1 DEF HistoryIsExact, SenderTypes
  <2>3. committed[session] \in Nat /\ lastAcked \in Nat /\ nextId \in Nat
    BY <2>1 DEF ServerTypes, SenderTypes, NativeTypes
  <2>4. committed[session] \in lastAcked..(nextId - 1)
    BY <2>1, <2>2, <2>3 DEF OutboxIsExact
  <2> QED
    BY <2>1, <2>4 DEF OutboxIsExact, NothingLost
<1> QED
  BY <1>1, LinkInvariance, PTL

\* No fault, retry or late answer takes a session to the failure that only
\* abandoning it can leave (ValidateHighwater, Reject).
THEOREM SessionsContinue == Spec => []NeverSessionFatal
<1>1. LinkInv => NeverSessionFatal
  BY DEF LinkInv, Recovering, NeverSessionFatal
<1> QED
  BY <1>1, LinkInvariance, PTL

\* acknowledged_checkpoint covers all that the session was told is committed.
THEOREM CheckpointsCoverAcked == Spec => []CheckpointIncludesAcked
<1>1. LinkInv => CheckpointIncludesAcked
  <2> SUFFICES ASSUME LinkInv, checkpoint # 0, NEW i \in DOMAIN log,
                      log[i].s = session, log[i].id <= lastAcked
               PROVE  i <= checkpoint
    BY DEF CheckpointIncludesAcked
  <2>1. NativeTypes /\ ServerTypes /\ SenderTypes /\ LogIsOrdered /\ CheckpointIsLast
    BY TypeParts DEF LinkInv
  <2>2. log[i].id \in Nat /\ log[i].id >= 1 /\ i \in Nat
    <3>1. PICK R : R = [s : Sessions, id : Nat, p : Payloads]
      OBVIOUS
    <3>2. log \in Seq(R)
      BY <3>1, <2>1 DEF ServerTypes
    <3>3. log[i] \in R /\ i \in Nat
      BY <3>2
    <3> QED
      BY <3>1, <3>3, <2>1 DEF LogIsOrdered
  <2>3. lastAcked # 0 /\ lastAcked \in Nat
    BY <2>1, <2>2 DEF NativeTypes
  <2>4. /\ checkpoint \in DOMAIN log /\ log[checkpoint].s = session
        /\ log[checkpoint].id = lastAcked
    BY <2>1, <2>3 DEF CheckpointIsLast
  <2>5. checkpoint \in Nat
    BY <2>1 DEF SenderTypes
  <2>6. ~(checkpoint < i)
    <3>1. SUFFICES ASSUME checkpoint < i PROVE FALSE
      OBVIOUS
    <3>2. log[checkpoint].id < log[i].id
      BY <3>1, <2>1, <2>4 DEF LogIsOrdered
    <3> QED
      BY <3>2, <2>2, <2>3, <2>4
  <2> QED
    BY <2>2, <2>5, <2>6
<1> QED
  BY <1>1, LinkInvariance, PTL

-----------------------------------------------------------------------------
(* The refinement.                                                         *)

\* A step of the link as the application sees it.
Delivers ==
    \/ UNCHANGED <<versions, log, acked>>
    \/ Delivery!Next

\* What a session has committed is in the log, and nothing past it.
LEMMA CommittedInLog ==
    ASSUME LinkInv, NEW s \in Sessions
    PROVE  /\ \A id \in 1..committed[s] : Delivery!InLog(s, id)
           /\ \A id \in Nat : id > committed[s] => ~Delivery!InLog(s, id)
<1>0. LogIsOrdered /\ ServerTypes
  BY TypeParts DEF LinkInv
<1>1. \A id \in 1..committed[s] : Delivery!InLog(s, id)
  BY <1>0 DEF LogIsOrdered, Delivery!InLog, Delivery!CommittedBy
<1>2. ASSUME NEW id \in Nat, id > committed[s], Delivery!InLog(s, id)
      PROVE  FALSE
  <2>1. PICK i \in DOMAIN log : log[i].s = s /\ log[i].id = id
    BY <1>2 DEF Delivery!InLog, Delivery!CommittedBy
  <2>2. id <= committed[s] /\ committed[s] \in Nat
    BY <2>1, <1>0 DEF LogIsOrdered, ServerTypes
  <2> QED
    BY <2>2, <1>2
<1> QED
  BY <1>1, <1>2

\* An acknowledgement the outbox accepts is one of the abstract session.
LEMMA AcknowledgementDelivers ==
    ASSUME LinkInv, NEW id \in Nat, HighwaterValid(id),
           id <= committed[session], AcknowledgeOutbox(id),
           UNCHANGED <<versions, log>>
    PROVE  Delivers
<1>0. /\ NativeTypes /\ SenderTypes /\ ServerTypes /\ HistoryIsExact
  BY TypeParts DEF LinkInv
<1>1. PICK s \in Sessions, low \in Nat, done \in Nat :
          s = session /\ low = lastAcked /\ done = committed[s]
  BY <1>0 DEF NativeTypes, SenderTypes, ServerTypes
<1>2. acked[s] = low /\ id >= low /\ id <= done
  BY <1>0, <1>1 DEF HistoryIsExact, HighwaterValid
<1>3. acked' = [acked EXCEPT ![s] = id]
  <2>1. Greater(low, id) = id
    BY <1>2 DEF Greater
  <2> QED
    BY <2>1, <1>1 DEF AcknowledgeOutbox
<1>4. CASE id = low
  <2>1. acked' = acked
    BY <1>0, <1>2, <1>3, <1>4 DEF ServerTypes
  <2> QED
    BY <2>1 DEF Delivers
<1>5. CASE id # low
  <2>1. id > acked[s]
    BY <1>2, <1>5
  <2>2. \A j \in 1..id : Delivery!InLog(s, j)
    <3>1. \A j \in 1..id : j \in 1..done
      BY <1>2
    <3> QED
      BY <3>1, <1>1, CommittedInLog
  <2>3. id \in DOMAIN versions[s]
    <3>1. versions[s] \in Seq(Seq(Payloads)) /\ done <= Len(versions[s])
      BY <1>0, <1>1 DEF ServerTypes, HistoryIsExact
    <3>2. id >= 1
      BY <1>2, <1>5
    <3> QED
      BY <3>1, <3>2, <1>2
  <2>4. Delivery!Acknowledge(s, id)
    BY <2>1, <2>2, <1>3 DEF Delivery!Acknowledge
  <2> QED
    BY <2>3, <2>4 DEF Delivers, Delivery!Next
<1> QED
  BY <1>4, <1>5

\* Every step of the link is a step of ordered delivery or changes nothing
\* that the application sees.
LEMMA StepsDeliver ==
    ASSUME LinkInv, Next
    PROVE  Delivers
<1>0. /\ TypeOK /\ NativeTypes /\ SenderTypes /\ ServerTypes /\ HistoryIsExact
  BY TypeParts DEF LinkInv
<1>1. CASE BeginConnection
  BY <1>1 DEF BeginConnection, Delivers, history, server, vars
<1>2. CASE AttemptFails
  BY <1>2 DEF AttemptFails, Delivers, history, server, vars
<1>3. CASE AcceptHello
  <2>1. PICK id \in Nat : /\ HighwaterValid(id) /\ id <= committed[session]
                          /\ AcknowledgeOutbox(id)
                          /\ UNCHANGED <<versions, server>>
    BY <1>3, HelloAccepted
  <2>2. UNCHANGED <<versions, log>>
    BY <2>1 DEF server
  <2> QED
    BY <2>1, <2>2, AcknowledgementDelivers
<1>4. CASE Publish
  BY <1>4 DEF Publish, Delivers, history, server, vars
<1>5. CASE ReplayNext
  BY <1>5 DEF ReplayNext, Delivers, history, server, vars
<1>6. CASE ReplayDone
  BY <1>6 DEF ReplayDone, Delivers, history, server, vars
<1>7. CASE ReplayFails
  BY <1>7 DEF ReplayFails, Delivers, history, server, vars
<1>8. CASE FinishSend
  BY <1>8 DEF FinishSend, Delivers, history, server, vars
<1>9. CASE SendRaises
  BY <1>9 DEF SendRaises, Delivers, history, server, vars
<1>10. CASE WriterClaim
  BY <1>10 DEF WriterClaim, Delivers, history, server, vars
<1>11. CASE WriterSend
  BY <1>11 DEF WriterSend, Delivers, history, server, vars
<1>12. CASE WriterRaises
  BY <1>12 DEF WriterRaises, Delivers, history, server, vars
<1>13. ASSUME NEW p \in Payloads, SendEvents(p) PROVE Delivers
  <2>1. /\ versions' = [versions EXCEPT ![session] = Append(@, <<p>>)]
        /\ UNCHANGED <<log, acked>> /\ session \in Sessions
    BY <1>13, <1>0 DEF SendEvents, Submitted, server, SenderTypes
  <2>2. Delivery!Submit(session, p)
    BY <2>1 DEF Delivery!Submit
  <2> QED
    BY <2>1, <2>2 DEF Delivers, Delivery!Next
<1>14. ASSUME NEW p \in Payloads, RepairRejectedTransaction(p) PROVE Delivers
  <2>1. /\ versions' = [versions EXCEPT ![session][failure.id] = Append(@, p)]
        /\ UNCHANGED <<log, acked>> /\ session \in Sessions
    BY <1>14, <1>0 DEF RepairRejectedTransaction, server, SenderTypes
  <2>2. failure.id \in DOMAIN versions[session] /\ failure.id > acked[session]
    BY <1>14, <1>0, RepairedEffect DEF HistoryIsExact
  <2>3. PICK s \in Sessions : s = session
    BY <2>1
  <2>4. PICK id \in DOMAIN versions[s] : id = failure.id
    BY <2>2, <2>3
  <2>5. Delivery!Replace(s, id, p)
    BY <2>1, <2>2, <2>3, <2>4 DEF Delivery!Replace
  <2> QED
    BY <2>5 DEF Delivers, Delivery!Next
<1>15. CASE AbandonRejectedSession
  BY <1>15 DEF AbandonRejectedSession, Delivers, history, server
<1>16. CASE CancelConnect
  BY <1>16 DEF CancelConnect, Delivers, history, server, vars
<1>17. CASE Disconnect
  BY <1>17 DEF Disconnect, Delivers, history, server, vars
<1>18. ASSUME NEW g \in Gens, ServeError(g) PROVE Delivers
  BY <1>18 DEF ServeError, Delivers, history, server, vars
<1>19. ASSUME NEW g \in Gens, ServeLimited(g) PROVE Delivers
  BY <1>19 DEF ServeLimited, Delivers, history, server, vars
<1>20. ASSUME NEW g \in Gens, Break(g) PROVE Delivers
  BY <1>20 DEF Break, Delivers, history, server, vars
<1>21. CASE Restart
  BY <1>21 DEF Restart, Delivers, history, server, vars
<1>22. CASE EditGraph
  BY <1>22 DEF EditGraph, Delivers, history, server, vars
<1>23. ASSUME NEW g \in Gens, ReceiveResult(g) PROVE Delivers
  BY <1>23 DEF ReceiveResult, Delivers, history, server, vars
<1>24. ASSUME NEW g \in Gens, ReceiveRaises(g) PROVE Delivers
  BY <1>24 DEF ReceiveRaises, Delivers, history, server, vars
<1>25. ASSUME NEW g \in Gens, ApplyResult(g) PROVE Delivers
  <2>1. UNCHANGED <<versions, log>>
    BY <1>25, ResultApplied DEF server
  <2>2. CASE acked' = acked
    BY <2>1, <2>2 DEF Delivers
  <2>3. CASE acked' # acked
    <3>1. /\ hand[g] \in Replies /\ HighwaterValid(hand[g].id)
          /\ hand[g].id <= committed[session] /\ AcknowledgeOutbox(hand[g].id)
      BY <1>25, <2>3, ResultApplied
    <3>2. PICK id \in Nat : id = hand[g].id
      BY <3>1 DEF Replies
    <3> QED
      BY <2>1, <3>1, <3>2, AcknowledgementDelivers
  <2> QED
    BY <2>2, <2>3
<1>26. ASSUME NEW g \in Gens, ApplyLimited(g) PROVE Delivers
  BY <1>26 DEF ApplyLimited, Delivers, history, server, vars
<1>27. ASSUME NEW g \in Gens, CloseReader(g) PROVE Delivers
  BY <1>27 DEF CloseReader, Delivers, history, server, vars
<1>28. ASSUME NEW g \in Gens, ServeHello(g) PROVE Delivers
  BY <1>28 DEF ServeHello, Delivers, history, server, vars
<1>29. ASSUME NEW g \in Gens, ServeTxn(g) PROVE Delivers
  <2>1. PICK f \in Frames, s \in Sessions, r \in Replies :
            TxnTaken(g, f, s, r) /\ (Commits(f, s, r) \/ Declines(f, s, r))
    BY <1>29, TxnServed
  <2>2. UNCHANGED <<versions, acked>>
    BY <2>1 DEF TxnTaken, history
  <2>3. CASE Declines(f, s, r)
    BY <2>2, <2>3 DEF Declines, Delivers
  <2>4. CASE Commits(f, s, r)
    <3>1. PICK done \in Nat, id \in Nat : done = committed[s] /\ id = f.id
      BY <1>0 DEF ServerTypes, Frames
    <3>2. id = done + 1 /\ log' = Append(log, [s |-> s, id |-> id, p |-> f.p])
      BY <2>4, <3>1 DEF Commits
    <3>3. id \in DOMAIN versions[s]
      BY <2>1, <3>1 DEF TxnTaken, Known
    <3>4. PICK v \in DOMAIN versions[s][id] : versions[s][id][v] = f.p
      BY <2>1, <3>1 DEF TxnTaken, Known
    <3>5. ~Delivery!InLog(s, id) /\ \A j \in 1..(id - 1) : Delivery!InLog(s, j)
      <4>1. id > done /\ id - 1 = done
        BY <3>2
      <4> QED
        BY <4>1, <3>1, CommittedInLog
    <3>6. Delivery!Commit(s, id, v)
      BY <2>2, <3>2, <3>3, <3>4, <3>5 DEF Delivery!Commit
    <3> QED
      BY <3>3, <3>4, <3>6 DEF Delivers, Delivery!Next
  <2> QED
    BY <2>1, <2>3, <2>4
<1>30. ASSUME NEW g \in Gens, ResolveResult(g) PROVE Delivers
  BY <1>30 DEF ResolveResult, Delivers, history, server, vars
<1>31. ASSUME NEW g \in Gens, SendResults(g) PROVE Delivers
  BY <1>31 DEF SendResults, Delivers, history, server, vars
<1> QED
  BY <1>0, <1>1, <1>2, <1>3, <1>4, <1>5, <1>6, <1>7, <1>8, <1>9, <1>10,
     <1>11, <1>12, <1>13, <1>14, <1>15, <1>16, <1>17, <1>18, <1>19, <1>20,
     <1>21, <1>22, <1>23, <1>24, <1>25, <1>26, <1>27, <1>28, <1>29, <1>30,
     <1>31, StepCases

\* The producer link implements ordered, exactly-once delivery: what enters
\* the log, in which order and with which bytes, and what is acknowledged
\* (commit_producer_transaction, EventSender).
THEOREM DeliversInOrder == Spec => DeliveryRefined
<1>1. Init => Delivery!Init
  BY DEF Init, Delivery!Init
<1>2. LinkInv /\ [Next]_vars => [Delivery!Next]_(Delivery!vars)
  <2>1. ASSUME LinkInv, Next PROVE [Delivery!Next]_(Delivery!vars)
    BY <2>1, StepsDeliver DEF Delivers, Delivery!vars
  <2>2. ASSUME UNCHANGED vars PROVE UNCHANGED Delivery!vars
    BY <2>2 DEF vars, server, history, Delivery!vars
  <2> QED
    BY <2>1, <2>2
<1> QED
  BY <1>1, <1>2, LinkInvariance, PTL DEF Spec, DeliveryRefined, Delivery!Spec

=============================================================================
