---------------------------- MODULE QueuePromise ----------------------------
(***************************************************************************)
(* The queue implements Mailbox until accesses to q.messages overlap: a    *)
(* step of Queue is a step of Mailbox on the line of pending messages, or  *)
(* leaves it and what became of each message alone.                        *)
(***************************************************************************)
EXTENDS QueueSafety

\* A dropped message is out of line for good and its caller stays blocked.
DroppedInv ==
    \A m \in dropped : pc[m] = "queued" /\ wg[m] = 1 /\ m \notin InSeq(Pending)

PromiseInv == Inv /\ DroppedInv

\* What the line and the status of every message look like to Mailbox.
status == [m \in Msgs |-> Status(m)]

LEMMA PromiseFacts ==
  ASSUME PromiseInv
  PROVE  /\ ListenerOK /\ FreshInv /\ Pending \in Seq(Msgs) /\ Distinct(Pending)
         /\ InSeq(Pending) \subseteq Msgs /\ dropped \subseteq Msgs
         /\ \A m \in InSeq(Pending) : pc[m] = "queued" /\ wg[m] = 1 /\ m \notin dropped
         /\ pc \in [Msgs -> PCs] /\ wg \in [Msgs -> Nat]
<1>1. /\ ListenerOK /\ FreshInv /\ Pending \in Seq(Msgs) /\ Distinct(Pending)
      /\ \A m \in InSeq(Pending) : pc[m] = "queued" /\ wg[m] = 1
  BY InvListenerOK, PendingIsSeq, Blocked DEF PromiseInv, Inv
<1>2. InSeq(Pending) \subseteq Msgs
  BY <1>1, LenProperties, ElementOfSeq DEF InSeq
<1>. QED
  BY <1>1, <1>2 DEF PromiseInv, DroppedInv, Inv, TypeOK

LEMMA InitPromise == Init => PromiseInv /\ Promise!Init
<1> SUFFICES ASSUME Init PROVE PromiseInv /\ Promise!Init
  OBVIOUS
<1>1. Inv /\ Pending = <<>>
  BY InitInv, InvListenerOK, PendingIsSeq DEF Init
<1>2. DroppedInv
  BY DEF Init, DroppedInv
<1>3. \A m \in Msgs : Status(m) = "out"
  BY DEF Init, Status
<1>. QED
  BY <1>1, <1>2, <1>3 DEF PromiseInv, Promise!Init

\* m joins the line at its end.
LEMMA JoinStep ==
  ASSUME PromiseInv, ~raced', NEW m \in Msgs, AppendWrite(m)
  PROVE  Promise!Join(m) /\ DroppedInv'
<1>1. Pending' = Append(Pending, m)
  BY PromiseFacts, JoinsLine
<1>2. pc[m] = "appending" /\ wg[m] = 1 /\ wg' = wg /\ dropped' = dropped
  BY PromiseFacts DEF AppendWrite, FreshInv, Adding
<1>3. pc'[m] = "queued" /\ \A n \in Msgs : n # m => pc'[n] = pc[n]
  BY PromiseFacts DEF AppendWrite
<1>4. m \notin dropped
  BY <1>2 DEF PromiseInv, DroppedInv
<1>5. Status(m) = "out"
  BY <1>2, <1>4 DEF Status
<1>6. Status(m)' = "waiting"
  BY <1>2, <1>3, <1>4 DEF Status
<1>7. \A n \in Msgs : n # m => Status(n)' = Status(n)
  BY <1>2, <1>3 DEF Status
<1>8. InSeq(Pending') = InSeq(Pending) \cup {m}
  BY <1>1, PromiseFacts, AppendDistinct
<1>9. DroppedInv'
  <2>1. \A n \in dropped : n # m /\ n \notin InSeq(Pending') /\ pc'[n] = "queued" /\ wg'[n] = 1
    BY <1>2, <1>3, <1>4, <1>8, PromiseFacts DEF PromiseInv, DroppedInv
  <2>2. InSeq(Pending)' = InSeq(Pending')
    BY DEF InSeq
  <2>. QED
    BY <1>2, <2>1, <2>2 DEF DroppedInv
<1>10. status' = [status EXCEPT ![m] = "waiting"] /\ status[m] = "out"
  BY <1>5, <1>6, <1>7 DEF status
<1>. QED
  BY <1>1, <1>9, <1>10 DEF Promise!Join, status

\* The message in front is answered.
LEMMA AnswerStep ==
  ASSUME PromiseInv, ~raced', Release, wg[Current] # 0
  PROVE  Promise!Answer /\ DroppedInv'
<1>1. Pending # <<>> /\ Head(Pending) = Current /\ Pending' = Tail(Pending)
  BY PromiseFacts, LeavesLine
<1>2. Current \in InSeq(Pending)
  BY <1>1, PromiseFacts, LenProperties, EmptySeq DEF InSeq
<1>3. wg' = [wg EXCEPT ![Current] = @ - 1] /\ pc' = pc /\ dropped' = dropped
  BY DEF Release
<1>. PICK h \in Msgs : h = Current
  BY <1>2, PromiseFacts
<1>4. h \in Msgs /\ h \notin dropped /\ pc[h] = "queued" /\ wg[h] = 1
  BY <1>2, PromiseFacts
<1>5. wg'[h] = 0 /\ \A n \in Msgs : n # h => wg'[n] = wg[n]
  BY <1>3, <1>4, PromiseFacts
<1>6. Head(Pending) = h
  BY <1>1
<1>7. Status(h)' = "answered"
  BY <1>3, <1>4, <1>5 DEF Status
<1>8. \A n \in Msgs : n # h => Status(n)' = Status(n)
  BY <1>3, <1>5 DEF Status
<1>9. InSeq(Pending') = InSeq(Pending) \ {h}
  BY <1>1, <1>6, PromiseFacts, TailDistinct
<1>10. DroppedInv'
  <2>1. \A n \in dropped : n # h /\ n \notin InSeq(Pending') /\ pc'[n] = "queued" /\ wg'[n] = 1
    BY <1>3, <1>4, <1>5, <1>9, PromiseFacts DEF PromiseInv, DroppedInv
  <2>2. InSeq(Pending)' = InSeq(Pending')
    BY DEF InSeq
  <2>. QED
    BY <1>3, <2>1, <2>2 DEF DroppedInv
<1>11. status' = [status EXCEPT ![h] = "answered"]
  BY <1>4, <1>7, <1>8 DEF status
<1>. QED
  BY <1>1, <1>6, <1>10, <1>11 DEF Promise!Answer, status

\* The reset of a full mempool loses all that is in line.
LEMMA LoseStep ==
  ASSUME PromiseInv, ~raced', ResetQueue
  PROVE  Promise!LoseAll /\ DroppedInv'
<1>1. Pending' = <<>> /\ dropped' = dropped \cup InSeq(Pending)
  BY PromiseFacts, LosesLine
<1>2. pc' = pc /\ wg' = wg
  BY DEF ResetQueue, callers
<1>3. \A n \in Msgs : Status(n)' = IF n \in InSeq(Pending) THEN "lost" ELSE Status(n)
  <2> TAKE n \in Msgs
  <2>1. CASE n \in InSeq(Pending)
    BY <1>1, <2>1 DEF Status
  <2>2. CASE n \notin InSeq(Pending)
    <3>1. n \in dropped' <=> n \in dropped
      BY <1>1, <2>2
    <3>. QED
      BY <1>2, <2>2, <3>1 DEF Status
  <2>. QED
    BY <2>1, <2>2
<1>4. InSeq(Pending)' = {}
  BY <1>1 DEF InSeq
<1>5. DroppedInv'
  BY <1>1, <1>2, <1>4, PromiseFacts DEF PromiseInv, DroppedInv
<1>6. status' = [n \in Msgs |-> IF n \in InSeq(Pending) THEN "lost" ELSE status[n]]
  BY <1>3 DEF status
<1>. QED
  BY <1>1, <1>5, <1>6 DEF Promise!LoseAll, Promise!InLine, InSeq, status

\* A caller's step that leaves the line alone: it is turned away, or nothing happens.
LEMMA CallerStep ==
  ASSUME PromiseInv, ~raced', NEW m \in Msgs, AddScan(m) \/ AppendRead(m) \/ WaitReturns(m),
         Pending' = Pending, UNCHANGED dropped
  PROVE  /\ Promise!TurnAway(m) \/ UNCHANGED <<Pending, status>>
         /\ DroppedInv'
<1>1. /\ m \notin InSeq(Pending)
      /\ \A n \in Msgs : n # m => pc'[n] = pc[n] /\ wg'[n] = wg[n]
  BY NotInLine DEF PromiseInv
<1>2. \A n \in Msgs : n # m => Status(n)' = Status(n)
  BY <1>1 DEF Status
<1>3. m \notin dropped
  BY DEF PromiseInv, DroppedInv, AddScan, AppendRead, WaitReturns
<1>4. DroppedInv'
  <2>1. \A n \in dropped : pc'[n] = "queued" /\ wg'[n] = 1 /\ n \notin InSeq(Pending)
    BY <1>1, <1>3, PromiseFacts DEF PromiseInv, DroppedInv
  <2>2. InSeq(Pending)' = InSeq(Pending)
    BY DEF InSeq
  <2>. QED
    BY <2>1, <2>2 DEF DroppedInv
<1>5. CASE AddScan(m) /\ Twins(messages, m) # {}
  <2>1. Status(m) = "out" /\ Status(m)' = "duplicate"
    BY <1>3, <1>5, PromiseFacts DEF AddScan, Status
  <2>2. status[m] = "out" /\ status' = [status EXCEPT ![m] = "duplicate"]
    BY <1>2, <2>1 DEF status
  <2>3. PICK i \in DOMAIN messages : Key[m] # NoKey /\ Key[messages[i]] = Key[m]
    BY <1>5 DEF Twins
  <2>4. messages[i] \in InSeq(Pending)
    <3> DEFINE left == SubSeq(batch, answered + 1, Len(batch))
    <3>1. left \in Seq(Msgs) /\ messages \in Seq(Msgs)
      BY PromiseFacts, PendingIsSeq DEF PromiseInv, Inv, TypeOK
    <3>2. messages[i] \in InSeq(messages)
      BY DEF InSeq
    <3>3. Pending = messages \/ Pending = left \o messages
      BY DEF Pending
    <3> HIDE DEF left
    <3>4. InSeq(left \o messages) = InSeq(left) \cup InSeq(messages)
      BY <3>1, ConcatInSeq
    <3>5. CASE Pending = messages
      BY <3>2, <3>5
    <3>6. CASE Pending = left \o messages
      BY <3>2, <3>4, <3>6
    <3>. QED
      BY <3>3, <3>5, <3>6
  <2>5. \E t \in Promise!InLine : Key[t] = Key[m]
    BY <2>3, <2>4 DEF Promise!InLine, InSeq
  <2>. QED
    BY <1>4, <2>2, <2>3, <2>5 DEF Promise!TurnAway, status
<1>6. CASE ~(AddScan(m) /\ Twins(messages, m) # {})
  <2>1. Status(m)' = Status(m)
    BY <1>3, <1>6, PromiseFacts DEF AddScan, AppendRead, WaitReturns, Status
  <2>2. status' = status
    BY <1>2, <2>1 DEF status
  <2>. QED
    BY <1>4, <2>2
<1>. QED
  BY <1>5, <1>6

LEMMA NextPromise ==
  PromiseInv /\ ~raced' /\ [Next]_vars =>
      PromiseInv' /\ [Promise!Next]_<<Pending, status>>
<1> SUFFICES ASSUME PromiseInv, ~raced', [Next]_vars
             PROVE  DroppedInv' /\ [Promise!Next]_<<Pending, status>>
  BY NextInv DEF PromiseInv
<1>1. CASE \E m \in Msgs : AppendWrite(m)
  BY <1>1, JoinStep DEF Promise!Next
<1>2. CASE Release /\ wg[Current] # 0
  BY <1>2, AnswerStep DEF Promise!Next
<1>3. CASE ResetQueue
  BY <1>3, LoseStep DEF Promise!Next
<1>4. ASSUME Pending' = Pending, UNCHANGED dropped,
             NEW m \in Msgs, AddScan(m) \/ AppendRead(m) \/ WaitReturns(m)
      PROVE  DroppedInv' /\ [Promise!Next]_<<Pending, status>>
  BY <1>4, CallerStep DEF Promise!Next
<1>5. CASE Pending' = Pending /\ UNCHANGED <<dropped, pc, wg>>
  <2>1. \A m \in Msgs : Status(m)' = Status(m)
    BY <1>5 DEF Status
  <2>2. status' = status
    BY <2>1 DEF status
  <2>3. InSeq(Pending)' = InSeq(Pending)
    BY <1>5 DEF InSeq
  <2>. QED
    BY <1>5, <2>2, <2>3 DEF PromiseInv, DroppedInv
<1>. QED
  BY <1>1, <1>2, <1>3, <1>4, <1>5, LineStep DEF PromiseInv

\* Until accesses overlap the queue implements Mailbox: first in, first answered;
\* each message answered at most once; a proof turned away only while its twin
\* still waits; and only the reset of a full mempool takes waiting messages out of
\* the line (queue.go:97-134, 217-218, 243, 286-291).
THEOREM Implements == Spec => KeepsPromise
<1>1. Init => PromiseInv /\ Promise!Init
  BY InitPromise
<1>2. (raced \/ PromiseInv) /\ [Next]_vars =>
         (raced \/ PromiseInv)' /\ [raced' \/ Promise!Next]_<<Pending, status>>
  BY NextPromise, RacedStays
<1>. QED
  BY <1>1, <1>2, PTL DEF Spec, KeepsPromise, status
=============================================================================
