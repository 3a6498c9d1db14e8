---------------------------- MODULE QueueSafety ----------------------------
(***************************************************************************)
(* Until accesses to q.messages overlap no message is lost, none is        *)
(* answered twice, one is posted again only when a reply was lost, and the *)
(* queue holds one proof of a file.                                        *)
(***************************************************************************)
EXTENDS QueueProofs

-----------------------------------------------------------------------------
(* Sequences without repetitions.                                          *)

Distinct(s) == \A i, j \in DOMAIN s : s[i] = s[j] => i = j

LEMMA AppendDistinct ==
  ASSUME NEW S, NEW s \in Seq(S), NEW e \in S
  PROVE  /\ InSeq(Append(s, e)) = InSeq(s) \cup {e}
         /\ Distinct(s) /\ e \notin InSeq(s) => Distinct(Append(s, e))
<1> DEFINE t == Append(s, e)
<1>1. t \in Seq(S) /\ DOMAIN t = 1..(Len(s) + 1) /\ DOMAIN s = 1..Len(s) /\ Len(s) \in Nat
  BY AppendProperties, LenProperties
<1>2. (\A i \in 1..Len(s) : t[i] = s[i]) /\ t[Len(s) + 1] = e
  BY AppendProperties
<1> HIDE DEF t
<1>3. InSeq(t) = InSeq(s) \cup {e}
  BY <1>1, <1>2 DEF InSeq
<1>4. Distinct(s) /\ e \notin InSeq(s) => Distinct(t)
  BY <1>1, <1>2 DEF InSeq, Distinct
<1>. QED
  BY <1>3, <1>4 DEF t

LEMMA TailDistinct ==
  ASSUME NEW S, NEW s \in Seq(S), s # <<>>, Distinct(s)
  PROVE  /\ InSeq(Tail(s)) = InSeq(s) \ {Head(s)}
         /\ Distinct(Tail(s))
<1> DEFINE t == Tail(s)
<1>1. /\ t \in Seq(S) /\ Len(t) = Len(s) - 1
      /\ \A i \in 1..Len(t) : t[i] = s[i + 1]
  BY HeadTailProperties
<1>2. DOMAIN t = 1..Len(t) /\ DOMAIN s = 1..Len(s) /\ Len(s) \in Nat /\ Len(s) > 0
  BY <1>1, LenProperties, EmptySeq
<1>3. Head(s) = s[1]
  BY <1>2
<1> HIDE DEF t
<1>4. Distinct(t)
  <2> SUFFICES ASSUME NEW i \in DOMAIN t, NEW j \in DOMAIN t, t[i] = t[j]
               PROVE  i = j
    BY DEF Distinct
  <2>1. i + 1 \in DOMAIN s /\ j + 1 \in DOMAIN s /\ s[i + 1] = s[j + 1]
    BY <1>1, <1>2
  <2>2. i + 1 = j + 1
    BY <2>1 DEF Distinct
  <2>. QED
    BY <1>2, <2>2
<1>5. ASSUME NEW x PROVE x \in InSeq(t) <=> x \in InSeq(s) /\ x # Head(s)
  <2>1. ASSUME x \in InSeq(t) PROVE x \in InSeq(s) /\ x # Head(s)
    <3>1. PICK i \in DOMAIN t : x = t[i]
      BY <2>1 DEF InSeq
    <3>2. i + 1 \in DOMAIN s /\ i + 1 # 1 /\ x = s[i + 1] /\ 1 \in DOMAIN s
      BY <1>1, <1>2, <3>1
    <3>. QED
      BY <1>3, <3>2 DEF InSeq, Distinct
  <2>2. ASSUME x \in InSeq(s), x # Head(s) PROVE x \in InSeq(t)
    <3>1. PICK i \in DOMAIN s : x = s[i]
      BY <2>2 DEF InSeq
    <3>2. i - 1 \in DOMAIN t /\ t[i - 1] = s[i]
      BY <1>1, <1>2, <1>3, <2>2, <3>1
    <3>. QED
      BY <3>1, <3>2 DEF InSeq
  <2>. QED
    BY <2>1, <2>2
<1>. QED
  BY <1>4, <1>5 DEF t

LEMMA ConcatInSeq ==
  ASSUME NEW S, NEW s \in Seq(S), NEW t \in Seq(S)
  PROVE  InSeq(s \o t) = InSeq(s) \cup InSeq(t)
<1> DEFINE u == s \o t
<1>1. /\ DOMAIN u = 1..(Len(s) + Len(t)) /\ DOMAIN s = 1..Len(s) /\ DOMAIN t = 1..Len(t)
      /\ Len(s) \in Nat /\ Len(t) \in Nat
  BY ConcatProperties, LenProperties
<1>2. \A i \in 1..(Len(s) + Len(t)) : u[i] = IF i <= Len(s) THEN s[i] ELSE t[i - Len(s)]
  BY ConcatProperties
<1> HIDE DEF u
<1>3. InSeq(u) \subseteq InSeq(s) \cup InSeq(t)
  BY <1>1, <1>2 DEF InSeq
<1>4. InSeq(s) \subseteq InSeq(u)
  BY <1>1, <1>2 DEF InSeq
<1>5. ASSUME NEW i \in DOMAIN t PROVE t[i] \in InSeq(u)
  <2>1. i + Len(s) \in DOMAIN u /\ u[i + Len(s)] = t[i]
    BY <1>1, <1>2
  <2>. QED
    BY <2>1 DEF InSeq
<1>6. InSeq(t) \subseteq InSeq(u)
  BY <1>5 DEF InSeq
<1>. QED
  BY <1>3, <1>4, <1>6 DEF u

\* Append at the end of a concatenation.
LEMMA ConcatAppend ==
  ASSUME NEW S, NEW s \in Seq(S), NEW t \in Seq(S), NEW e \in S
  PROVE  s \o Append(t, e) = Append(s \o t, e)
<1>1. <<e>> \in Seq(S) /\ s \o t \in Seq(S)
  BY ConcatProperties
<1>2. Append(t, e) = t \o <<e>> /\ Append(s \o t, e) = (s \o t) \o <<e>>
  BY <1>1, AppendIsConcat
<1>. QED
  BY <1>1, <1>2, ConcatAssociative

\* The tail of a concatenation whose first part is not empty.
LEMMA ConcatTail ==
  ASSUME NEW S, NEW s \in Seq(S), NEW t \in Seq(S), s # <<>>
  PROVE  /\ s \o t \in Seq(S) /\ s \o t # <<>>
         /\ Head(s \o t) = Head(s)
         /\ Tail(s \o t) = Tail(s) \o t
<1>1. s \o t \in Seq(S) /\ s \o t # <<>> /\ Len(s) \in Nat /\ Len(t) \in Nat /\ Len(s) > 0
      /\ Len(s \o t) = Len(s) + Len(t)
  BY ConcatProperties, ConcatEqualIffEmpty, LenProperties, EmptySeq
<1>2. (s \o t)[1] = s[1]
  BY <1>1, ConcatProperties
<1>3. Head(s \o t) = Head(s)
  BY <1>1, <1>2
<1>4. Tail(s) \in Seq(S) /\ Len(Tail(s)) = Len(s) - 1 /\ Tail(s \o t) \in Seq(S)
      /\ Len(Tail(s \o t)) = Len(s) + Len(t) - 1
  BY <1>1, HeadTailProperties
<1>5. Tail(s) \o t \in Seq(S) /\ Len(Tail(s) \o t) = Len(s) + Len(t) - 1
  BY <1>1, <1>4, ConcatProperties
<1>6. ASSUME NEW i \in 1..(Len(s) + Len(t) - 1)
      PROVE  Tail(s \o t)[i] = (Tail(s) \o t)[i]
  <2>1. Tail(s \o t)[i] = (s \o t)[i + 1]
    BY <1>1, <1>4, HeadTailProperties
  <2>2. (s \o t)[i + 1] = IF i + 1 <= Len(s) THEN s[i + 1] ELSE t[i + 1 - Len(s)]
    BY <1>1, ConcatProperties
  <2>3. (Tail(s) \o t)[i] = IF i <= Len(s) - 1 THEN Tail(s)[i] ELSE t[i - (Len(s) - 1)]
    BY <1>1, <1>4, ConcatProperties
  <2>4. i <= Len(s) - 1 => Tail(s)[i] = s[i + 1]
    BY <1>1, <1>4, HeadTailProperties
  <2>. QED
    BY <1>1, <2>1, <2>2, <2>3, <2>4
<1>. QED
  BY <1>1, <1>3, <1>4, <1>5, <1>6, SeqEqual

-----------------------------------------------------------------------------
(* How the steps change the line of messages that wait for an answer.      *)

LEMMA PendingIsSeq ==
  ASSUME ListenerOK
  PROVE  /\ SubSeq(batch, answered + 1, Len(batch)) \in Seq(Msgs)
         /\ Pending \in Seq(Msgs)
         /\ lpc \in {"listening", "ticking", "status", "taking", "stopped"} => Pending = messages
         /\ lpc \in {"sending", "full"} => Pending = batch \o messages
<1>1. batch \in Seq(Msgs) /\ messages \in Seq(Msgs) /\ answered \in Nat /\ Len(batch) \in Nat
  BY LenProperties DEF ListenerOK, TypeOK
<1> DEFINE left == SubSeq(batch, answered + 1, Len(batch))
<1>2. \A i \in answered + 1..Len(batch) : batch[i] \in Msgs
  BY <1>1, ElementOfSeq
<1>3. left \in Seq(Msgs)
  BY <1>1, <1>2, SubSeqProperties
<1>4. Pending \in Seq(Msgs)
  BY <1>1, <1>3, ConcatProperties DEF Pending
<1>5. ASSUME lpc \in {"listening", "ticking", "status", "taking", "stopped"}
      PROVE  Pending = messages
  <2>1. batch = <<>> /\ answered = 0
    BY <1>5 DEF ListenerOK, ListenerInv
  <2>2. left = <<>>
    BY <2>1, Blank, SubSeqEmpty
  <2>. QED
    BY <1>1, <1>5, <2>2, ConcatEmptySeq DEF Pending
<1>6. ASSUME lpc \in {"sending", "full"}
      PROVE  Pending = batch \o messages
  <2>1. answered = 0
    BY <1>6 DEF ListenerOK, ListenerInv
  <2>2. left = batch
    BY <1>1, <2>1, SubSeqFull
  <2>. QED
    BY <1>6, <2>2 DEF Pending
<1>. QED
  BY <1>3, <1>4, <1>5, <1>6

LEMMA JoinsLine ==
  ASSUME ListenerOK, FreshInv, ~raced', NEW m \in Msgs, AppendWrite(m)
  PROVE  Pending' = Append(Pending, m)
<1>1. messages' = Append(messages, m) /\ UNCHANGED <<lpc, batch, answered>> /\ lpc # "cutting"
  BY DEF AppendWrite, FreshInv
<1>2. messages \in Seq(Msgs) /\ SubSeq(batch, answered + 1, Len(batch)) \in Seq(Msgs)
  BY PendingIsSeq DEF ListenerOK, TypeOK
<1> DEFINE left == SubSeq(batch, answered + 1, Len(batch))
<1>3. Pending = left \o messages /\ Pending' = left \o Append(messages, m)
  BY <1>1 DEF Pending
<1>4. left \in Seq(Msgs)
  BY <1>2
<1> HIDE DEF left
<1>5. left \o Append(messages, m) = Append(left \o messages, m)
  BY <1>2, <1>4, ConcatAppend
<1>. QED
  BY <1>3, <1>5

LEMMA LeavesLine ==
  ASSUME ListenerOK, Release, wg[Current] # 0
  PROVE  /\ Pending # <<>>
         /\ Head(Pending) = Current
         /\ Pending' = Tail(Pending)
<1> DEFINE left == SubSeq(batch, answered + 1, Len(batch))
<1>1. batch \in Seq(Msgs) /\ messages \in Seq(Msgs) /\ answered \in Nat /\ Len(batch) \in Nat
  BY LenProperties DEF ListenerOK, TypeOK
<1>2. lpc = "releasing" /\ answered + 1 \in 1..Len(batch) /\ messages' = messages
  BY CurrentIsMsg DEF Release
<1>3. /\ Head(left) = Current
      /\ Tail(left) = SubSeq(batch, answered + 2, Len(batch))
  BY <1>1, <1>2, HeadTailOfSubSeq DEF Current
<1>4. left \in Seq(Msgs)
  BY PendingIsSeq
<1>5. left # <<>>
  <2>1. Len(left) = Len(batch) - (answered + 1) + 1
    BY <1>1, <1>2, ElementOfSeq, SubSeqProperties
  <2> HIDE DEF left
  <2>2. Len(left) # 0
    BY <1>1, <1>2, <2>1
  <2>. QED
    BY <2>2, Blank
<1> HIDE DEF left
<1>6. Pending = left \o messages
  BY <1>2 DEF Pending, left
<1>7. /\ Pending # <<>> /\ Head(Pending) = Current
      /\ Tail(Pending) = SubSeq(batch, answered + 2, Len(batch)) \o messages
  <2>1. /\ left \o messages # <<>> /\ Head(left \o messages) = Head(left)
        /\ Tail(left \o messages) = Tail(left) \o messages
    BY <1>1, <1>4, <1>5, ConcatTail
  <2>2. Tail(left) = SubSeq(batch, answered + 2, Len(batch)) /\ Head(left) = Current
    BY <1>3 DEF left
  <2>. QED
    BY <1>6, <2>1, <2>2
<1>8. CASE answered + 1 < Len(batch)
  <2>1. lpc' = "filling" /\ answered' = answered + 1 /\ batch' = batch
    BY <1>8 DEF Release
  <2>2. answered' + 1 = answered + 2
    BY <1>1, <2>1
  <2>. QED
    BY <1>2, <1>7, <2>1, <2>2 DEF Pending
<1>9. CASE ~(answered + 1 < Len(batch))
  <2>1. lpc' = "listening" /\ answered' = 0 /\ batch' = <<>>
    BY <1>9 DEF Release
  <2>2. SubSeq(batch, answered + 2, Len(batch)) = <<>>
    BY <1>1, <1>2, <1>9, SubSeqEmpty
  <2>3. SubSeq(<<>>, 1, 0) = <<>>
    BY SubSeqEmpty
  <2>4. Pending' = SubSeq(<<>>, 1, 0) \o messages
    BY <1>2, <2>1, Blank DEF Pending
  <2>. QED
    BY <1>7, <2>2, <2>3, <2>4
<1>. QED
  BY <1>7, <1>8, <1>9

LEMMA LosesLine ==
  ASSUME ListenerOK, ResetQueue
  PROVE  /\ Pending' = <<>>
         /\ dropped' = dropped \cup InSeq(Pending)
<1>1. /\ lpc = "full" /\ lpc' = "listening" /\ messages' = <<>> /\ batch' = <<>>
      /\ answered' = answered /\ answered = 0
  BY DEF ResetQueue, ListenerOK, ListenerInv
<1>2. Pending = batch \o messages /\ batch \in Seq(Msgs) /\ messages \in Seq(Msgs)
  BY <1>1, PendingIsSeq DEF ListenerOK, TypeOK
<1>3. InSeq(Pending) = InSeq(batch) \cup InSeq(messages)
  BY <1>2, ConcatInSeq
<1>4. SubSeq(<<>>, 1, 0) = <<>>
  BY SubSeqEmpty
<1>5. Pending' = <<>> \o <<>>
  BY <1>1, <1>4, Blank DEF Pending
<1>. QED
  BY <1>3, <1>5, Blank, ConcatEmptySeq DEF ResetQueue

-----------------------------------------------------------------------------
(* The inductive invariant.                                                *)

LEMMA InvListenerOK == Inv => ListenerOK /\ FreshInv
  BY DEF Inv, ListenerOK

LEMMA InitInv == Init => Inv
<1> SUFFICES ASSUME Init PROVE Inv
  OBVIOUS
<1>1. ListenerOK
  BY InitListenerOK
<1>2. Pending = <<>>
  BY <1>1, PendingIsSeq DEF Init
<1>3. \A m \in Msgs : pc[m] = "new"
  BY DEF Init
<1>4. FreshInv
  BY <1>3 DEF Init, FreshInv, Adding
<1>5. WaitingOnce
  BY <1>2, Blank DEF Init, WaitingOnce, Alive, InSeq
<1>6. NoLostMessage
  BY <1>3 DEF NoLostMessage
<1>. QED
  BY <1>1, <1>4, <1>5, <1>6 DEF Inv, ListenerOK

\* WaitingOnce in terms of Distinct.
LEMMA Blocked ==
  WaitingOnce <=>
    Alive /\ Distinct(Pending) /\ \A m \in InSeq(Pending) : pc[m] = "queued" /\ wg[m] = 1
  BY DEF WaitingOnce, Distinct

\* An overlap is never forgotten.
LEMMA RacedStays == raced /\ [Next]_vars => raced'
  BY DEF Next, Listener, Caller, vars, Stop, Loop, Skip, Begin, StatusBad, StatusGood,
     TakeRead, TakeWrite, Attempt, MempoolFull, ResetQueue, FillNote, Release, AddScan,
     AppendRead, AppendWrite, WaitReturns

\* Where nobody is within the accesses of another, what was read stays fresh.
LEMMA CallerFresh ==
  ASSUME Inv, ~raced', NEW m \in Msgs, Caller(m)
  PROVE  FreshInv'
<1>1. UNCHANGED <<lpc, batch, rest, total>>
  BY DEF Caller, AddScan, AppendRead, AppendWrite, WaitReturns
<1>2. /\ pc \in [Msgs -> PCs] /\ wg \in [Msgs -> Nat] /\ slice \in [Msgs -> Seq(Msgs)]
      /\ messages \in Seq(Msgs) /\ total \in Nat
  BY DEF Inv, TypeOK
<1>3. CASE AddScan(m)
  <2>1. \A n \in Msgs : n # m => pc'[n] = pc[n] /\ wg'[n] = wg[n]
    BY <1>2, <1>3 DEF AddScan
  <2>2. pc'[m] \in {"duplicate", "scanned"} /\ (pc'[m] = "scanned" => wg'[m] = 1)
    BY <1>2, <1>3 DEF AddScan
  <2>3. UNCHANGED <<messages, slice>>
    BY <1>3 DEF AddScan
  <2>. QED
    BY <1>1, <2>1, <2>2, <2>3 DEF Inv, FreshInv, Adding
<1>4. CASE AppendRead(m)
  <2>1. /\ \A n \in Msgs : n # m => pc'[n] = pc[n] /\ slice'[n] = slice[n]
        /\ pc[m] = "scanned" /\ pc'[m] = "appending" /\ slice'[m] = messages
        /\ UNCHANGED <<messages, wg>>
    BY <1>2, <1>4 DEF AppendRead
  <2>. QED
    BY <1>1, <2>1 DEF Inv, FreshInv, Adding
<1>5. CASE AppendWrite(m)
  <2>1. /\ \A n \in Msgs : n # m => pc'[n] = pc[n]
        /\ pc[m] = "appending" /\ pc'[m] = "queued"
        /\ messages' = Append(messages, m)
    BY <1>2, <1>5 DEF AppendWrite, Inv, FreshInv
  <2>2. Adding = {m} /\ lpc # "cutting"
    BY <1>5 DEF AppendWrite
  <2>3. \A n \in Msgs : pc'[n] \notin {"scanned", "appending"}
    BY <2>1, <2>2 DEF Adding
  <2>4. Len(messages') = Len(messages) + 1 /\ Len(messages) \in Nat
    BY <1>2, <2>1, AppendProperties, LenProperties
  <2>5. lpc' \in {"status", "taking"} => total' <= Len(messages')
    BY <1>1, <1>2, <2>4 DEF Inv, FreshInv
  <2>. QED
    BY <1>1, <2>2, <2>3, <2>5 DEF FreshInv, Adding
<1>6. CASE WaitReturns(m)
  <2>1. /\ \A n \in Msgs : n # m => pc'[n] = pc[n]
        /\ pc'[m] = "returned"
        /\ UNCHANGED <<messages, wg, slice>>
    BY <1>2, <1>6 DEF WaitReturns
  <2>. QED
    BY <1>1, <2>1 DEF Inv, FreshInv, Adding
<1>. QED
  BY <1>3, <1>4, <1>5, <1>6 DEF Caller

LEMMA ListenerFresh ==
  ASSUME Inv, ~raced', Listener
  PROVE  FreshInv'
<1>1. \/ UNCHANGED <<messages, pc, slice, wg>> /\ lpc' \notin {"status", "taking", "cutting"}
      \/ Begin \/ StatusGood \/ TakeRead \/ TakeWrite \/ ResetQueue \/ Release
  BY DEF Listener, Loop, Skip, StatusBad, Attempt, MempoolFull, FillNote, callers
<1>2. CASE UNCHANGED <<messages, pc, slice, wg>> /\ lpc' \notin {"status", "taking", "cutting"}
  BY <1>2 DEF Inv, FreshInv, Adding
<1>3. CASE Begin
  <2>1. Len(messages) \in Nat
    BY LenProperties DEF Inv, TypeOK
  <2>. QED
    BY <1>3, <2>1 DEF Begin, callers, Inv, FreshInv, Adding
<1>4. CASE StatusGood
  BY <1>4 DEF StatusGood, callers, Inv, FreshInv, Adding
<1>5. CASE TakeRead
  <2>2. UNCHANGED <<messages, pc, slice, wg, total>> /\ lpc' \in {"cutting", "panicked"}
    BY <1>5 DEF TakeRead, callers
  <2>3. ASSUME lpc' = "cutting" PROVE messages = batch' \o rest'
    <3>1. PICK n \in 0..total : /\ batch' = SubSeq(messages, 1, Cutoff(n, total))
                                /\ rest' = SubSeq(messages, Cutoff(n, total) + 1, Len(messages))
      BY <1>5, <2>3 DEF TakeRead
    <3>2. total <= Len(messages) /\ total \in Nat /\ messages \in Seq(Msgs)
          /\ Len(messages) \in Nat
      BY <1>5, LenProperties DEF TakeRead, Inv, FreshInv, TypeOK
    <3> DEFINE cutoff == Cutoff(n, total)
    <3>3. cutoff \in 0..total
      BY <3>2, CutoffBounds
    <3>4. batch' = SubSeq(messages, 1, cutoff)
          /\ rest' = SubSeq(messages, cutoff + 1, Len(messages))
      BY <3>1
    <3> HIDE DEF cutoff
    <3>5. /\ 1 \in 1..Len(messages) + 1 /\ cutoff \in 1 - 1..Len(messages)
          /\ Len(messages) \in cutoff..Len(messages)
      BY <3>2, <3>3
    <3>6. batch' \o rest' = SubSeq(messages, 1, Len(messages))
      BY <3>2, <3>4, <3>5, ConcatAdjacentSubSeq
    <3>. QED
      BY <3>2, <3>6, SubSeqFull
  <2>. QED
    BY <2>2, <2>3 DEF Inv, FreshInv, Adding
<1>6. CASE TakeWrite
  BY <1>6 DEF TakeWrite, callers, Inv, FreshInv, Adding
<1>7. CASE ResetQueue
  BY <1>7 DEF ResetQueue, callers, Inv, FreshInv, Adding
<1>8. CASE Release
  <2>1. UNCHANGED <<messages, pc, slice>> /\ lpc' \in {"panicked", "filling", "listening"}
    BY <1>8 DEF Release
  <2>2. ASSUME NEW m \in Msgs, pc[m] \in {"scanned", "appending"}
        PROVE  wg'[m] = wg[m]
    <3>1. CASE wg[Current] = 0
      BY <1>8, <3>1 DEF Release
    <3>2. CASE wg[Current] # 0
      <4>1. Pending # <<>> /\ Head(Pending) = Current /\ Pending \in Seq(Msgs)
        BY <1>8, <3>2, LeavesLine, PendingIsSeq, InvListenerOK
      <4>2. Current \in InSeq(Pending)
        BY <4>1, LenProperties, EmptySeq DEF InSeq
      <4>3. pc[Current] = "queued"
        BY <4>2 DEF Inv, WaitingOnce
      <4>4. m # Current
        BY <2>2, <4>3
      <4>5. wg \in [Msgs -> Nat] /\ wg' = [wg EXCEPT ![Current] = @ - 1]
        BY <1>8, <3>2 DEF Release, Inv, TypeOK
      <4>. QED
        BY <4>4, <4>5
    <3>. QED
      BY <3>1, <3>2
  <2>. QED
    BY <2>1, <2>2 DEF Inv, FreshInv, Adding
<1>. QED
  BY <1>1, <1>2, <1>3, <1>4, <1>5, <1>6, <1>7, <1>8

\* The line after a step, and who is in it.  Every step but four leaves it alone.
LEMMA LineStep ==
  ASSUME Inv, ~raced', [Next]_vars
  PROVE  \/ \E m \in Msgs : AppendWrite(m)
         \/ Release /\ wg[Current] # 0
         \/ ResetQueue
         \/ /\ Pending' = Pending
            /\ UNCHANGED dropped
            /\ \/ \E m \in Msgs : AddScan(m) \/ AppendRead(m) \/ WaitReturns(m)
               \/ UNCHANGED <<pc, wg>>
<1>1. CASE \E m \in Msgs : Caller(m)
  <2>1. PICK m \in Msgs : Caller(m)
    BY <1>1
  <2>2. CASE AddScan(m) \/ AppendRead(m) \/ WaitReturns(m)
    <3>1. UNCHANGED <<lpc, batch, answered, messages, dropped>>
      BY <2>2 DEF AddScan, AppendRead, WaitReturns
    <3>2. Pending' = Pending
      BY <3>1 DEF Pending
    <3>. QED
      BY <2>2, <3>1, <3>2
  <2>. QED
    BY <2>1, <2>2 DEF Caller
<1>2. CASE Loop \/ Skip \/ Begin \/ StatusBad \/ StatusGood
  <2>1. /\ lpc \in {"listening", "ticking", "status"}
        /\ lpc' \in {"listening", "ticking", "status", "taking", "stopped"}
        /\ UNCHANGED <<pc, wg, batch, answered, messages, dropped>>
    BY <1>2 DEF Loop, Skip, Begin, StatusBad, StatusGood, callers
  <2>2. Pending' = Pending
    BY <2>1 DEF Pending
  <2>. QED
    BY <2>1, <2>2
<1>3. CASE TakeRead
  <2>1. lpc = "taking" /\ UNCHANGED <<pc, wg, messages, answered, dropped>>
    BY <1>3 DEF TakeRead, callers
  <2>2. Pending = messages
    BY <2>1, PendingIsSeq, InvListenerOK
  <2>3. CASE lpc' = "cutting"
    BY <2>1, <2>2, <2>3 DEF Pending
  <2>4. CASE lpc' # "cutting"
    <3>1. UNCHANGED <<batch, messages, answered>>
      BY <1>3, <2>4 DEF TakeRead
    <3>. QED
      BY <2>1, <2>4, <3>1 DEF Pending
  <2>. QED
    BY <2>1, <2>3, <2>4
<1>4. CASE TakeWrite
  <2>1. /\ lpc = "cutting" /\ lpc' = "sending" /\ messages' = rest
        /\ UNCHANGED <<pc, wg, batch, answered, dropped>>
    BY <1>4 DEF TakeWrite, callers
  <2>2. messages = batch \o rest
    BY <2>1 DEF Inv, FreshInv
  <2>3. answered = 0 /\ batch \in Seq(Msgs)
    BY <2>1 DEF Inv, ListenerInv, TypeOK
  <2>4. SubSeq(batch, 1, Len(batch)) = batch
    BY <2>3, SubSeqFull
  <2>5. Pending' = batch \o rest
    <3>1. Pending' = SubSeq(batch', answered' + 1, Len(batch')) \o messages'
      BY <2>1 DEF Pending
    <3>2. batch' = batch /\ answered' + 1 = 1 /\ messages' = rest
      BY <2>1, <2>3
    <3>. QED
      BY <2>4, <3>1, <3>2
  <2>6. Pending = messages
    BY <2>1 DEF Pending
  <2>. QED
    BY <2>1, <2>2, <2>5, <2>6
<1>5. CASE (\E a \in Answers : Attempt(a)) \/ MempoolFull \/ FillNote
  <2>1. /\ lpc \in {"sending", "filling"}
        /\ lpc' \in {"sending", "full", "filling", "releasing"}
        /\ UNCHANGED <<pc, wg, batch, answered, messages, dropped>>
    BY <1>5 DEF Attempt, MempoolFull, FillNote, callers
  <2>2. Pending' = Pending
    BY <2>1 DEF Pending
  <2>. QED
    BY <2>1, <2>2
<1>6. CASE Release /\ wg[Current] = 0
  <2>1. /\ lpc = "releasing" /\ lpc' = "panicked"
        /\ UNCHANGED <<pc, wg, batch, answered, messages, dropped>>
    BY <1>6 DEF Release
  <2>. QED
    BY <2>1 DEF Pending
<1>7. CASE Stop \/ UNCHANGED vars
  BY <1>7 DEF Stop, vars, callers, Pending
<1>. QED
  BY <1>1, <1>2, <1>3, <1>4, <1>5, <1>6, <1>7 DEF Next, Listener

\* A message in line is not touched by a caller's step that leaves the line alone.
LEMMA NotInLine ==
  ASSUME Inv, NEW m \in Msgs, AddScan(m) \/ AppendRead(m) \/ WaitReturns(m)
  PROVE  /\ m \notin InSeq(Pending)
         /\ \A n \in Msgs : n # m => pc'[n] = pc[n] /\ wg'[n] = wg[n]
         /\ pc'[m] = "queued" /\ wg'[m] > 0 => FALSE
<1>1. pc \in [Msgs -> PCs] /\ wg \in [Msgs -> Nat]
  BY DEF Inv, TypeOK
<1>2. pc[m] # "queued" \/ wg[m] # 1
  BY DEF AddScan, AppendRead, WaitReturns
<1>3. m \notin InSeq(Pending)
  BY <1>2 DEF Inv, WaitingOnce
<1>4. pc'[m] # "queued"
  BY <1>1 DEF AddScan, AppendRead, WaitReturns
<1>5. \A n \in Msgs : n # m => pc'[n] = pc[n] /\ wg'[n] = wg[n]
  BY <1>1 DEF AddScan, AppendRead, WaitReturns
<1>. QED
  BY <1>3, <1>4, <1>5

\* In the invariant neither panic can happen.
LEMMA StaysAlive ==
  ASSUME Inv, ~raced', [Next]_vars
  PROVE  Alive'
<1>1. Alive
  BY DEF Inv, WaitingOnce
<1>2. CASE TakeRead
  <2>1. total <= Len(messages) /\ total \in Nat /\ Len(messages) \in Nat
    BY <1>2, LenProperties DEF TakeRead, Inv, FreshInv, TypeOK
  <2>. QED
    BY <1>2, <2>1 DEF TakeRead, Alive
<1>3. CASE Release
  <2>1. ListenerOK /\ lpc = "releasing"
    BY <1>3, InvListenerOK DEF Release
  <2>2. Current \in InSeq(Pending)
    <3>1. answered + 1 \in 1..Len(batch) /\ Len(batch) \in Nat /\ answered \in Nat
      BY <2>1, CurrentIsMsg DEF Inv, TypeOK
    <3> DEFINE left == SubSeq(batch, answered + 1, Len(batch))
    <3>2. left \in Seq(Msgs) /\ messages \in Seq(Msgs) /\ batch \in Seq(Msgs)
      BY <2>1, PendingIsSeq DEF Inv, TypeOK
    <3>3. Len(left) = Len(batch) - (answered + 1) + 1 /\ left[1] = batch[answered + 1 + 1 - 1]
      BY <3>1, <3>2, ElementOfSeq, SubSeqProperties
    <3> HIDE DEF left
    <3>4. 1 \in DOMAIN left /\ left[1] = Current
      BY <3>1, <3>2, <3>3, LenProperties DEF Current
    <3>5. InSeq(Pending) = InSeq(left) \cup InSeq(messages)
      BY <2>1, <3>2, ConcatInSeq DEF Pending, left
    <3>. QED
      BY <3>4, <3>5 DEF InSeq
  <2>3. wg[Current] = 1
    BY <2>2 DEF Inv, WaitingOnce
  <2>. QED
    BY <1>3, <2>3 DEF Release, Alive
<1>4. CASE ~TakeRead /\ ~Release
  BY <1>1, <1>4 DEF Next, Listener, Caller, vars, Alive, Stop, Loop, Skip, Begin, StatusBad,
     StatusGood, TakeWrite, Attempt, MempoolFull, ResetQueue, FillNote, AddScan, AppendRead,
     AppendWrite, WaitReturns
<1>. QED
  BY <1>2, <1>3, <1>4

LEMMA LineInv ==
  ASSUME Inv, ~raced', [Next]_vars
  PROVE  WaitingOnce' /\ NoLostMessage'
<1>1. Alive'
  BY StaysAlive
<1>2. /\ ListenerOK /\ FreshInv /\ Pending \in Seq(Msgs) /\ Distinct(Pending)
      /\ \A m \in InSeq(Pending) : pc[m] = "queued" /\ wg[m] = 1
      /\ \A m \in Msgs : pc[m] = "queued" /\ wg[m] > 0 /\ m \notin dropped => m \in InSeq(Pending)
  BY InvListenerOK, PendingIsSeq, Blocked DEF Inv, NoLostMessage
<1>3. pc \in [Msgs -> PCs] /\ wg \in [Msgs -> Nat]
  BY DEF Inv, TypeOK
<1>4. InSeq(Pending) \subseteq Msgs
  BY <1>2, LenProperties, ElementOfSeq DEF InSeq
<1> DEFINE Goal == /\ Distinct(Pending')
                   /\ \A m \in InSeq(Pending') : pc'[m] = "queued" /\ wg'[m] = 1
                   /\ \A m \in Msgs : pc'[m] = "queued" /\ wg'[m] > 0 /\ m \notin dropped'
                         => m \in InSeq(Pending')
<1> SUFFICES Goal
  <2> InSeq(Pending)' = InSeq(Pending')
    BY DEF InSeq
  <2>. QED
    BY <1>1 DEF WaitingOnce, NoLostMessage, Distinct, Alive
<1>5. ASSUME NEW m \in Msgs, AppendWrite(m) PROVE Goal
  <2>1. Pending' = Append(Pending, m)
    BY <1>2, <1>5, JoinsLine
  <2>2. pc[m] = "appending" /\ wg[m] = 1 /\ wg' = wg /\ dropped' = dropped
    BY <1>2, <1>5 DEF AppendWrite, FreshInv, Adding
  <2>3. pc'[m] = "queued" /\ \A n \in Msgs : n # m => pc'[n] = pc[n]
    BY <1>3, <1>5 DEF AppendWrite
  <2>4. m \notin InSeq(Pending)
    BY <1>2, <2>2
  <2>5. InSeq(Pending') = InSeq(Pending) \cup {m} /\ Distinct(Pending')
    BY <1>2, <2>1, <2>4, AppendDistinct
  <2>. QED
    BY <1>2, <1>4, <2>2, <2>3, <2>5
<1>6. CASE Release /\ wg[Current] # 0
  <2>1. Pending # <<>> /\ Head(Pending) = Current /\ Pending' = Tail(Pending)
    BY <1>2, <1>6, LeavesLine
  <2>2. InSeq(Pending') = InSeq(Pending) \ {Current} /\ Distinct(Pending')
    BY <1>2, <2>1, TailDistinct
  <2>3. Current \in InSeq(Pending)
    BY <1>2, <2>1, LenProperties, EmptySeq DEF InSeq
  <2>4. wg' = [wg EXCEPT ![Current] = @ - 1] /\ pc' = pc /\ dropped' = dropped
    BY <1>6 DEF Release
  <2>5. Current \in Msgs /\ wg'[Current] = 0 /\ \A n \in Msgs : n # Current => wg'[n] = wg[n]
    BY <1>2, <1>3, <1>4, <2>3, <2>4
  <2>. QED
    BY <1>2, <1>4, <2>2, <2>4, <2>5
<1>7. CASE ResetQueue
  <2>1. Pending' = <<>> /\ dropped' = dropped \cup InSeq(Pending)
    BY <1>2, <1>7, LosesLine
  <2>2. pc' = pc /\ wg' = wg
    BY <1>7 DEF ResetQueue, callers
  <2>3. InSeq(Pending') = {} /\ Distinct(Pending')
    BY <2>1 DEF InSeq, Distinct
  <2>. QED
    BY <1>2, <2>1, <2>2, <2>3
<1>8. ASSUME NEW m \in Msgs, AddScan(m) \/ AppendRead(m) \/ WaitReturns(m),
             Pending' = Pending, UNCHANGED dropped
      PROVE  Goal
  <2>1. /\ m \notin InSeq(Pending)
        /\ \A n \in Msgs : n # m => pc'[n] = pc[n] /\ wg'[n] = wg[n]
        /\ pc'[m] = "queued" /\ wg'[m] > 0 => FALSE
    BY <1>8, NotInLine
  <2>. QED
    BY <1>2, <1>4, <1>8, <2>1
<1>9. CASE Pending' = Pending /\ UNCHANGED <<dropped, pc, wg>>
  BY <1>2, <1>9
<1>. QED
  BY <1>5, <1>6, <1>7, <1>8, <1>9, LineStep

LEMMA NextInv == Inv /\ ~raced' /\ [Next]_vars => Inv'
<1> SUFFICES ASSUME Inv, ~raced', [Next]_vars PROVE Inv'
  OBVIOUS
<1>1. ListenerOK'
  BY InvListenerOK, NextListenerOK
<1>2. FreshInv'
  <2>1. CASE Stop \/ UNCHANGED vars
    BY <2>1 DEF Stop, vars, callers, Inv, FreshInv, Adding
  <2>. QED
    BY <2>1, CallerFresh, ListenerFresh DEF Next
<1>. QED
  BY <1>1, <1>2, LineInv DEF Inv, ListenerOK

LEMMA SpecInv == Spec => [](raced \/ Inv)
<1>1. (raced \/ Inv) /\ [Next]_vars => (raced \/ Inv)'
  BY NextInv, RacedStays
<1>. QED
  BY <1>1, InitInv, PTL DEF Spec

\* A blocked caller's message is in the queue or in the batch, unless a full
\* mempool cost it: no append and no cut loses one before accesses overlap
\* (queue.go:131, 217-218, 243).
THEOREM NothingLost == Spec => []LostOnlyByRace
<1>1. raced \/ Inv => LostOnlyByRace
  BY DEF Inv, LostOnlyByRace
<1>. QED
  BY <1>1, SpecInv, PTL

\* Nobody is released twice, and neither the WaitGroup nor the queue's index panics
\* before accesses overlap (queue.go:190, 217-218, 286-291).
THEOREM AnsweredOnce == Spec => []PendingIsBlocked
<1>1. raced \/ Inv => PendingIsBlocked
  BY DEF Inv, PendingIsBlocked
<1>. QED
  BY <1>1, SpecInv, PTL

-----------------------------------------------------------------------------
(* One proof of a file.                                                    *)

\* Who is about to append has no twin in the queue.
TwinInv ==
    /\ TwinFree
    /\ \A m \in Adding : Twins(messages, m) = {}

LEMMA TwinInit == Init => TwinInv
BY DEF Init, TwinInv, TwinFree, Adding

\* The append, which writes what was scanned and one message.
LEMMA AppendTwin ==
  ASSUME Inv, TwinInv, ~raced', NEW m \in Msgs, AppendWrite(m)
  PROVE  TwinInv'
<1>1. /\ messages \in Seq(Msgs) /\ pc \in [Msgs -> PCs]
      /\ pc[m] = "appending" /\ slice[m] = messages
      /\ messages' = Append(messages, m) /\ pc' = [pc EXCEPT ![m] = "queued"]
  BY DEF Inv, TypeOK, FreshInv, AppendWrite
<1>2. Adding' = {}
  BY <1>1 DEF Adding, AppendWrite
<1>3. /\ DOMAIN messages = 1..Len(messages) /\ Len(messages) \in Nat
      /\ DOMAIN messages' = 1..(Len(messages) + 1)
      /\ \A i \in 1..Len(messages) : messages'[i] = messages[i]
      /\ messages'[Len(messages) + 1] = m
  BY <1>1, AppendProperties, LenProperties
<1>4. \A i \in DOMAIN messages : Key[m] = NoKey \/ Key[messages[i]] # Key[m]
  BY <1>1 DEF TwinInv, Twins, Adding
<1>5. TwinFree'
  BY <1>3, <1>4 DEF TwinInv, TwinFree
<1>. QED
  BY <1>2, <1>5 DEF TwinInv

\* The cut, which leaves the end of the queue.
LEMMA CutTwin ==
  ASSUME Inv, TwinInv, ~raced', TakeWrite
  PROVE  TwinInv'
<1>1. /\ batch \in Seq(Msgs) /\ rest \in Seq(Msgs) /\ messages = batch \o rest
      /\ messages' = rest /\ pc' = pc
      /\ Adding = {} /\ Adding' = Adding
  BY DEF Inv, TypeOK, FreshInv, TakeWrite, callers, Adding
<1>2. /\ Len(batch) \in Nat /\ Len(rest) \in Nat /\ DOMAIN rest = 1..Len(rest)
      /\ DOMAIN messages = 1..(Len(batch) + Len(rest))
      /\ \A i \in 1..(Len(batch) + Len(rest)) :
            messages[i] = IF i <= Len(batch) THEN batch[i] ELSE rest[i - Len(batch)]
  BY <1>1, ConcatProperties, LenProperties
<1>3. \A i \in DOMAIN rest : i + Len(batch) \in DOMAIN messages
                             /\ messages[i + Len(batch)] = rest[i]
  BY <1>2
<1>4. TwinFree'
  <2> SUFFICES ASSUME NEW i \in DOMAIN rest, NEW j \in DOMAIN rest,
                      Key[rest[i]] = Key[rest[j]], Key[rest[i]] # NoKey
               PROVE  i = j
    BY <1>1 DEF TwinFree
  <2>1. i + Len(batch) = j + Len(batch)
    BY <1>3 DEF TwinInv, TwinFree
  <2>. QED
    BY <1>2, <2>1
<1>. QED
  BY <1>1, <1>4 DEF TwinInv

LEMMA TwinStep == Inv /\ TwinInv /\ ~raced' /\ [Next]_vars => TwinInv'
<1> SUFFICES ASSUME Inv, TwinInv, ~raced', [Next]_vars PROVE TwinInv'
  OBVIOUS
<1>1. pc \in [Msgs -> PCs]
  BY DEF Inv, TypeOK
<1>2. ASSUME NEW m \in Msgs, Caller(m) PROVE TwinInv'
  <2>1. CASE AppendWrite(m)
    BY <2>1, AppendTwin
  <2>2. CASE AddScan(m) \/ AppendRead(m) \/ WaitReturns(m)
    <3>1. /\ messages' = messages
          /\ \A n \in Adding' : n \in Adding \/ Twins(messages, n) = {}
      BY <1>1, <2>2 DEF Adding, AddScan, AppendRead, WaitReturns
    <3>. QED
      BY <3>1 DEF TwinInv, TwinFree, Twins
  <2>. QED
    BY <1>2, <2>1, <2>2 DEF Caller
<1>3. CASE Listener
  <2>1. CASE TakeWrite
    BY <2>1, CutTwin
  <2>2. CASE ResetQueue
    BY <2>2 DEF ResetQueue, callers, TwinInv, TwinFree, Twins, Adding
  <2>3. UNCHANGED <<messages, pc>> \/ TakeWrite \/ ResetQueue
    BY <1>3 DEF Listener, Loop, Skip, Begin, StatusBad, StatusGood, TakeRead, Attempt,
       MempoolFull, FillNote, Release, callers
  <2>4. CASE UNCHANGED <<messages, pc>>
    BY <2>4 DEF TwinInv, TwinFree, Twins, Adding
  <2>. QED
    BY <2>1, <2>2, <2>3, <2>4
<1>4. CASE Stop \/ UNCHANGED vars
  BY <1>4 DEF Stop, vars, callers, TwinInv, TwinFree, Twins, Adding
<1>. QED
  BY <1>2, <1>3, <1>4 DEF Next

\* The queue never holds two proofs of one file before accesses overlap: Add finds
\* the first before it appends the second (queue.go:108-131).
THEOREM NoTwins == Spec => []OneProofPerFile
<1>1. (raced \/ (Inv /\ TwinInv)) /\ [Next]_vars => (raced \/ (Inv /\ TwinInv))'
  BY NextInv, TwinStep, RacedStays
<1>2. raced \/ (Inv /\ TwinInv) => OneProofPerFile
  BY DEF TwinInv, OneProofPerFile
<1>. QED
  BY <1>1, <1>2, InitInv, TwinInit, PTL DEF Spec

-----------------------------------------------------------------------------
(* A message is posted again only by the retries of its own batch.         *)

InChain == UNION {InSeq(chain[i]) : i \in DOMAIN chain}

SentByThisCall ==
    \A i \in DOMAIN chain : InSeq(chain[i]) \cap InSeq(batch) # {} =>
        chain[i] = batch /\ i \in unheard /\ Len(chain) - i < attempts

\* What was posted has been added to the queue and is not in it any more; what
\* was posted of the batch that is being sent was sent by this very call, which
\* heard nothing of it.
PostInv ==
    /\ SentAgainUnheard
    /\ \A m \in InChain : pc[m] \in {"queued", "returned"}
    /\ InChain \cap InSeq(messages) = {}
    /\ lpc = "cutting" => InChain \cap InSeq(batch) = {}
    /\ lpc = "sending" => SentByThisCall

LEMMA PostInit == Init => PostInv
<1> SUFFICES ASSUME Init PROVE PostInv
  OBVIOUS
<1>1. chain = <<>> /\ DOMAIN chain = {} /\ lpc = "listening"
  BY DEF Init
<1>2. InChain = {}
  BY <1>1 DEF InChain
<1>. QED
  BY <1>1, <1>2 DEF PostInv, SentAgainUnheard

LEMMA ChainOfMsgs == Inv => InChain \subseteq Msgs
<1> SUFFICES ASSUME Inv, NEW i \in DOMAIN chain, NEW j \in DOMAIN chain[i]
             PROVE  chain[i][j] \in Msgs
  BY DEF InChain, InSeq
<1>1. chain \in Seq(Seq(Msgs))
  BY DEF Inv, TypeOK
<1>2. chain[i] \in Seq(Msgs)
  BY <1>1
<1>. QED
  BY <1>2

\* A batch that shares nothing with what was posted.
LEMMA Unposted ==
  ASSUME NEW s, InChain \cap InSeq(s) = {}
  PROVE  \A i \in DOMAIN chain : InSeq(chain[i]) \cap InSeq(s) = {}
  BY DEF InChain

\* Steps that post nothing.
LEMMA NotPosting ==
  ASSUME PostInv, UNCHANGED <<chain, unheard>>,
         \A m \in Msgs : pc[m] \in {"queued", "returned"} => pc'[m] \in {"queued", "returned"},
         InChain \subseteq Msgs,
         InChain \cap InSeq(messages') = {},
         lpc' = "cutting" => InChain \cap InSeq(batch') = {},
         lpc' = "sending" => \/ InChain \cap InSeq(batch') = {}
                             \/ lpc = "sending" /\ UNCHANGED <<batch, attempts>>
  PROVE  PostInv'
<1>1. InChain' = InChain /\ SentAgainUnheard'
  BY DEF InChain, PostInv, SentAgainUnheard
<1>2. InSeq(messages)' = InSeq(messages') /\ InSeq(batch)' = InSeq(batch')
  BY DEF InSeq
<1>3. ASSUME lpc' = "sending", InChain \cap InSeq(batch') = {}
      PROVE  \A i \in DOMAIN chain : InSeq(chain[i]) \cap InSeq(batch') = {}
  BY <1>3, Unposted
<1>4. ASSUME lpc' = "sending", NEW i \in DOMAIN chain',
             InSeq(chain'[i]) \cap InSeq(batch') # {}
      PROVE  chain'[i] = batch' /\ i \in unheard' /\ Len(chain') - i < attempts'
  <2>1. lpc = "sending" /\ UNCHANGED <<batch, attempts>>
    BY <1>3, <1>4
  <2>. QED
    BY <1>4, <2>1 DEF PostInv, SentByThisCall
<1>5. SentByThisCall' \/ lpc' # "sending"
  <2> SUFFICES ASSUME lpc' = "sending", NEW i \in DOMAIN chain',
                      InSeq(chain'[i]) \cap InSeq(batch') # {}
               PROVE  chain'[i] = batch' /\ i \in unheard' /\ Len(chain') - i < attempts'
    BY DEF SentByThisCall, InSeq
  <2>. QED
    BY <1>4
<1>. QED
  BY <1>1, <1>2, <1>5 DEF PostInv

\* A caller, who appends what was not posted before.
LEMMA CallerPost ==
  ASSUME Inv, PostInv, ~raced', NEW m \in Msgs, Caller(m)
  PROVE  PostInv'
<1>1. /\ pc \in [Msgs -> PCs] /\ messages \in Seq(Msgs)
      /\ UNCHANGED <<chain, unheard, attempts, lpc, batch>> /\ InChain \subseteq Msgs
  BY ChainOfMsgs DEF Inv, TypeOK, Caller, AddScan, AppendRead, AppendWrite, WaitReturns, sending
<1>2. \A n \in Msgs : pc[n] \in {"queued", "returned"} => pc'[n] \in {"queued", "returned"}
  BY <1>1 DEF Caller, AddScan, AppendRead, AppendWrite, WaitReturns
<1>3. InChain \cap InSeq(messages') = {}
  <2>1. CASE AppendWrite(m)
    <3>1. pc[m] = "appending" /\ messages' = Append(messages, m)
      BY <2>1 DEF Inv, FreshInv, AppendWrite
    <3>2. InSeq(messages') = InSeq(messages) \cup {m}
      BY <1>1, <3>1, AppendDistinct
    <3>. QED
      BY <3>1, <3>2 DEF PostInv
  <2>2. CASE messages' = messages
    BY <2>2 DEF PostInv
  <2>. QED
    BY <2>1, <2>2 DEF Caller, AddScan, AppendRead, WaitReturns
<1>4. lpc' = "cutting" => InChain \cap InSeq(batch') = {}
  BY <1>1 DEF PostInv
<1>5. lpc' = "sending" => lpc = "sending"
  BY <1>1
<1>. QED
  BY <1>1, <1>2, <1>3, <1>4, <1>5, NotPosting

\* While a batch is sent its messages wait, and the queue holds others.
LEMMA BatchApart ==
  ASSUME Inv, lpc = "sending"
  PROVE  /\ InSeq(batch) \cap InSeq(messages) = {}
         /\ \A m \in InSeq(batch) : pc[m] = "queued"
<1>1. batch \in Seq(Msgs) /\ messages \in Seq(Msgs)
  BY DEF Inv, TypeOK
<1>2. /\ Pending = batch \o messages /\ Distinct(Pending)
      /\ \A m \in InSeq(Pending) : pc[m] = "queued"
  BY PendingIsSeq, InvListenerOK, Blocked DEF Inv
<1>3. InSeq(Pending) = InSeq(batch) \cup InSeq(messages)
  BY <1>1, <1>2, ConcatInSeq
<1>4. /\ DOMAIN batch = 1..Len(batch) /\ DOMAIN messages = 1..Len(messages)
      /\ Len(batch) \in Nat /\ Len(messages) \in Nat
      /\ DOMAIN Pending = 1..(Len(batch) + Len(messages))
      /\ \A i \in 1..(Len(batch) + Len(messages)) :
            Pending[i] = IF i <= Len(batch) THEN batch[i] ELSE messages[i - Len(batch)]
  BY <1>1, <1>2, ConcatProperties, LenProperties
<1>5. ASSUME NEW i \in DOMAIN batch, NEW j \in DOMAIN messages PROVE batch[i] # messages[j]
  <2>1. /\ i \in DOMAIN Pending /\ j + Len(batch) \in DOMAIN Pending /\ i # j + Len(batch)
        /\ Pending[i] = batch[i] /\ Pending[j + Len(batch)] = messages[j]
    BY <1>4
  <2>. QED
    BY <1>2, <2>1 DEF Distinct
<1>. QED
  BY <1>2, <1>3, <1>5 DEF InSeq

\* A broadcast that enters the mempool.
LEMMA EnterPost ==
  ASSUME Inv, PostInv, NEW a \in Answers, Attempt(a), Entered(a)
  PROVE  PostInv'
<1>1. /\ UNCHANGED <<messages, batch, pc>> /\ lpc = "sending" /\ lpc' \in {"sending", "filling"}
      /\ chain \in Seq(Seq(Msgs)) /\ batch \in Seq(Msgs)
      /\ attempts \in Nat /\ MaxAttempts \in Nat /\ attempts < MaxAttempts
      /\ attempts' = attempts + 1 /\ chain' = Append(chain, batch) /\ unheard \subseteq unheard'
  BY Limits DEF Inv, TypeOK, ListenerInv, Attempt, callers
<1>2. a = "lostReply" => Len(chain) + 1 \in unheard'
  BY DEF Attempt
<1>3. lpc' = "sending" => a = "lostReply"
  BY DEF Attempt, TriesAgain, Entered
<1>4. /\ DOMAIN chain = 1..Len(chain) /\ Len(chain) \in Nat
      /\ DOMAIN chain' = 1..(Len(chain) + 1) /\ Len(chain') = Len(chain) + 1
      /\ \A i \in 1..Len(chain) : chain'[i] = chain[i]
      /\ chain'[Len(chain) + 1] = batch
  BY <1>1, AppendProperties, LenProperties
<1>5. \A i \in DOMAIN chain :
        InSeq(chain[i]) \cap InSeq(batch) # {} =>
            chain[i] = batch /\ i \in unheard /\ Len(chain) - i < attempts
  BY <1>1 DEF PostInv, SentByThisCall
<1>6. InChain' = InChain \cup InSeq(batch)
  <2>1. InChain' = UNION {InSeq(chain'[i]) : i \in DOMAIN chain'}
    BY DEF InChain, InSeq
  <2>2. ASSUME NEW x \in InChain' PROVE x \in InChain \cup InSeq(batch)
    <3>1. PICK i \in DOMAIN chain' : x \in InSeq(chain'[i])
      BY <2>1, <2>2
    <3>. QED
      BY <1>4, <3>1 DEF InChain
  <2>3. ASSUME NEW x \in InChain PROVE x \in InChain'
    <3>1. PICK i \in DOMAIN chain : x \in InSeq(chain[i])
      BY <2>3 DEF InChain
    <3>2. i \in DOMAIN chain' /\ x \in InSeq(chain'[i])
      BY <1>4, <3>1
    <3>. QED
      BY <2>1, <3>2
  <2>4. ASSUME NEW x \in InSeq(batch) PROVE x \in InChain'
    <3>1. Len(chain) + 1 \in DOMAIN chain' /\ x \in InSeq(chain'[Len(chain) + 1])
      BY <1>4, <2>4
    <3>. QED
      BY <2>1, <3>1
  <2>. QED
    BY <2>2, <2>3, <2>4
<1>7. SentAgainUnheard'
  <2> SUFFICES ASSUME NEW j \in DOMAIN chain', NEW i \in 1..j - 1,
                      InSeq(chain'[i]) \cap InSeq(chain'[j]) # {}
               PROVE  i \in unheard' /\ chain'[i] = chain'[j] /\ j - i < MaxAttempts
    BY DEF SentAgainUnheard, InSeq
  <2>1. i \in DOMAIN chain /\ chain'[i] = chain[i]
    BY <1>4
  <2>2. CASE j \in DOMAIN chain
    <3>1. chain'[j] = chain[j]
      BY <1>4, <2>2
    <3>. QED
      BY <1>1, <2>1, <2>2, <3>1 DEF PostInv, SentAgainUnheard
  <2>3. CASE j = Len(chain) + 1
    <3>1. chain[i] = batch /\ i \in unheard /\ Len(chain) - i < attempts
      BY <1>4, <1>5, <2>1, <2>3
    <3>. QED
      BY <1>1, <1>4, <2>1, <2>3, <3>1
  <2>. QED
    BY <1>4, <2>2, <2>3
<1>8. ASSUME lpc' = "sending", NEW i \in DOMAIN chain',
             InSeq(chain'[i]) \cap InSeq(batch) # {}
      PROVE  chain'[i] = batch /\ i \in unheard' /\ Len(chain') - i < attempts'
  <2>1. CASE i \in DOMAIN chain
    BY <1>1, <1>4, <1>5, <1>8, <2>1
  <2>2. CASE i = Len(chain) + 1
    BY <1>1, <1>2, <1>3, <1>4, <1>8, <2>2
  <2>. QED
    BY <1>4, <2>1, <2>2
<1>9. SentByThisCall' \/ lpc' # "sending"
  <2> SUFFICES ASSUME lpc' = "sending", NEW i \in DOMAIN chain',
                      InSeq(chain'[i]) \cap InSeq(batch') # {}
               PROVE  chain'[i] = batch' /\ i \in unheard' /\ Len(chain') - i < attempts'
    BY DEF SentByThisCall, InSeq
  <2>. QED
    BY <1>1, <1>8
<1>10. InSeq(messages)' = InSeq(messages)
  BY <1>1 DEF InSeq
<1>11. (InChain \cap InSeq(messages) = {})'
  BY <1>1, <1>6, <1>10, BatchApart DEF PostInv
<1>12. (\A m \in InChain : pc[m] \in {"queued", "returned"})'
  BY <1>1, <1>6, BatchApart DEF PostInv
<1>. QED
  BY <1>1, <1>7, <1>9, <1>11, <1>12 DEF PostInv

\* One that does not.
LEMMA AttemptPost ==
  ASSUME Inv, PostInv, NEW a \in Answers, Attempt(a)
  PROVE  PostInv'
<1>1. CASE Entered(a)
  BY <1>1, EnterPost
<1>2. CASE ~Entered(a)
  <2>1. /\ UNCHANGED <<messages, batch, pc, chain, unheard>> /\ lpc = "sending"
        /\ attempts' = attempts + 1 /\ attempts \in Nat
        /\ lpc' \in {"sending", "filling"} /\ chain \in Seq(Seq(Msgs))
    BY <1>2, Limits DEF Attempt, Entered, callers, Inv, TypeOK
  <2>2. Len(chain) \in Nat /\ DOMAIN chain = 1..Len(chain)
    BY <2>1, LenProperties
  <2> DEFINE n == Len(chain)
  <2>3. ASSUME NEW i \in DOMAIN chain, InSeq(chain[i]) \cap InSeq(batch) # {}
        PROVE  chain[i] = batch /\ i \in unheard /\ n - i < attempts'
    <3>1. chain[i] = batch /\ i \in unheard /\ n - i < attempts
      BY <2>1, <2>3 DEF PostInv, SentByThisCall
    <3>2. n \in Nat /\ i \in Nat
      BY <2>2
    <3> HIDE DEF n
    <3>. QED
      BY <2>1, <3>1, <3>2
  <2>4. InChain' = InChain /\ SentAgainUnheard' /\ InSeq(messages)' = InSeq(messages)
    <3>1. InChain' = InChain /\ SentAgainUnheard'
      BY <2>1 DEF InChain, PostInv, SentAgainUnheard
    <3>. QED
      BY <2>1, <3>1 DEF InSeq
  <2>5. SentByThisCall'
    <3> SUFFICES ASSUME NEW i \in DOMAIN chain', InSeq(chain'[i]) \cap InSeq(batch') # {}
                 PROVE  chain'[i] = batch' /\ i \in unheard' /\ Len(chain') - i < attempts'
      BY DEF SentByThisCall, InSeq
    <3>. QED
      BY <2>1, <2>3
  <2> HIDE DEF n
  <2>. QED
    BY <2>1, <2>4, <2>5 DEF PostInv
<1>. QED
  BY <1>1, <1>2

LEMMA PostStep ==
  ASSUME Inv, PostInv, ~raced', [Next]_vars
  PROVE  PostInv'
<1>1. InChain \subseteq Msgs /\ batch \in Seq(Msgs) /\ messages \in Seq(Msgs) /\ rest \in Seq(Msgs)
  BY ChainOfMsgs DEF Inv, TypeOK
<1>2. CASE \E m \in Msgs : Caller(m)
  BY <1>2, CallerPost
<1>3. CASE \E a \in Answers : Attempt(a)
  BY <1>3, AttemptPost
<1>4. CASE TakeRead
  <2>1. /\ UNCHANGED <<chain, unheard, pc, messages>> /\ lpc' \in {"cutting", "panicked"}
    BY <1>4 DEF TakeRead, callers, sending
  <2>2. lpc' = "cutting" => messages = batch' \o rest' /\ batch' \in Seq(Msgs) /\ rest' \in Seq(Msgs)
    <3>1. Listener
      BY <1>4 DEF Listener
    <3>2. FreshInv' /\ TypeOK'
      BY <3>1, ListenerFresh, InvListenerOK, NextListenerOK DEF ListenerOK
    <3>. QED
      BY <2>1, <3>2 DEF FreshInv, TypeOK
  <2>3. lpc' = "cutting" => InSeq(batch') \subseteq InSeq(messages)
    <3>1. ASSUME NEW s \in Seq(Msgs), NEW t \in Seq(Msgs), messages = s \o t
          PROVE  InSeq(s) \subseteq InSeq(messages)
      BY <3>1, ConcatInSeq
    <3>. QED
      BY <2>2, <3>1
  <2>. QED
    BY <1>1, <2>1, <2>3, NotPosting DEF PostInv
<1>5. CASE TakeWrite
  <2>1. /\ UNCHANGED <<chain, unheard, pc, batch>> /\ lpc = "cutting" /\ lpc' = "sending"
        /\ messages' = rest /\ messages = batch \o rest
    BY <1>5 DEF TakeWrite, callers, sending, Inv, FreshInv
  <2>2. InSeq(rest) \subseteq InSeq(messages)
    BY <1>1, <2>1, ConcatInSeq
  <2>. QED
    BY <1>1, <2>1, <2>2, NotPosting DEF PostInv
<1>6. CASE ResetQueue
  <2>1. UNCHANGED <<chain, unheard, pc>> /\ messages' = <<>> /\ lpc' = "listening"
    BY <1>6 DEF ResetQueue, callers
  <2>2. InSeq(messages') = {}
    BY <2>1, Blank DEF InSeq
  <2>. QED
    BY <1>1, <2>1, <2>2, NotPosting
<1>7. CASE \/ Loop \/ Skip \/ Begin \/ StatusBad \/ StatusGood \/ FillNote \/ Release
           \/ MempoolFull
  <2>1. /\ UNCHANGED <<chain, unheard, pc, messages>> /\ lpc' \notin {"cutting", "sending"}
    BY <1>7 DEF Loop, Skip, Begin, StatusBad, StatusGood, FillNote, Release, MempoolFull,
       callers, sending
  <2>. QED
    BY <1>1, <2>1, NotPosting DEF PostInv
<1>8. CASE Stop \/ UNCHANGED vars
  <2>1. UNCHANGED <<chain, unheard, pc, messages, batch, lpc, attempts>>
    BY <1>8 DEF Stop, vars, callers, sending
  <2>. QED
    BY <1>1, <2>1, NotPosting DEF PostInv
<1>. QED
  BY <1>2, <1>3, <1>4, <1>5, <1>6, <1>7, <1>8 DEF Next, Listener

\* With lost replies and all: a message enters the mempool again only after the
\* reply to its transaction was lost, in the same batch, within the attempts of
\* one call of BroadcastPending (queue.go:232, 275, 282).
THEOREM PostsOnce == Spec => []PostedOnce
<1>1. (raced \/ (Inv /\ PostInv)) /\ [Next]_vars => (raced \/ (Inv /\ PostInv))'
  BY NextInv, PostStep, RacedStays
<1>2. raced \/ (Inv /\ PostInv) => PostedOnce
  BY DEF PostInv, PostedOnce
<1>. QED
  BY <1>1, <1>2, InitInv, PostInit, PTL DEF Spec
=============================================================================
