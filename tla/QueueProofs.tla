---------------------------- MODULE QueueProofs ----------------------------
(***************************************************************************)
(* Proofs about the transaction queue, for every set of messages, every    *)
(* size limit and every number of attempts.                                *)
(***************************************************************************)
EXTENDS Queue, SequenceTheorems, TLAPS

-----------------------------------------------------------------------------
(* Types, and the local variables of the listener.                         *)

ListenerOK == TypeOK /\ ListenerInv

LEMMA Limits == MinBatch \in Nat \ {0} /\ MaxAttempts \in Nat \ {0}
  BY QueueAssumption

\* Facts about the empty sequence and the initial results that many steps use.
LEMMA Blank ==
  /\ <<>> \in Seq(Msgs)
  /\ Len(<<>>) = 0
  /\ <<>> \in Seq(Seq(Msgs))
  /\ NoResult \in Results
  /\ NoNote \in Notes
  BY EmptySeq DEF NoResult, Results, NoNote, Notes

LEMMA InitListenerOK == Init => ListenerOK
<1> SUFFICES ASSUME Init PROVE ListenerOK
  OBVIOUS
<1>1. note \in [Msgs -> Notes] /\ outcome \in Results /\ chain \in Seq(Seq(Msgs))
  BY Blank DEF Init
<1>2. pc \in [Msgs -> PCs] /\ slice \in [Msgs -> Seq(Msgs)] /\ wg \in [Msgs -> Nat]
  BY Blank DEF Init, PCs
<1>. messages \in Seq(Msgs) /\ batch \in Seq(Msgs) /\ rest \in Seq(Msgs)
  BY Blank DEF Init
<1>. lpc \in LPCs /\ running \in BOOLEAN /\ pinned \in BOOLEAN /\ dropped \subseteq Msgs
      /\ unheard \subseteq Nat /\ raced \in BOOLEAN
  BY DEF Init, LPCs
<1>. total \in Nat /\ answered \in Nat /\ attempts \in 0..MaxAttempts
  BY Limits DEF Init
<1>3. TypeOK
  BY <1>1, <1>2 DEF TypeOK
<1>4. ListenerInv
  BY Limits DEF Init, ListenerInv
<1>. QED
  BY <1>3, <1>4 DEF ListenerOK

\* At least one message is taken when one is there, and never more than there are.
LEMMA CutoffBounds ==
  ASSUME NEW limit \in Nat, NEW n \in 0..limit
  PROVE  /\ Cutoff(n, limit) \in 0..limit
         /\ limit > 0 => Cutoff(n, limit) > 0
  BY Limits DEF Cutoff

LEMMA CallerListenerOK ==
  ASSUME ListenerOK, NEW m \in Msgs, Caller(m)
  PROVE  ListenerOK'
<1> USE DEF ListenerOK
<1>1. CASE AddScan(m)
  <2>1. note[m] \in Notes
    BY DEF TypeOK
  <2>2. [note[m] EXCEPT !.index = -1] \in Notes
    BY <2>1 DEF Notes
  <2>3. note' \in [Msgs -> Notes]
    BY <1>1, <2>2 DEF AddScan, TypeOK
  <2>4. pc' \in [Msgs -> PCs] /\ wg' \in [Msgs -> Nat]
    <3>1. \E p \in PCs : pc' = [pc EXCEPT ![m] = p]
      BY <1>1 DEF AddScan, PCs
    <3>2. wg' = wg \/ wg' = [wg EXCEPT ![m] = 1]
      BY <1>1 DEF AddScan
    <3>3. pc \in [Msgs -> PCs] /\ wg \in [Msgs -> Nat]
      BY DEF TypeOK
    <3>. QED
      BY <3>1, <3>2, <3>3
  <2>5. TypeOK'
    BY <1>1, <2>3, <2>4 DEF AddScan, TypeOK, sending
  <2>6. ListenerInv'
    BY <1>1 DEF AddScan, ListenerInv, sending
  <2>. QED
    BY <2>5, <2>6
<1>2. CASE AppendRead(m)
  <2>1. TypeOK'
    BY <1>2 DEF AppendRead, TypeOK, sending, PCs
  <2>2. ListenerInv'
    BY <1>2 DEF AppendRead, ListenerInv, sending
  <2>. QED
    BY <2>1, <2>2
<1>3. CASE AppendWrite(m)
  <2>1. Append(slice[m], m) \in Seq(Msgs)
    BY AppendProperties DEF TypeOK
  <2>. raced' \in BOOLEAN
    BY <1>3 DEF AppendWrite, TypeOK
  <2>2. TypeOK'
    BY <1>3, <2>1, Blank DEF AppendWrite, TypeOK, sending, PCs
  <2>3. ListenerInv'
    BY <1>3 DEF AppendWrite, ListenerInv, sending
  <2>. QED
    BY <2>2, <2>3
<1>4. CASE WaitReturns(m)
  <2>1. TypeOK'
    BY <1>4 DEF WaitReturns, TypeOK, sending, PCs
  <2>2. ListenerInv'
    BY <1>4 DEF WaitReturns, ListenerInv, sending
  <2>. QED
    BY <2>1, <2>2
<1>. QED
  BY <1>1, <1>2, <1>3, <1>4 DEF Caller

LEMMA TakeReadListenerOK ==
  ASSUME ListenerOK, TakeRead
  PROVE  ListenerOK'
<1>1. CASE total > Len(messages)
  <2>1. TypeOK'
    BY <1>1 DEF TakeRead, ListenerOK, TypeOK, callers, sending, LPCs
  <2>2. ListenerInv'
    BY <1>1 DEF TakeRead, ListenerOK, ListenerInv, sending
  <2>. QED
    BY <2>1, <2>2 DEF ListenerOK
<1>2. CASE ~(total > Len(messages))
  <2>1. PICK n \in 0..total :
           /\ batch' = SubSeq(messages, 1, Cutoff(n, total))
           /\ rest' = SubSeq(messages, Cutoff(n, total) + 1, Len(messages))
    BY <1>2 DEF TakeRead
  <2>2. total \in Nat /\ total > 0
    BY DEF TakeRead, ListenerOK, TypeOK, ListenerInv
  <2> DEFINE cutoff == Cutoff(n, total)
  <2>3. cutoff \in 1..total
    BY <2>2, CutoffBounds
  <2>4. messages \in Seq(Msgs) /\ Len(messages) \in Nat /\ total <= Len(messages)
    BY <1>2, <2>2, LenProperties DEF ListenerOK, TypeOK
  <2>5. \A i \in 1..Len(messages) : messages[i] \in Msgs
    BY <2>4, ElementOfSeq
  <2> HIDE DEF cutoff
  <2>6. batch' \in Seq(Msgs) /\ Len(batch') = cutoff
    <3>1. \A i \in 1..cutoff : messages[i] \in Msgs
      BY <2>2, <2>3, <2>4, <2>5
    <3>. QED
      BY <2>1, <2>3, <3>1, SubSeqProperties DEF cutoff
  <2>7. rest' \in Seq(Msgs)
    <3>1. \A i \in cutoff + 1..Len(messages) : messages[i] \in Msgs
      BY <2>3, <2>4, <2>5
    <3>. QED
      BY <2>1, <2>3, <2>4, <3>1, SubSeqProperties DEF cutoff
  <2>8. lpc' = "cutting" /\ UNCHANGED <<messages, running, callers, total, sending,
                                        answered, dropped, raced>>
    BY <1>2 DEF TakeRead
  <2>9. TypeOK'
    BY <2>6, <2>7, <2>8 DEF ListenerOK, TypeOK, callers, sending, LPCs
  <2>10. lpc = "taking"
    BY DEF TakeRead
  <2>11. ListenerInv'
    BY <2>3, <2>6, <2>8, <2>10 DEF ListenerOK, ListenerInv, sending
  <2>. QED
    BY <2>9, <2>11 DEF ListenerOK
<1>. QED
  BY <1>1, <1>2

LEMMA AttemptListenerOK ==
  ASSUME ListenerOK, NEW a \in Answers, Attempt(a)
  PROVE  ListenerOK'
<1> USE DEF ListenerOK
<1>1. chain \in Seq(Seq(Msgs)) /\ Len(chain) + 1 \in Nat /\ batch \in Seq(Msgs)
  BY LenProperties DEF TypeOK
<1>2. Response(a) \in Results
  BY <1>1 DEF Response, Results
<1>3. \A b \in BOOLEAN : [Response(a) EXCEPT !.err = b] \in Results
  BY <1>2 DEF Results
<1>4. outcome' \in Results
  BY <1>2, <1>3 DEF Attempt
<1>5. chain' \in Seq(Seq(Msgs))
  BY <1>1, AppendProperties DEF Attempt
<1>6. attempts' \in 0..MaxAttempts /\ (lpc' = "sending" => attempts' < MaxAttempts)
  BY Limits DEF Attempt, TypeOK, ListenerInv
<1>7. /\ lpc = "sending" /\ lpc' \in {"sending", "filling"} /\ pinned' \in BOOLEAN
      /\ unheard' \subseteq Nat
  BY <1>1 DEF Attempt, TypeOK
<1>8. TypeOK'
  BY <1>4, <1>5, <1>6, <1>7 DEF Attempt, TypeOK, callers, LPCs
<1>9. UNCHANGED <<batch, answered, total>>
  BY DEF Attempt
<1>10. ListenerInv'
  BY <1>6, <1>7, <1>9 DEF ListenerInv
<1>. QED
  BY <1>8, <1>10

\* A message of the batch is there to be answered.
LEMMA CurrentIsMsg ==
  ASSUME ListenerOK, lpc \in {"filling", "releasing"}
  PROVE  /\ Len(batch) \in Nat
         /\ answered + 1 \in 1..Len(batch)
         /\ Current \in Msgs
<1>1. batch \in Seq(Msgs) /\ Len(batch) \in Nat
  BY LenProperties DEF ListenerOK, TypeOK
<1>2. answered + 1 \in 1..Len(batch)
  BY <1>1 DEF ListenerOK, TypeOK, ListenerInv
<1>. QED
  BY <1>1, <1>2, ElementOfSeq DEF Current

LEMMA ReleaseListenerOK ==
  ASSUME ListenerOK, Release
  PROVE  ListenerOK'
<1> USE DEF ListenerOK
<1>1. lpc = "releasing" /\ Len(batch) \in Nat /\ answered + 1 \in 1..Len(batch)
      /\ Current \in Msgs
  BY CurrentIsMsg DEF Release
<1>2. UNCHANGED <<messages, running, pc, slice, note, total, rest, chain, unheard, dropped,
                 raced>>
  BY DEF Release
<1>3. CASE wg[Current] = 0
  <2>1. lpc' = "panicked" /\ UNCHANGED <<wg, batch, answered, attempts, pinned, outcome>>
    BY <1>3 DEF Release
  <2>2. TypeOK'
    BY <1>2, <2>1 DEF TypeOK, LPCs
  <2>3. ListenerInv'
    BY <2>1 DEF ListenerInv
  <2>. QED
    BY <2>2, <2>3
<1>4. CASE wg[Current] # 0
  <2>1. wg' \in [Msgs -> Nat]
    <3>1. wg' = [wg EXCEPT ![Current] = @ - 1]
      BY <1>4 DEF Release
    <3>2. wg \in [Msgs -> Nat] /\ wg[Current] - 1 \in Nat
      BY <1>1, <1>4 DEF TypeOK
    <3>. QED
      BY <3>1, <3>2
  <2>2. CASE answered + 1 < Len(batch)
    <3>1. /\ lpc' = "filling" /\ answered' = answered + 1
          /\ UNCHANGED <<batch, attempts, pinned, outcome>>
      BY <1>4, <2>2 DEF Release
    <3>2. answered' \in Nat /\ lpc' \in LPCs
      BY <1>1, <3>1 DEF LPCs
    <3>. TypeOK'
      BY <1>2, <2>1, <3>1, <3>2 DEF TypeOK
    <3>3. ListenerInv'
      BY <1>1, <2>2, <3>1 DEF ListenerInv
    <3>. QED
      BY <3>3
  <2>3. CASE ~(answered + 1 < Len(batch))
    <3>1. /\ lpc' = "listening" /\ answered' = 0 /\ batch' = <<>> /\ attempts' = 0
          /\ pinned' = FALSE /\ outcome' = NoResult
      BY <1>4, <2>3 DEF Release
    <3>2. answered' \in Nat /\ lpc' \in LPCs /\ attempts' \in 0..MaxAttempts
      BY <3>1, Limits DEF LPCs
    <3>. batch' \in Seq(Msgs) /\ outcome' \in Results /\ pinned' \in BOOLEAN
      BY <3>1, Blank
    <3>. TypeOK'
      BY <1>2, <2>1, <3>2 DEF TypeOK
    <3>3. ListenerInv'
      BY <3>1, Limits DEF ListenerInv
    <3>. QED
      BY <3>3
  <2>. QED
    BY <2>2, <2>3
<1>. QED
  BY <1>3, <1>4

LEMMA ListenerListenerOK ==
  ASSUME ListenerOK, Listener
  PROVE  ListenerOK'
<1> USE DEF ListenerOK
<1>1. CASE Loop
  BY <1>1 DEF Loop, TypeOK, ListenerInv, callers, sending, LPCs
<1>2. CASE Skip
  BY <1>2 DEF Skip, TypeOK, ListenerInv, callers, sending, LPCs
<1>3. CASE Begin
  <2>1. Len(messages) \in Nat /\ Len(messages) > 0
    BY <1>3, LenProperties, EmptySeq DEF Begin, TypeOK
  <2>2. TypeOK'
    BY <1>3, <2>1 DEF Begin, TypeOK, callers, sending, LPCs
  <2>3. ListenerInv'
    BY <1>3, <2>1 DEF Begin, ListenerInv, sending
  <2>. QED
    BY <2>2, <2>3
<1>4. CASE StatusBad
  BY <1>4 DEF StatusBad, TypeOK, ListenerInv, callers, sending, LPCs
<1>5. CASE StatusGood
  BY <1>5 DEF StatusGood, TypeOK, ListenerInv, callers, sending, LPCs
<1>6. CASE TakeWrite
  <2>. raced' \in BOOLEAN
    BY <1>6 DEF TakeWrite, TypeOK
  <2>1. TypeOK'
    BY <1>6, Blank DEF TakeWrite, TypeOK, callers, sending, LPCs
  <2>2. ListenerInv'
    BY <1>6, Limits DEF TakeWrite, ListenerInv, sending
  <2>. QED
    BY <2>1, <2>2
<1>7. CASE MempoolFull
  BY <1>7 DEF MempoolFull, TypeOK, ListenerInv, callers, sending, LPCs
<1>8. CASE ResetQueue
  <2>1. InSeq(batch) \subseteq Msgs /\ InSeq(messages) \subseteq Msgs
    BY LenProperties, ElementOfSeq DEF InSeq, TypeOK
  <2>2. TypeOK'
    <3>1. messages' \in Seq(Msgs) /\ batch' \in Seq(Msgs) /\ outcome' \in Results
      BY <1>8, Blank DEF ResetQueue
    <3>2. attempts' \in 0..MaxAttempts
      BY <1>8, Limits DEF ResetQueue
    <3>. pinned' \in BOOLEAN /\ raced' \in BOOLEAN
      BY <1>8 DEF ResetQueue, TypeOK
    <3>. dropped' \subseteq Msgs
      BY <1>8, <2>1 DEF ResetQueue, TypeOK
    <3>. QED
      BY <1>8, <3>1, <3>2 DEF ResetQueue, TypeOK, callers, LPCs
  <2>3. ListenerInv'
    BY <1>8, Limits DEF ResetQueue, ListenerInv
  <2>. QED
    BY <2>2, <2>3
<1>9. CASE FillNote
  <2>1. Current \in Msgs
    BY <1>9, CurrentIsMsg DEF FillNote
  <2>2. note' \in [Msgs -> Notes]
    BY <1>9, <2>1 DEF FillNote, Notes, TypeOK
  <2>3. TypeOK'
    BY <1>9, <2>2 DEF FillNote, TypeOK, sending, LPCs
  <2>4. ListenerInv'
    BY <1>9 DEF FillNote, ListenerInv, sending
  <2>. QED
    BY <2>3, <2>4
<1>. QED
  BY <1>1, <1>2, <1>3, <1>4, <1>5, <1>6, <1>7, <1>8, <1>9, TakeReadListenerOK,
     AttemptListenerOK, ReleaseListenerOK
  DEF Listener

LEMMA NextListenerOK == ListenerOK /\ [Next]_vars => ListenerOK'
<1> SUFFICES ASSUME ListenerOK, [Next]_vars PROVE ListenerOK'
  OBVIOUS
<1>1. CASE Stop
  BY <1>1 DEF Stop, ListenerOK, TypeOK, ListenerInv, callers, sending
<1>2. CASE UNCHANGED vars
  BY <1>2 DEF vars, ListenerOK, TypeOK, ListenerInv, callers, sending
<1>. QED
  BY <1>1, <1>2, CallerListenerOK, ListenerListenerOK DEF Next

\* The variables keep their types, and the retry loop its bound of MaxAttempts
\* (queue.go:29-298).
THEOREM TypeCorrect == Spec => []TypeOK
<1>1. Spec => []ListenerOK
  BY InitListenerOK, NextListenerOK, PTL DEF Spec
<1>2. ListenerOK => TypeOK
  BY DEF ListenerOK
<1>. QED
  BY <1>1, <1>2, PTL

-----------------------------------------------------------------------------
(* Answers: a result is set before the WaitGroup lets the caller go, and    *)
(* an accepted transaction holds the caller's message where Index() says.  *)

AnswerOK == ListenerOK /\ AnswerInv

LEMMA InitAnswerOK == Init => AnswerOK
<1> SUFFICES ASSUME Init PROVE AnswerInv
  BY InitListenerOK DEF AnswerOK
<1>1. \A m \in Msgs : pc[m] = "new" /\ note[m] = NoNote
  BY DEF Init
<1>2. lpc = "listening"
  BY DEF Init
<1>3. PlacesMatch
  BY <1>1 DEF PlacesMatch, NoNote, NoResult
<1>. QED
  BY <1>1, <1>2, <1>3 DEF AnswerInv

LEMMA CallerAnswerOK ==
  ASSUME AnswerOK, NEW m \in Msgs, Caller(m)
  PROVE  AnswerInv'
<1>1. UNCHANGED <<lpc, outcome, batch, chain, answered>>
  BY DEF Caller, AddScan, AppendRead, AppendWrite, WaitReturns, sending
<1>2. /\ pc \in [Msgs -> PCs]
      /\ wg \in [Msgs -> Nat]
      /\ note \in [Msgs -> Notes]
  BY DEF AnswerOK, ListenerOK, TypeOK
<1>3. \A n \in Msgs : note'[n].result = note[n].result
  <2>1. note' = note \/ note' = [note EXCEPT ![m].index = -1]
    BY DEF Caller, AddScan, AppendRead, AppendWrite, WaitReturns
  <2>2. note[m] \in Notes
    BY <1>2
  <2>3. [note[m] EXCEPT !.index = -1].result = note[m].result
    BY <2>2 DEF Notes
  <2>. QED
    BY <1>2, <2>1, <2>3
<1>4. \A n \in Msgs : n # m => pc'[n] = pc[n] /\ wg'[n] = wg[n]
  BY <1>2 DEF Caller, AddScan, AppendRead, AppendWrite, WaitReturns
<1>5. \/ pc'[m] = "duplicate"
      \/ pc'[m] = "scanned" /\ wg'[m] = 1
      \/ pc'[m] \in {"appending", "queued"} /\ pc[m] \in {"scanned", "appending"}
         /\ wg'[m] = wg[m]
      \/ pc'[m] = "returned" /\ pc[m] = "queued" /\ wg'[m] = wg[m] /\ wg[m] = 0
  BY <1>2 DEF Caller, AddScan, AppendRead, AppendWrite, WaitReturns
<1>6. lpc = "releasing" => note'[Current].result = note[Current].result
  BY <1>3, CurrentIsMsg DEF AnswerOK
<1>7. PlacesMatch'
  <2> SUFFICES ASSUME NEW n \in Msgs, pc'[n] # "duplicate",
                      note'[n].result.code = "accepted"
               PROVE  /\ note'[n].result.tx \in DOMAIN chain'
                      /\ LET tx == chain'[note'[n].result.tx]
                         IN  /\ note'[n].index + 1 \in DOMAIN tx
                             /\ tx[note'[n].index + 1] = n
    BY DEF PlacesMatch
  <2>1. note'[n] = note[n] /\ pc[n] # "duplicate"
    BY <1>2 DEF Caller, AddScan, AppendRead, AppendWrite, WaitReturns
  <2>. QED
    BY <1>1, <2>1 DEF AnswerOK, AnswerInv, PlacesMatch
<1>8. \A n \in Msgs : \/ pc'[n] \in {"new", "duplicate"} \/ wg'[n] > 0
                      \/ IsSet(note'[n].result)
  BY <1>2, <1>3, <1>4, <1>5 DEF AnswerOK, AnswerInv, IsSet
<1>9. \A n \in Msgs : pc'[n] = "returned" => wg'[n] = 0
  BY <1>4, <1>5 DEF AnswerOK, AnswerInv
<1>. QED
  BY <1>1, <1>6, <1>7, <1>8, <1>9 DEF AnswerOK, AnswerInv, IsSet, Current

LEMMA AttemptAnswerOK ==
  ASSUME AnswerOK, NEW a \in Answers, Attempt(a)
  PROVE  AnswerInv'
<1>1. UNCHANGED <<pc, wg, note, batch, answered>> /\ lpc' \in {"sending", "filling"}
  BY DEF Attempt, callers
<1>2. chain \in Seq(Seq(Msgs)) /\ batch \in Seq(Msgs) /\ a \in AllAnswers
  BY QueueAssumption DEF AnswerOK, ListenerOK, TypeOK
<1>3. /\ DOMAIN chain \subseteq DOMAIN chain'
      /\ \A i \in DOMAIN chain : chain'[i] = chain[i]
      /\ Entered(a) => Len(chain) + 1 \in DOMAIN chain' /\ chain'[Len(chain) + 1] = batch
  <2>1. CASE Entered(a)
    <3>1. chain' = Append(chain, batch)
      BY <2>1 DEF Attempt
    <3>. QED
      BY <1>2, <2>1, <3>1, AppendProperties, LenProperties
  <2>2. CASE ~Entered(a)
    BY <2>2 DEF Attempt
  <2>. QED
    BY <2>1, <2>2
<1>4. lpc' = "filling" => IsSet(outcome')
  <2>1. CASE TriesAgain(a) /\ lpc' = "filling"
    <3>1. attempts' = MaxAttempts /\ outcome' = [Response(a) EXCEPT !.err = (attempts' = MaxAttempts)]
      BY <2>1 DEF Attempt
    <3>. QED
      BY <3>1 DEF Response, IsSet
  <2>2. CASE ~TriesAgain(a)
    <3>1. a \in {"accepted", "rejected", "mismatch"}
      BY <1>2, <2>2 DEF Attempt, TriesAgain, AllAnswers
    <3>2. outcome'.code # "nil"
      BY <2>2, <3>1 DEF Attempt, Response
    <3>. QED
      BY <3>2 DEF IsSet
  <2>. QED
    BY <2>1, <2>2
<1>5. lpc' = "filling" /\ outcome'.code = "accepted" =>
        outcome'.tx \in DOMAIN chain' /\ chain'[outcome'.tx] = batch'
  BY <1>1, <1>2, <1>3 DEF Attempt, TriesAgain, Response, Entered, AllAnswers
<1>6. PlacesMatch'
  BY <1>1, <1>3 DEF AnswerOK, AnswerInv, PlacesMatch
<1>. QED
  BY <1>1, <1>4, <1>5, <1>6 DEF AnswerOK, AnswerInv, IsSet

LEMMA FillNoteAnswerOK ==
  ASSUME AnswerOK, FillNote
  PROVE  AnswerInv'
<1>1. lpc = "filling" /\ lpc' = "releasing" /\ UNCHANGED <<pc, wg, outcome, batch, chain, answered>>
  BY DEF FillNote, sending
<1>2. /\ note \in [Msgs -> Notes]
      /\ note' = [note EXCEPT ![Current] = [result |-> outcome, index |-> answered]]
  BY DEF FillNote, AnswerOK, ListenerOK, TypeOK
<1>3. Current \in Msgs /\ answered + 1 \in 1..Len(batch) /\ DOMAIN batch = 1..Len(batch)
  BY <1>1, CurrentIsMsg, LenProperties DEF AnswerOK, ListenerOK, TypeOK
<1>4. note'[Current] = [result |-> outcome, index |-> answered]
  BY <1>2, <1>3
<1>5. \A m \in Msgs : m # Current => note'[m] = note[m]
  BY <1>2, <1>3
<1>6. PlacesMatch'
  BY <1>1, <1>3, <1>4, <1>5 DEF AnswerOK, AnswerInv, PlacesMatch, Current
<1>7. \A m \in Msgs : IsSet(note[m].result) \/ m = Current => IsSet(note'[m].result)
  BY <1>1, <1>4, <1>5 DEF AnswerOK, AnswerInv, IsSet
<1>8. Current' = Current
  BY <1>1 DEF Current
<1>. QED
  BY <1>1, <1>4, <1>6, <1>7, <1>8 DEF AnswerOK, AnswerInv, IsSet

LEMMA ReleaseAnswerOK ==
  ASSUME AnswerOK, Release
  PROVE  AnswerInv'
<1>1. lpc = "releasing" /\ UNCHANGED <<pc, note, chain>>
  BY DEF Release
<1>2. wg \in [Msgs -> Nat] /\ Current \in Msgs
  BY <1>1, CurrentIsMsg DEF AnswerOK, ListenerOK, TypeOK
<1>3. \A m \in Msgs : /\ m # Current => wg'[m] = wg[m]
                      /\ wg[m] = 0 => wg'[m] = 0
  BY <1>2 DEF Release
<1>4. IsSet(note[Current].result)
  BY <1>1 DEF AnswerOK, AnswerInv, IsSet
<1>5. \/ lpc' \in {"panicked", "listening"}
      \/ lpc' = "filling" /\ UNCHANGED <<outcome, batch>>
  BY DEF Release
<1>6. PlacesMatch'
  BY <1>1 DEF AnswerOK, AnswerInv, PlacesMatch
<1>7. \A m \in Msgs : pc'[m] \in {"new", "duplicate"} \/ wg'[m] > 0 \/ IsSet(note'[m].result)
  <2> TAKE m \in Msgs
  <2>1. CASE m = Current
    BY <1>1, <1>4, <2>1
  <2>2. CASE m # Current
    BY <1>1, <1>3, <2>2 DEF AnswerOK, AnswerInv
  <2>. QED
    BY <2>1, <2>2
<1>8. \A m \in Msgs : pc'[m] = "returned" => wg'[m] = 0
  <2>1. \A m \in Msgs : pc[m] = "returned" => wg[m] = 0
    BY DEF AnswerOK, AnswerInv
  <2>. QED
    BY <1>1, <1>3, <2>1
<1>9. lpc' = "filling" => /\ IsSet(outcome')
                          /\ outcome'.code = "accepted" =>
                               outcome'.tx \in DOMAIN chain' /\ chain'[outcome'.tx] = batch'
  BY <1>1, <1>5 DEF AnswerOK, AnswerInv, IsSet
<1>. QED
  BY <1>5, <1>6, <1>7, <1>8, <1>9 DEF AnswerInv, IsSet

LEMMA NextAnswerOK == AnswerOK /\ [Next]_vars => AnswerOK'
<1> SUFFICES ASSUME AnswerOK, [Next]_vars PROVE AnswerInv'
  BY NextListenerOK DEF AnswerOK
<1>1. ASSUME UNCHANGED <<pc, wg, note, chain>>, lpc' \notin {"filling", "releasing"}
      PROVE  AnswerInv'
  BY <1>1 DEF AnswerOK, AnswerInv, PlacesMatch, IsSet
<1>2. CASE Loop \/ Skip \/ Begin \/ StatusBad \/ StatusGood \/ TakeRead \/ TakeWrite
           \/ MempoolFull \/ ResetQueue
  BY <1>1, <1>2 DEF Loop, Skip, Begin, StatusBad, StatusGood, TakeRead, TakeWrite,
     MempoolFull, ResetQueue, callers, sending
<1>3. CASE Stop \/ UNCHANGED vars
  BY <1>3 DEF Stop, vars, callers, sending, AnswerOK, AnswerInv, PlacesMatch, IsSet, Current
<1>. QED
  BY <1>2, <1>3, CallerAnswerOK, AttemptAnswerOK, FillNoteAnswerOK, ReleaseAnswerOK
  DEF Next, Listener

\* Whoever comes back from wg.Wait() finds an error or a response: FillNote comes
\* before Release for the same message (queue.go:286-291, proofs.go:262).
THEOREM AnsweredBeforeWoken == Spec => []WokenWithAnswer
<1>1. Spec => []AnswerOK
  BY InitAnswerOK, NextAnswerOK, PTL DEF Spec
<1>2. AnswerOK => WokenWithAnswer
  BY DEF AnswerOK, AnswerInv, WokenWithAnswer
<1>. QED
  BY <1>1, <1>2, PTL

\* An accepted transaction holds the caller's message at the index it is told
\* (queue.go:289, proofs.go:278).
THEOREM IndexIsRight == Spec => []AnswerIsOwn
<1>1. Spec => []AnswerOK
  BY InitAnswerOK, NextAnswerOK, PTL DEF Spec
<1>2. AnswerOK => AnswerIsOwn
  BY DEF AnswerOK, AnswerInv, AnswerIsOwn
<1>. QED
  BY <1>1, <1>2, PTL

-----------------------------------------------------------------------------
(* The size of a batch.  TxSize is a recursive function: the proof needs    *)
(* only that what is cut is what was measured, so it stays unopened.       *)

\* From the cut on the batch is one that fits.
BatchInv ==
  lpc \in {"cutting", "sending", "full", "filling", "releasing"} =>
    /\ batch # <<>>
    /\ Len(batch) > MinBatch => TxSize(batch) <= MaxSizeBytes

BatchOK == ListenerOK /\ BatchInv

\* A cutoff above the least batch is the length of the longest prefix that fits.
LEMMA CutoffFits ==
  ASSUME NEW limit \in Nat, NEW n \in 0..limit, Cutoff(n, limit) > MinBatch
  PROVE  Cutoff(n, limit) = n /\ n \in 1..n
  BY Limits DEF Cutoff

LEMMA TakeReadBatchOK ==
  ASSUME ListenerOK, TakeRead
  PROVE  BatchInv'
<1>1. CASE total > Len(messages)
  BY <1>1 DEF TakeRead, BatchInv
<1>2. CASE ~(total > Len(messages))
  <2>1. PICK n \in 0..total :
           /\ IsLongestFit(messages, total, n)
           /\ batch' = SubSeq(messages, 1, Cutoff(n, total))
    BY <1>2 DEF TakeRead
  <2>2. total \in Nat /\ total > 0
    BY DEF TakeRead, ListenerOK, TypeOK, ListenerInv
  <2>3. Cutoff(n, total) \in 1..total
    BY <2>2, CutoffBounds
  <2>4. messages \in Seq(Msgs) /\ Len(messages) \in Nat /\ total <= Len(messages)
    BY <1>2, <2>2, LenProperties DEF ListenerOK, TypeOK
  <2>5. \A i \in 1..Cutoff(n, total) : messages[i] \in Msgs
    BY <2>2, <2>3, <2>4, ElementOfSeq
  <2>6. batch' \in Seq(Msgs) /\ Len(batch') = Cutoff(n, total)
    <3> DEFINE c == Cutoff(n, total)
    <3>1. c \in 1..total /\ batch' = SubSeq(messages, 1, c)
          /\ \A i \in 1..c : messages[i] \in Msgs
      BY <2>1, <2>3, <2>5
    <3> HIDE DEF c
    <3>2. batch' \in Seq(Msgs) /\ Len(batch') = c
      BY <3>1, SubSeqProperties
    <3>. QED
      BY <3>2 DEF c
  <2>7. batch' # <<>>
    BY <2>3, <2>6, Blank
  <2>8. ASSUME Len(batch') > MinBatch
        PROVE  TxSize(batch') <= MaxSizeBytes
    <3>1. Cutoff(n, total) = n /\ n \in 1..n
      BY <2>2, <2>6, <2>8, CutoffFits
    <3>2. Fits(messages, n)
      BY <2>1, <3>1 DEF IsLongestFit
    <3>3. batch' = SubSeq(messages, 1, n)
      BY <2>1, <3>1
    <3>. QED
      BY <3>2, <3>3 DEF Fits
  <2>. QED
    BY <2>7, <2>8 DEF BatchInv
<1>. QED
  BY <1>1, <1>2

LEMMA NextBatchOK == BatchOK /\ [Next]_vars => BatchOK'
<1> SUFFICES ASSUME BatchOK, [Next]_vars PROVE BatchInv'
  BY NextListenerOK DEF BatchOK
<1> USE DEF BatchOK
<1>1. CASE TakeRead
  BY <1>1, TakeReadBatchOK
<1>2. CASE \/ Loop \/ Skip \/ Begin \/ StatusBad \/ StatusGood \/ ResetQueue
  <2>1. lpc' \in {"listening", "ticking", "status", "taking", "stopped"}
    BY <1>2 DEF Loop, Skip, Begin, StatusBad, StatusGood, ResetQueue
  <2>. QED
    BY <2>1 DEF BatchInv
<1>3. CASE TakeWrite \/ MempoolFull \/ FillNote \/ \E a \in Answers : Attempt(a)
  <2>1. lpc \in {"cutting", "sending", "filling"} /\ batch' = batch
    BY <1>3 DEF TakeWrite, MempoolFull, FillNote, Attempt
  <2>. QED
    BY <2>1 DEF BatchInv
<1>4. CASE Release
  <2>1. lpc = "releasing" /\ (batch' = batch \/ lpc' = "listening")
    BY <1>4 DEF Release
  <2>. QED
    BY <2>1 DEF BatchInv
<1>5. CASE Stop \/ UNCHANGED vars \/ \E m \in Msgs : Caller(m)
  <2>1. UNCHANGED <<lpc, batch>>
    BY <1>5 DEF Stop, vars, Caller, AddScan, AppendRead, AppendWrite, WaitReturns
  <2>. QED
    BY <2>1 DEF BatchInv
<1>. QED
  BY <1>1, <1>2, <1>3, <1>4, <1>5 DEF Next, Listener

\* No transaction is empty, and one above max_size_bytes has no more than the
\* least number of messages (queue.go:194-218).
THEOREM BatchesFit == Spec => []BatchFits
<1>1. Init => BatchOK
  BY InitListenerOK DEF Init, BatchOK, BatchInv
<1>2. BatchOK => BatchFits
  BY DEF BatchOK, BatchInv, BatchFits
<1>. QED
  BY <1>1, <1>2, NextBatchOK, PTL DEF Spec
=============================================================================
