------------------------------- MODULE Queue -------------------------------
(***************************************************************************)
(* The transaction queue of a storage provider (src/queue/queue.go).       *)
(*                                                                         *)
(* Goroutines of the provider (provers, stray hands, upload handlers) call *)
(* Add and then block on the WaitGroup that it returns.  One goroutine     *)
(* runs Listen: it takes a batch from the front of the queue, broadcasts   *)
(* it as one transaction, and answers every message of the batch.          *)
(*                                                                         *)
(* A member m of Msgs is one call of Add, with its Message, its WaitGroup  *)
(* and the goroutine that waits.  Nothing in the code guards q.messages:   *)
(* an append is a read of the slice followed by a write of the slice, and  *)
(* so is the cut in BroadcastPending.  All these overlap here as they may   *)
(* in the program, and raced notes that two of them did.  The array behind *)
(* the slice is left out: overlapping appends are taken to fill arrays of  *)
(* their own, where in the program they may share one.  So what holds only *)
(* of slices and their contents is claimed until then.                     *)
(***************************************************************************)
EXTENDS Integers, Sequences, FiniteSets

CONSTANTS
    Msgs,          \* the calls of Add
    Key,           \* Key[m]: (merkle, start, owner) of a MsgPostProof, or NoKey
    NoKey,         \* the key of the messages of every other type
    Size,          \* Size[m]: the estimated size of a message
    BaseOverhead,  \* the estimated size of an empty transaction (500)
    MaxSizeBytes,  \* the configured max_size_bytes
    MinBatch,      \* a batch is never cut below this many messages (45)
    MaxAttempts,   \* broadcast attempts for a batch (10)
    Answers,       \* the answers a broadcast may get: a subset of AllAnswers
    CanStop        \* whether Stop is called

\* What BroadcastTxSync may give back.  The first six are errors, "lostReply"
\* being one that comes back although the transaction entered the mempool.
AllAnswers ==
    {"cached", "full", "errMismatchNoted", "errMismatch", "error", "lostReply",
     "nilResponse", "accepted", "rejected", "mismatchNoted", "mismatch"}

ASSUME QueueAssumption ==
    /\ Key \in [Msgs -> {Key[m] : m \in Msgs}]
    /\ Size \in [Msgs -> Nat]
    /\ BaseOverhead \in Nat
    /\ MaxSizeBytes \in Nat
    /\ MinBatch \in Nat \ {0}
    /\ MaxAttempts \in Nat \ {0}
    /\ Answers \subseteq AllAnswers
    /\ CanStop \in BOOLEAN

VARIABLES
    \* the shared Queue
    messages,   \* q.messages
    running,    \* q.running
    \* each call of Add and its Message
    pc,         \* where the calling goroutine is
    slice,      \* the value of q.messages that its append has read
    wg,         \* the counter of the WaitGroup
    note,       \* err, res and msgIndex of the Message
    \* the goroutine that runs Listen
    lpc,        \* where it is
    total,      \* BroadcastPending's total
    batch,      \* BroadcastPending's toProcess
    rest,       \* the value that q.messages[cutoff:] has read
    attempts,   \* BroadcastPending's i
    pinned,     \* whether data.Sequence is set
    outcome,    \* BroadcastPending's err and res
    answered,   \* how many messages of the batch are answered
    \* the outside, and history
    chain,      \* the transactions the chain's mempool took, in order
    unheard,    \* the places in chain of those whose reply was lost
    dropped,    \* messages thrown away by the reset of a full mempool
    raced       \* q.messages was written within another goroutine's access

callers  == <<pc, slice, wg, note>>
sending  == <<attempts, pinned, outcome, chain, unheard>>
vars == <<messages, running, callers, lpc, total, batch, rest, sending,
          answered, dropped, raced>>

-----------------------------------------------------------------------------
(* Results.  tx is the place of the answered transaction in chain, or 0.   *)

Results == [err : BOOLEAN, code : {"nil", "accepted", "rejected"}, tx : Nat]
NoResult == [err |-> FALSE, code |-> "nil", tx |-> 0]

\* A Message as Add makes it: no error, no response, index 0.
Notes == [result : Results, index : Int]
NoNote == [result |-> NoResult, index |-> 0]

PCs  == {"new", "scanned", "appending", "queued", "duplicate", "returned"}
LPCs == {"listening", "ticking", "status", "taking", "cutting", "sending", "full",
         "filling", "releasing", "stopped", "panicked"}

Init ==
    /\ messages = <<>>
    /\ running = TRUE
    /\ pc = [m \in Msgs |-> "new"]
    /\ slice = [m \in Msgs |-> <<>>]
    /\ wg = [m \in Msgs |-> 0]
    /\ note = [m \in Msgs |-> NoNote]
    /\ lpc = "listening"
    /\ total = 0
    /\ batch = <<>>
    /\ rest = <<>>
    /\ attempts = 0
    /\ pinned = FALSE
    /\ outcome = NoResult
    /\ answered = 0
    /\ chain = <<>>
    /\ unheard = {}
    /\ dropped = {}
    /\ raced = FALSE

\* The process has not died of a Go panic.
Alive == lpc # "panicked"

\* The calls of Add that have looked through q.messages and not yet written it.
Adding == {m \in Msgs : pc[m] \in {"scanned", "appending"}}

-----------------------------------------------------------------------------
(* Add(msg), in the calling goroutine.                                     *)

\* Variant of Twins: only the last message of the slice is looked at.
TwinsOfLast(s, m) == {i \in {Len(s)} \ {0} : Key[m] # NoKey /\ Key[s[i]] = Key[m]}

\* Messages of the slice that post the same proof as m.
Twins(s, m) == {i \in DOMAIN s : Key[m] # NoKey /\ Key[s[i]] = Key[m]}

\* The search for a queued proof of the same file.  One is found: the caller
\* gets index -1 and a WaitGroup that never blocks.  None: wg.Add(1).
AddScan(m) ==
    /\ Alive
    /\ pc[m] = "new"
    /\ \/ /\ Twins(messages, m) # {}
          /\ pc' = [pc EXCEPT ![m] = "duplicate"]
          /\ note' = [note EXCEPT ![m].index = -1]
          /\ UNCHANGED wg
       \/ /\ Twins(messages, m) = {}
          /\ pc' = [pc EXCEPT ![m] = "scanned"]
          /\ wg' = [wg EXCEPT ![m] = 1]
          /\ UNCHANGED note
    /\ UNCHANGED <<messages, running, slice, lpc, total, batch, rest, sending,
                   answered, dropped, raced>>

\* q.messages = append(q.messages, m): the read of the slice ...
AppendRead(m) ==
    /\ Alive
    /\ pc[m] = "scanned"
    /\ pc' = [pc EXCEPT ![m] = "appending"]
    /\ slice' = [slice EXCEPT ![m] = messages]
    /\ UNCHANGED <<messages, running, wg, note, lpc, total, batch, rest, sending,
                   answered, dropped, raced>>

\* Variant of AppendWrite: the message goes to the front.
AppendInFront(m) ==
    /\ Alive
    /\ pc[m] = "appending"
    /\ messages' = <<m>> \o slice[m]
    /\ pc' = [pc EXCEPT ![m] = "queued"]
    /\ slice' = [slice EXCEPT ![m] = <<>>]
    /\ raced' = (raced \/ Adding # {m} \/ lpc = "cutting")
    /\ UNCHANGED <<running, wg, note, lpc, total, batch, rest, sending,
                   answered, dropped>>

\* ... and its write.
AppendWrite(m) ==
    /\ Alive
    /\ pc[m] = "appending"
    /\ messages' = Append(slice[m], m)
    /\ pc' = [pc EXCEPT ![m] = "queued"]
    /\ slice' = [slice EXCEPT ![m] = <<>>]
    /\ raced' = (raced \/ Adding # {m} \/ lpc = "cutting")
    /\ UNCHANGED <<running, wg, note, lpc, total, batch, rest, sending,
                   answered, dropped>>

\* wg.Wait() returns to the caller.
WaitReturns(m) ==
    /\ Alive
    /\ pc[m] = "queued"
    /\ wg[m] = 0
    /\ pc' = [pc EXCEPT ![m] = "returned"]
    /\ UNCHANGED <<messages, running, slice, wg, note, lpc, total, batch, rest,
                   sending, answered, dropped, raced>>

Caller(m) == AddScan(m) \/ AppendRead(m) \/ AppendWrite(m) \/ WaitReturns(m)

-----------------------------------------------------------------------------
(* Listen: every 100ms it looks at the queue, unless Stop was called.      *)

Stop ==
    /\ CanStop
    /\ Alive
    /\ running
    /\ running' = FALSE
    /\ UNCHANGED <<messages, callers, lpc, total, batch, rest, sending,
                   answered, dropped, raced>>

\* Variant of Loop: it never looks at running.
LoopForever ==
    /\ lpc = "listening"
    /\ lpc' = "ticking"
    /\ UNCHANGED <<messages, running, callers, total, batch, rest, sending,
                   answered, dropped, raced>>

\* The test at the top of the loop.
Loop ==
    /\ lpc = "listening"
    /\ lpc' = IF running THEN "ticking" ELSE "stopped"
    /\ UNCHANGED <<messages, running, callers, total, batch, rest, sending,
                   answered, dropped, raced>>

\* The interval is not over, the queue is empty or the rate limiter refuses.
Skip ==
    /\ lpc = "ticking"
    /\ lpc' = "listening"
    /\ UNCHANGED <<messages, running, callers, total, batch, rest, sending,
                   answered, dropped, raced>>

\* BroadcastPending is called on a queue that is not empty.
Begin ==
    /\ lpc = "ticking"
    /\ messages # <<>>
    /\ lpc' = "status"
    /\ total' = Len(messages)
    /\ UNCHANGED <<messages, running, callers, batch, rest, sending,
                   answered, dropped, raced>>

-----------------------------------------------------------------------------
(* BroadcastPending.                                                       *)

\* The node's mempool could not be asked, or holds more than 2000
\* transactions (after a pause of 30 minutes): the queue is left alone.
StatusBad ==
    /\ lpc = "status"
    /\ lpc' = "listening"
    /\ total' = 0
    /\ UNCHANGED <<messages, running, callers, batch, rest, sending,
                   answered, dropped, raced>>

StatusGood ==
    /\ lpc = "status"
    /\ lpc' = "taking"
    /\ UNCHANGED <<messages, running, callers, total, batch, rest, sending,
                   answered, dropped, raced>>

\* The estimated size of a transaction of the messages of s.
TxSize(s) ==
    LET size[i \in 0..Len(s)] ==
            IF i = 0 THEN BaseOverhead ELSE size[i - 1] + Size[s[i]]
    IN  size[Len(s)]

\* The first i messages of s fit.
Fits(s, i) == TxSize(SubSeq(s, 1, i)) <= MaxSizeBytes

\* Variant of IsLongestFit: the message that exceeds the limit is taken along.
FitsOneTooMany(s, limit, n) ==
    /\ \A i \in 1..(n - 1) : Fits(s, i)
    /\ n < limit => ~Fits(s, n)

\* n is the length of the longest prefix of s, up to limit, that fits.
IsLongestFit(s, limit, n) ==
    /\ \A i \in 1..n : Fits(s, i)
    /\ n < limit => ~Fits(s, n + 1)

\* What is taken when n messages fit: MinBatch at least, limit at most.
Cutoff(n, limit) ==
    LET least == IF n < MinBatch THEN MinBatch ELSE n
    IN  IF least > limit THEN limit ELSE least

\* Variant of TakeRead: q.messages[cutoff+1:] stays in the queue.
TakeOneTooMany ==
    /\ lpc = "taking"
    /\ total <= Len(messages)
    /\ \E n \in 0..total :
          LET cutoff == Cutoff(n, total)
          IN  /\ IsLongestFit(messages, total, n)
              /\ batch' = SubSeq(messages, 1, cutoff)
              /\ rest' = SubSeq(messages, cutoff + 2, Len(messages))
    /\ lpc' = "cutting"
    /\ UNCHANGED <<messages, running, callers, total, sending, answered, dropped, raced>>

\* toProcess := q.messages[:cutoff], and the read of q.messages[cutoff:].
\* The loop that sizes the batch indexes q.messages below total.
TakeRead ==
    /\ lpc = "taking"
    /\ IF total > Len(messages)
       THEN /\ lpc' = "panicked"
            /\ UNCHANGED <<batch, rest>>
       ELSE /\ \E n \in 0..total :
                  LET cutoff == Cutoff(n, total)
                  IN  /\ IsLongestFit(messages, total, n)
                      /\ batch' = SubSeq(messages, 1, cutoff)
                      /\ rest' = SubSeq(messages, cutoff + 1, Len(messages))
            /\ lpc' = "cutting"
    /\ UNCHANGED <<messages, running, callers, total, sending, answered, dropped, raced>>

\* Variant of TakeWrite: the queue is not cut.
TakeWithoutCut ==
    /\ lpc = "cutting"
    /\ rest' = <<>>
    /\ total' = 0
    /\ lpc' = "sending"
    /\ raced' = (raced \/ Adding # {})
    /\ UNCHANGED <<messages, running, callers, batch, sending, answered, dropped>>

\* q.messages = q.messages[cutoff:]
TakeWrite ==
    /\ lpc = "cutting"
    /\ messages' = rest
    /\ rest' = <<>>
    /\ total' = 0
    /\ lpc' = "sending"
    /\ raced' = (raced \/ Adding # {})
    /\ UNCHANGED <<running, callers, batch, sending, answered, dropped>>

\* Variants of TriesAgain: a nil response is taken as the result; an accepted
\* transaction does not end the loop.
NilIsAnAnswer(a) ==
    \/ a \in {"cached", "errMismatchNoted", "errMismatch", "error", "lostReply",
              "mismatchNoted"}
    \/ a = "mismatch" /\ pinned
NeverComplete(a) == a # "rejected"

\* The answers after which the loop tries again.  A sequence mismatch is tried
\* again with the sequence it names, or with the next one when one is pinned;
\* a response (not an error) that does neither is taken as the result.
TriesAgain(a) ==
    \/ a \in {"cached", "errMismatchNoted", "errMismatch", "error", "lostReply",
              "nilResponse", "mismatchNoted"}
    \/ a = "mismatch" /\ pinned

\* The transaction is in the mempool, whatever the answer said.
Entered(a) == a \in {"accepted", "lostReply"}

\* res after an answer: a response, or nil beside an error.
Response(a) ==
    [err |-> FALSE,
     code |-> CASE a = "accepted" -> "accepted"
                [] a \in {"rejected", "mismatchNoted", "mismatch"} -> "rejected"
                [] OTHER -> "nil",
     tx |-> IF a = "accepted" THEN Len(chain) + 1 ELSE 0]

\* One turn of the retry loop, for every answer but "mempool is full".
Attempt(a) ==
    /\ lpc = "sending"
    /\ a # "full"
    /\ attempts' = attempts + 1
    /\ chain' = IF Entered(a) THEN Append(chain, batch) ELSE chain
    /\ unheard' = unheard \cup {i \in {Len(chain) + 1} : a = "lostReply"}
    /\ pinned' = (pinned \/ a \in {"errMismatchNoted", "mismatchNoted"})
    /\ IF TriesAgain(a)
       THEN /\ lpc' = IF attempts' = MaxAttempts THEN "filling" ELSE "sending"
            /\ outcome' = [Response(a) EXCEPT !.err = (attempts' = MaxAttempts)]
       ELSE /\ lpc' = "filling"
            /\ outcome' = Response(a)
    /\ UNCHANGED <<messages, running, callers, total, batch, rest, answered,
                   dropped, raced>>

\* "mempool is full": a pause of 30 minutes begins.
MempoolFull ==
    /\ lpc = "sending"
    /\ "full" \in Answers
    /\ lpc' = "full"
    /\ UNCHANGED <<messages, running, callers, total, batch, rest, sending,
                   answered, dropped, raced>>

InSeq(s) == {s[i] : i \in DOMAIN s}

\* The pause is over: the queue is emptied and BroadcastPending returns,
\* without an answer to the batch or to what the queue held.
ResetQueue ==
    /\ lpc = "full"
    /\ messages' = <<>>
    /\ dropped' = dropped \cup InSeq(batch) \cup InSeq(messages)
    /\ lpc' = "listening"
    /\ batch' = <<>>
    /\ attempts' = 0
    /\ pinned' = FALSE
    /\ outcome' = NoResult
    /\ raced' = (raced \/ Adding # {})
    /\ UNCHANGED <<running, callers, total, rest, chain, unheard, answered>>

\* The next message of the batch to answer.
Current == batch[answered + 1]

\* Variant of FillNote: the index counts from one.
FillIndexFromOne ==
    /\ lpc = "filling"
    /\ note' = [note EXCEPT ![Current] = [result |-> outcome, index |-> answered + 1]]
    /\ lpc' = "releasing"
    /\ UNCHANGED <<messages, running, pc, slice, wg, total, batch, rest, sending,
                   answered, dropped, raced>>

\* process.err, process.res and process.msgIndex are set ...
FillNote ==
    /\ lpc = "filling"
    /\ note' = [note EXCEPT ![Current] = [result |-> outcome, index |-> answered]]
    /\ lpc' = "releasing"
    /\ UNCHANGED <<messages, running, pc, slice, wg, total, batch, rest, sending,
                   answered, dropped, raced>>

\* Variants of Release: the last message of a batch is not released; the count
\* of attempts carries over to the next batch.
ReleaseAllButLast ==
    /\ lpc = "releasing"
    /\ wg' = [wg EXCEPT ![Current] = IF answered + 1 < Len(batch) THEN 0 ELSE @]
    /\ lpc' = IF answered + 1 < Len(batch) THEN "filling" ELSE "listening"
    /\ answered' = IF answered + 1 < Len(batch) THEN answered + 1 ELSE 0
    /\ batch' = IF answered + 1 < Len(batch) THEN batch ELSE <<>>
    /\ attempts' = 0
    /\ UNCHANGED <<messages, running, pc, slice, note, total, rest, pinned, outcome,
                   chain, unheard, dropped, raced>>
ReleaseKeepsAttempts ==
    /\ lpc = "releasing"
    /\ wg' = [wg EXCEPT ![Current] = 0]
    /\ lpc' = IF answered + 1 < Len(batch) THEN "filling" ELSE "listening"
    /\ answered' = IF answered + 1 < Len(batch) THEN answered + 1 ELSE 0
    /\ batch' = IF answered + 1 < Len(batch) THEN batch ELSE <<>>
    /\ UNCHANGED <<messages, running, pc, slice, note, total, rest, sending, dropped, raced>>

\* ... then process.Done(), which panics when the counter would go below zero.
\* After the last message BroadcastPending returns.
Release ==
    /\ lpc = "releasing"
    /\ IF wg[Current] = 0
       THEN /\ lpc' = "panicked"
            /\ UNCHANGED <<wg, batch, answered, attempts, pinned, outcome>>
       ELSE /\ wg' = [wg EXCEPT ![Current] = @ - 1]
            /\ IF answered + 1 < Len(batch)
               THEN /\ lpc' = "filling"
                    /\ answered' = answered + 1
                    /\ UNCHANGED <<batch, attempts, pinned, outcome>>
               ELSE /\ lpc' = "listening"
                    /\ answered' = 0
                    /\ batch' = <<>>
                    /\ attempts' = 0
                    /\ pinned' = FALSE
                    /\ outcome' = NoResult
    /\ UNCHANGED <<messages, running, pc, slice, note, total, rest, chain, unheard, dropped,
                   raced>>

Listener ==
    \/ Loop \/ Skip \/ Begin \/ StatusBad \/ StatusGood \/ TakeRead \/ TakeWrite
    \/ \E a \in Answers : Attempt(a)
    \/ MempoolFull \/ ResetQueue \/ FillNote \/ Release

Next == Stop \/ Listener \/ \E m \in Msgs : Caller(m)

Spec == Init /\ [][Next]_vars

\* Goroutines run, 30 minute pauses end, and every broadcast gets an answer.
\* The interval ends and the limiter refills while messages wait (Begin), and
\* the node's mempool is asked with success again and again (StatusGood).  That
\* a call of Add happens at all is not assumed.
Fairness ==
    /\ WF_vars(Listener)
    /\ SF_vars(Begin)
    /\ SF_vars(StatusGood)
    /\ \A m \in Msgs :
          WF_vars(AppendRead(m) \/ AppendWrite(m) \/ WaitReturns(m))

FairSpec == Spec /\ Fairness

-----------------------------------------------------------------------------
(* Properties                                                              *)

TypeOK ==
    /\ messages \in Seq(Msgs)
    /\ running \in BOOLEAN
    /\ pc \in [Msgs -> PCs]
    /\ slice \in [Msgs -> Seq(Msgs)]
    /\ wg \in [Msgs -> Nat]
    /\ note \in [Msgs -> Notes]
    /\ lpc \in LPCs
    /\ total \in Nat
    /\ batch \in Seq(Msgs)
    /\ rest \in Seq(Msgs)
    /\ attempts \in 0..MaxAttempts
    /\ pinned \in BOOLEAN
    /\ outcome \in Results
    /\ answered \in Nat
    /\ chain \in Seq(Seq(Msgs))
    /\ unheard \subseteq Nat
    /\ dropped \subseteq Msgs
    /\ raced \in BOOLEAN

\* The messages that are still to be answered, oldest first: what is left of
\* the batch, then the queue.
Pending ==
    IF lpc = "cutting" THEN messages
    ELSE SubSeq(batch, answered + 1, Len(batch)) \o messages

\* A goroutine blocked in wg.Wait() has its message in the queue or in the
\* batch, so that something can still wake it; only the reset of a full
\* mempool takes messages away (queue.go:131, 218, 243).
NoLostMessage ==
    \A m \in Msgs :
        pc[m] = "queued" /\ wg[m] > 0 /\ m \notin dropped => m \in InSeq(Pending)

\* Only overlapping accesses lose a message: as long as no append and no cut has
\* written q.messages within another's, each message is where it can be answered,
\* whatever the order of the steps between them (queue.go:131, 218, 243).
LostOnlyByRace == raced \/ NoLostMessage

WaitingOnce ==
    /\ Alive
    /\ \A i, j \in DOMAIN Pending : Pending[i] = Pending[j] => i = j
    /\ \A m \in InSeq(Pending) : pc[m] = "queued" /\ wg[m] = 1

\* Every message that waits for an answer is there once and its goroutine is
\* blocked on a counter of one: no second Done, so no panic of the WaitGroup,
\* and no index past the end of the queue, but for overlapping accesses
\* (queue.go:190, 217, 290).
PendingIsBlocked == raced \/ WaitingOnce

TwinFree ==
    \A i, j \in DOMAIN messages :
        Key[messages[i]] = Key[messages[j]] /\ Key[messages[i]] # NoKey => i = j

\* The search in Add keeps the queue free of two proofs of one file, unless two
\* calls search before either appends (queue.go:108-131).
OneProofPerFile == raced \/ TwinFree

IsSet(result) == result.err \/ result.code # "nil"

\* A goroutine that comes back from wg.Wait() finds an error or a response:
\* Res() is never nil beside a nil Error() (queue.go:286-291, proofs.go:262).
WokenWithAnswer ==
    \A m \in Msgs :
        pc[m] = "returned" => IsSet(note[m].result)

PlacesMatch ==
    \A m \in Msgs : pc[m] # "duplicate" /\ note[m].result.code = "accepted" =>
        /\ note[m].result.tx \in DOMAIN chain
        /\ LET tx == chain[note[m].result.tx]
           IN  note[m].index + 1 \in DOMAIN tx /\ tx[note[m].index + 1] = m

\* When the answer is an accepted transaction, Index() is the place of the
\* caller's own message in that transaction, which is where PostProof looks
\* for its response (queue.go:289, proofs.go:278).  An append that overlaps
\* another may overwrite the array that the batch is a slice of.
AnswerIsOwn == raced \/ PlacesMatch

\* A batch is sent only when it fits max_size_bytes, but for the first MinBatch
\* messages, which go whatever their size; and nothing is sent empty.
BatchFits ==
    ~raced /\ lpc \in {"sending", "full", "filling", "releasing"} =>
        /\ batch # <<>>
        /\ Len(batch) > MinBatch => TxSize(batch) <= MaxSizeBytes

SentAgainUnheard ==
    \A j \in DOMAIN chain : \A i \in 1..j - 1 :
        InSeq(chain[i]) \cap InSeq(chain[j]) # {} =>
            i \in unheard /\ chain[i] = chain[j] /\ j - i < MaxAttempts

\* A message enters the mempool a second time only after the reply to the
\* transaction that held it was lost, and then in the very same batch, within
\* the attempts of one call (queue.go:232, 275, 282).
PostedOnce == raced \/ SentAgainUnheard

\* A goroutine that waits on its WaitGroup comes back, unless Stop is called or
\* accesses to q.messages overlapped (BroadcastPending "updates per-message
\* results", queue.go:169-171).
EveryWaiterReturns ==
    \A m \in Msgs : pc[m] = "queued" ~> pc[m] = "returned" \/ ~running \/ raced

\* After Stop the listener ends, with no batch left half answered, unless a
\* second Done or a shrunk queue made it panic (queue.go:136-138, 145, 190, 290).
StopEnds == ~running ~> (lpc = "stopped" /\ batch = <<>>) \/ ~Alive

-----------------------------------------------------------------------------
(* What the proofs of these properties rest on.                            *)

\* What each place of the listener says of its local variables.
ListenerInv ==
    /\ lpc \in {"status", "taking"} => total > 0
    /\ lpc \in {"listening", "ticking", "status", "taking", "stopped"} => batch = <<>>
    /\ lpc \in {"cutting", "sending", "full", "filling", "releasing"} =>
          answered < Len(batch)
    /\ lpc \notin {"filling", "releasing", "panicked"} => answered = 0
    /\ lpc \in {"listening", "ticking", "status", "taking", "cutting"} => attempts = 0
    /\ lpc = "sending" => attempts < MaxAttempts

\* Where nobody has overlapped, a slice that was read is still the queue.
FreshInv ==
    /\ \A m \in Msgs : pc[m] = "appending" => slice[m] = messages
    /\ \A m \in Adding : wg[m] = 1
    /\ lpc = "cutting" => messages = batch \o rest
    /\ lpc \in {"status", "taking"} => total <= Len(messages)

\* A result is set before the counter of its message falls.
AnswerInv ==
    /\ lpc \in {"filling", "releasing"} =>
          /\ IsSet(outcome)
          /\ outcome.code = "accepted" =>
                outcome.tx \in DOMAIN chain /\ chain[outcome.tx] = batch
    /\ lpc = "releasing" => note[Current].result = outcome
    /\ \A m \in Msgs : pc[m] \in {"new", "duplicate"} \/ wg[m] > 0 \/ IsSet(note[m].result)
    /\ \A m \in Msgs : pc[m] = "returned" => wg[m] = 0
    /\ PlacesMatch

Inv ==
    /\ TypeOK
    /\ ListenerInv
    /\ FreshInv
    /\ WaitingOnce
    /\ NoLostMessage

-----------------------------------------------------------------------------
\* The queue keeps the promise of Mailbox: first in, first answered, each
\* answered once, a proof turned away only while its twin still waits.
Status(m) ==
    IF m \in dropped THEN "lost"
    ELSE CASE pc[m] \in {"new", "scanned", "appending"} -> "out"
           [] pc[m] = "duplicate" -> "duplicate"
           [] pc[m] = "queued" /\ wg[m] > 0 -> "waiting"
           [] OTHER -> "answered"

Promise == INSTANCE Mailbox WITH
    line <- Pending, status <- [m \in Msgs |-> Status(m)]

\* Until accesses to q.messages overlap every step of the queue is a step of
\* Mailbox or leaves it alone (queue.go:97-134, 217-218, 286-291).
KeepsPromise ==
    Promise!Init /\ [][raced' \/ Promise!Next]_<<Pending, [m \in Msgs |-> Status(m)]>>
=============================================================================
