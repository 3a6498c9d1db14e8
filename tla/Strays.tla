------------------------------- MODULE Strays -------------------------------
(***************************************************************************)
(* The stray manager of a provider and its hands (src/strays), with the    *)
(* download they do (src/network/downloads.go).  A stray is a file that    *)
(* the chain lists as open: too few providers prove it.  The manager gets  *)
(* a page of strays every now and then and gives one to each hand that is  *)
(* not busy.  A hand downloads the file from another provider, unless it   *)
(* is on disk, makes a proof, and waits until the queue has answered it.   *)
(* Manager and hands share the field `stray' of each hand, without a lock: *)
(* nil is the manager's to change, anything else the hand's.               *)
(*                                                                         *)
(* The queue is the line of Mailbox, with a batch that was taken at its    *)
(* front, and answers everything it is given.                              *)
(***************************************************************************)
EXTENDS Naturals, Sequences, FiniteSets

CONSTANTS
    Files,       \* the strays
    NoFile,
    HandCount,   \* hands: the configured number of hands
    Authorized,  \* hands that may already claim for the provider
    Providers,   \* the other providers
    CanStop      \* whether Stop is called

Hands == 1..HandCount

ASSUME StraysAssumption ==
    /\ HandCount \in Nat
    /\ Authorized \subseteq Hands
    /\ NoFile \notin Files
    /\ CanStop \in BOOLEAN

VARIABLES
    \* StrayManager
    mgr,      \* where its goroutine is
    next,     \* the hand it is at
    running,
    list,     \* s.strays
    \* each Hand
    at,       \* where its goroutine is
    on,       \* h.running
    stray,    \* h.stray
    mine,     \* the file it works on: signee, merkle, start, proofType
    left,     \* providers it has yet to ask
    copy,     \* what the copying goroutine has put into the temporary file
    listed,   \* history: the list was renewed since the hand got its stray
    gone,     \* history: hands whose file was deleted while they worked on it
    \* the disk and the queue
    stored,   \* what WriteFile has stored of each file
    line,     \* messages that wait for the queue's answer
    taken     \* how many in front of line the queue has taken as a batch

manager == <<mgr, next, running, list>>
hands   == <<at, on, stray, mine, left, copy, listed, gone>>
world   == <<stored, line, taken>>
vars    == <<manager, hands, world>>

Mgrs == {"authorizing", "granting", "asking", "idle", "turn", "refreshed", "offering",
         "taking", "stopped"}
Ats  == {"none", "new", "looking", "peeking", "checking", "finding", "choosing",
         "copying", "writing", "loading", "posting", "waiting", "ended"}
Contents == {"none", "whole", "cut"}
Copies == {"none", "running", "whole", "cut"}
Messages == [kind : {"claim", "grant", "proof"}, hand : Hands]

Init ==
    /\ mgr = "authorizing"
    /\ next = 1
    /\ running = FALSE
    /\ list = <<>>
    /\ at = [h \in Hands |-> "none"]
    /\ on = [h \in Hands |-> FALSE]
    /\ stray = [h \in Hands |-> NoFile]
    /\ mine = [h \in Hands |-> NoFile]
    /\ left = [h \in Hands |-> {}]
    /\ copy = [h \in Hands |-> "none"]
    /\ listed = [h \in Hands |-> FALSE]
    /\ gone = {}
    /\ stored \in [Files -> {"none", "whole"}]
    /\ line = <<>>
    /\ taken = 0

Goto(h, place) == at' = [at EXCEPT ![h] = place]
Message(kind, h) == [kind |-> kind, hand |-> h]

-----------------------------------------------------------------------------
(* NewStrayManager: hand after hand is authorized on the chain.            *)

Skip ==
    /\ mgr = "authorizing"
    /\ next \in Authorized
    /\ next' = next + 1
    /\ UNCHANGED <<mgr, running, list, hands, world>>

\* q.Add(msg) ...
Claim ==
    /\ mgr = "authorizing"
    /\ next \in Hands \ Authorized
    /\ line' = Append(line, Message("claim", next))
    /\ mgr' = "granting"
    /\ UNCHANGED <<next, running, list, hands, stored, taken>>

\* ... q.Add(grantMsg), and the wait for the first of the two.
Grant ==
    /\ mgr = "granting"
    /\ line' = Append(line, Message("grant", next))
    /\ mgr' = "asking"
    /\ UNCHANGED <<next, running, list, hands, stored, taken>>

\* The first message is answered, well or not: on to the next hand.
ClaimAnswered ==
    /\ mgr = "asking"
    /\ \A i \in DOMAIN line : line[i] # Message("claim", next)
    /\ mgr' = "authorizing"
    /\ next' = next + 1
    /\ UNCHANGED <<running, list, hands, world>>

-----------------------------------------------------------------------------
(* StrayManager.Start                                                      *)

\* Every hand gets a goroutine.
Start ==
    /\ mgr = "authorizing"
    /\ next > HandCount
    /\ mgr' = "idle"
    /\ running' = TRUE
    /\ at' = [h \in Hands |-> "new"]
    /\ UNCHANGED <<next, list, on, stray, mine, left, copy, listed, gone, world>>

\* What the chain may answer: a page of open files, in any order.
Pages == {page \in UNION {[1..n -> Files] : n \in 0..Cardinality(Files)} :
             \A i, j \in DOMAIN page : page[i] = page[j] => i = j}

\* for s.running
Turn ==
    /\ mgr = "idle"
    /\ running
    /\ mgr' = "turn"
    /\ UNCHANGED <<next, running, list, hands, world>>

\* RefreshList.  A query that fails or finds no stray leaves the list alone.
RefreshList(page) ==
    /\ mgr = "turn"
    /\ page # <<>>
    /\ list' = page
    /\ listed' = [h \in Hands |-> stray[h] # NoFile]
    /\ mgr' = "refreshed"
    /\ UNCHANGED <<next, running, at, on, stray, mine, left, copy, gone, world>>

\* The interval is over and the hands are visited in turn, or the turn ends here.
Offer ==
    /\ mgr \in {"turn", "refreshed"}
    /\ \/ mgr' = "offering" /\ next' = 1
       \/ mgr' = "idle" /\ UNCHANGED next
    /\ UNCHANGED <<running, list, hands, world>>

\* Variant of Visit: nobody asks whether the hand is busy.
VisitBusy ==
    /\ mgr = "offering"
    /\ mgr' = IF next \in Hands THEN "taking" ELSE "idle"
    /\ UNCHANGED <<next, running, list, hands, world>>

\* hand.Busy() is asked; after the last hand the loop begins again.
Visit ==
    /\ mgr = "offering"
    /\ \/ next \in Hands /\ stray[next] = NoFile /\ mgr' = "taking" /\ UNCHANGED next
       \/ next \in Hands /\ stray[next] # NoFile /\ next' = next + 1 /\ UNCHANGED mgr
       \/ next > HandCount /\ mgr' = "idle" /\ UNCHANGED next
    /\ UNCHANGED <<running, list, hands, world>>

\* Variant of Rest: the stray stays in the list.
RestWithIt(s) == s

\* Pop leaves this of the list.
Rest(s) == IF s = <<>> THEN s ELSE Tail(s)

\* hand.Take(s.Pop()): the first stray of the list, or nil.
Take ==
    /\ mgr = "taking"
    /\ stray' = [stray EXCEPT ![next] = IF list = <<>> THEN NoFile ELSE Head(list)]
    /\ listed' = [listed EXCEPT ![next] = FALSE]
    /\ list' = Rest(list)
    /\ mgr' = "offering"
    /\ next' = next + 1
    /\ UNCHANGED <<running, at, on, mine, left, copy, gone, world>>

\* Stop clears running of the manager and of its hands.
Stop ==
    /\ CanStop
    /\ running
    /\ running' = FALSE
    /\ on' = [h \in Hands |-> FALSE]
    /\ UNCHANGED <<mgr, next, list, at, stray, mine, left, copy, listed, gone, world>>

EndManager ==
    /\ mgr = "idle"
    /\ ~running
    /\ mgr' = "stopped"
    /\ UNCHANGED <<next, running, list, hands, world>>

-----------------------------------------------------------------------------
(* Hand.Start                                                              *)

\* h.running = true, also after a Stop that came before.
StartHand(h) ==
    /\ at[h] = "new"
    /\ on' = [on EXCEPT ![h] = TRUE]
    /\ Goto(h, "looking")
    /\ UNCHANGED <<manager, stray, mine, left, copy, listed, gone, world>>

\* h.stray = nil, and the loop begins again.
Finish(h) ==
    /\ stray' = [stray EXCEPT ![h] = NoFile]
    /\ listed' = [listed EXCEPT ![h] = FALSE]
    /\ mine' = [mine EXCEPT ![h] = NoFile]
    /\ left' = [left EXCEPT ![h] = {}]
    /\ copy' = [copy EXCEPT ![h] = "none"]
    /\ gone' = gone \ {h}
    /\ Goto(h, "looking")
    /\ UNCHANGED <<manager, on>>

\* for h.running
Loop(h) ==
    /\ at[h] = "looking"
    /\ Goto(h, IF on[h] THEN "peeking" ELSE "ended")
    /\ UNCHANGED <<manager, on, stray, mine, left, copy, listed, gone, world>>

\* Without a stray the hand sleeps and begins again.
Look(h) ==
    /\ at[h] = "peeking"
    /\ mine' = [mine EXCEPT ![h] = stray[h]]
    /\ Goto(h, IF stray[h] = NoFile THEN "looking" ELSE "checking")
    /\ UNCHANGED <<manager, on, stray, left, copy, listed, gone, world>>

\* f.CheckTree: no download when the file is on disk.
CheckTree(h) ==
    /\ at[h] = "checking"
    /\ \/ Finish(h)
       \/ /\ Goto(h, IF stored[mine[h]] = "none" THEN "finding" ELSE "loading")
          /\ UNCHANGED <<manager, on, stray, mine, left, copy, listed, gone>>
    /\ UNCHANGED world

\* DownloadFile: the chain names the providers that have the file.
FindFile(h) ==
    /\ at[h] = "finding"
    /\ \/ Finish(h)
       \/ /\ Goto(h, "choosing")
          /\ \E found \in SUBSET Providers : left' = [left EXCEPT ![h] = found]
          /\ UNCHANGED <<manager, on, stray, mine, copy, listed, gone>>
    /\ UNCHANGED world

\* All have been asked: the file is given up.
NotFound(h) ==
    /\ at[h] = "choosing"
    /\ left[h] = {}
    /\ Finish(h)
    /\ UNCHANGED world

\* DownloadFileFromURL asks the next provider, which refuses or fails, or answers:
\* then a goroutine copies the body into a temporary file.
Request(h) ==
    /\ at[h] = "choosing"
    /\ \E p \in left[h] : left' = [left EXCEPT ![h] = @ \ {p}]
    /\ \/ UNCHANGED <<at, copy>>
       \/ Goto(h, "copying") /\ copy' = [copy EXCEPT ![h] = "running"]
    /\ UNCHANGED <<manager, on, stray, mine, listed, gone, world>>

\* The copying goroutine ends.  When it was cut short it sends its error on errCh
\* before it closes doneCh.
CopyEnds(h) ==
    /\ copy[h] = "running"
    /\ \E content \in {"whole", "cut"} : copy' = [copy EXCEPT ![h] = content]
    /\ UNCHANGED <<manager, at, on, stray, mine, left, listed, gone, world>>

\* The select: the timeout may come at any time, and of an error and the close of
\* doneCh that are both there either may be seen.
Select(h) ==
    /\ at[h] = "copying"
    /\ \/ Goto(h, "choosing") /\ copy' = [copy EXCEPT ![h] = "none"]
       \/ copy[h] \in {"whole", "cut"} /\ Goto(h, "writing") /\ UNCHANGED copy
    /\ UNCHANGED <<manager, on, stray, mine, left, listed, gone, world>>

\* The merkle of the temporary file is the one of the stray.
Matches(content) == content = "whole"

\* Variant of WriteFile: its error is dropped.
WriteOrGoOn(h) ==
    /\ at[h] = "writing"
    /\ copy' = [copy EXCEPT ![h] = "none"]
    /\ Goto(h, "loading")
    /\ IF Matches(copy[h])
       THEN stored' = [stored EXCEPT ![mine[h]] = copy[h]]
       ELSE UNCHANGED stored
    /\ UNCHANGED <<manager, on, stray, mine, left, listed, gone, line, taken>>

\* WriteFile, which compares the merkle, may fail otherwise as well, and returns
\* the size.  Where that is not the size on the chain the next provider is asked,
\* although the file is on disk by now.
WriteFile(h) ==
    /\ at[h] = "writing"
    /\ copy' = [copy EXCEPT ![h] = "none"]
    /\ \/ /\ Goto(h, "choosing")
          /\ UNCHANGED stored
       \/ /\ Matches(copy[h])
          /\ stored' = [stored EXCEPT ![mine[h]] = copy[h]]
          /\ Goto(h, "choosing") \/ Goto(h, "loading")
    /\ UNCHANGED <<manager, on, stray, mine, left, listed, gone, line, taken>>

\* Variant of LoadFile: the hand keeps its stray when the file cannot be read.
LoadOrRetry(h) ==
    /\ at[h] = "loading"
    /\ Goto(h, "looking") \/ Goto(h, "posting")
    /\ UNCHANGED <<manager, on, stray, mine, left, copy, listed, gone, world>>

\* GetFileTreeByChunk and GenerateMerkleProof.
LoadFile(h) ==
    /\ at[h] = "loading"
    /\ \/ Finish(h)
       \/ /\ stored[mine[h]] # "none"
          /\ Goto(h, "posting")
          /\ UNCHANGED <<manager, on, stray, mine, left, copy, listed, gone>>
    /\ UNCHANGED world

Queued(f) == \E i \in (taken + 1)..Len(line) :
                 line[i].kind = "proof" /\ mine[line[i].hand] = f

\* q.Add: the proof joins the queue, or is turned away because one of the same file
\* is there, of another hand or of the prover; then nothing is waited for.
Post(h) ==
    /\ at[h] = "posting"
    /\ \/ Finish(h) /\ UNCHANGED line
       \/ /\ ~Queued(mine[h])
          /\ line' = Append(line, Message("proof", h))
          /\ Goto(h, "waiting")
          /\ UNCHANGED <<manager, on, stray, mine, left, copy, listed, gone>>
    /\ UNCHANGED <<stored, taken>>

\* wg.Wait() returns; what the answer says is not looked at.
ProofAnswered(h) ==
    /\ at[h] = "waiting"
    /\ \A i \in DOMAIN line : line[i] # Message("proof", h)
    /\ Finish(h)
    /\ UNCHANGED world

Hand(h) ==
    \/ StartHand(h) \/ Loop(h) \/ Look(h) \/ CheckTree(h) \/ FindFile(h) \/ NotFound(h)
    \/ Request(h) \/ Select(h) \/ WriteFile(h) \/ LoadFile(h) \/ Post(h) \/ ProofAnswered(h)

Manager ==
    \/ Skip \/ Claim \/ Grant \/ ClaimAnswered \/ Start
    \/ Turn \/ Offer \/ Visit \/ Take \/ EndManager

-----------------------------------------------------------------------------
(* The queue, and the prover that deletes files whose contract has ended.  *)

TakeBatch ==
    /\ taken = 0
    /\ taken' \in 1..Len(line)
    /\ UNCHANGED <<manager, hands, stored, line>>

\* Variant of Answer: taken is not counted down.
AnswerUncounted ==
    /\ taken > 0
    /\ line' = Tail(line)
    /\ UNCHANGED <<manager, hands, stored, taken>>

Answer ==
    /\ taken > 0
    /\ line' = Tail(line)
    /\ taken' = taken - 1
    /\ UNCHANGED <<manager, hands, stored>>

DeleteFile(f) ==
    /\ stored[f] # "none"
    /\ stored' = [stored EXCEPT ![f] = "none"]
    /\ gone' = gone \cup {h \in Hands : mine[h] = f}
    /\ UNCHANGED <<manager, at, on, stray, mine, left, copy, listed, line, taken>>

Next ==
    \/ Manager \/ Stop \/ TakeBatch \/ Answer
    \/ \E page \in Pages : RefreshList(page)
    \/ \E h \in Hands : Hand(h) \/ CopyEnds(h)
    \/ \E f \in Files : DeleteFile(f)

Spec == Init /\ [][Next]_vars

\* Goroutines run, timeouts end, and the queue answers (Queue!EveryWaiterReturns).
Fairness ==
    /\ WF_vars(Manager)
    /\ WF_vars(TakeBatch)
    /\ WF_vars(Answer)
    /\ \A h \in Hands : WF_vars(Hand(h))

FairSpec == Spec /\ Fairness

-----------------------------------------------------------------------------
(* Properties                                                              *)

TypeOK ==
    /\ mgr \in Mgrs
    /\ next \in 1..(HandCount + 1)
    /\ running \in BOOLEAN
    /\ list \in Seq(Files)
    /\ at \in [Hands -> Ats]
    /\ on \in [Hands -> BOOLEAN]
    /\ stray \in [Hands -> Files \cup {NoFile}]
    /\ mine \in [Hands -> Files \cup {NoFile}]
    /\ left \in [Hands -> SUBSET Providers]
    /\ copy \in [Hands -> Copies]
    /\ listed \in [Hands -> BOOLEAN]
    /\ gone \subseteq Hands
    /\ stored \in [Files -> Contents]
    /\ line \in Seq(Messages)
    /\ taken \in Nat
    /\ taken <= Len(line)

\* Two hands hold the same stray only when the list was renewed in between
\* (manager.go:128-150, 198).
SharedOnlyByRefresh ==
    \A g, h \in Hands :
        g # h /\ stray[g] = stray[h] /\ stray[g] # NoFile => listed[g] \/ listed[h]

\* The stray of a hand changes only when the hand is done with it: the manager never
\* overwrites one, and no hand drops one that it has not looked at (manager.go:129-133,
\* hands.go:34-99).
StrayIsKept ==
    [][\A h \in Hands : stray[h] # NoFile /\ stray'[h] # stray[h] =>
          mine[h] = stray[h] /\ stray'[h] = NoFile]_vars

\* A hand goes on to the proof, and waits for its answer, only when the whole file
\* has come to the disk, by its own download or otherwise, unless the prover has
\* deleted it since: however the timeout, the error and the end of the copy raced, and
\* whatever the last provider sent (hands.go:47-79, downloads.go:91-128, 256-282).
ProvesWhatIsStored ==
    \A h \in Hands : at[h] \in {"loading", "posting", "waiting"} =>
        stored[mine[h]] = "whole" \/ h \in gone

\* A hand with a stray is free again some day, unless Stop is called
\* (hands.go:97-99).
HandReturns ==
    \A h \in Hands : stray[h] # NoFile ~> stray[h] = NoFile \/ ~running

-----------------------------------------------------------------------------
(* What the proofs of these properties rest on.                            *)

Working == {"checking", "finding", "choosing", "copying", "writing", "loading",
            "posting", "waiting"}

\* While a hand works, its copy of the stray is the stray itself; while the manager
\* is about to give a hand a stray, the hand has none.
HandInv ==
    /\ \A h \in Hands : at[h] \in Working => mine[h] = stray[h] /\ stray[h] # NoFile
    /\ mgr = "taking" => next \in Hands /\ stray[next] = NoFile

\* A page lists a file once, and a file that a hand holds is not in the list
\* unless the list is newer.
ListInv ==
    /\ list \in Seq(Files)
    /\ \A i, j \in DOMAIN list : list[i] = list[j] => i = j
    /\ \A h \in Hands : \A i \in DOMAIN list : stray[h] = list[i] => listed[h]

\* A download that was cut short is never on disk.
OnlyWholeStored == \A f \in Files : stored[f] # "cut"

\* The shape of what the two read.
Shape ==
    /\ mgr \in Mgrs
    /\ next \in Nat
    /\ at \in [Hands -> Ats]
    /\ stray \in [Hands -> Files \cup {NoFile}]
    /\ mine \in [Hands -> Files \cup {NoFile}]
    /\ listed \in [Hands -> BOOLEAN]
    /\ stored \in [Files -> Contents]

DiskInv == OnlyWholeStored /\ ProvesWhatIsStored

Inv == Shape /\ HandInv /\ ListInv /\ SharedOnlyByRefresh /\ DiskInv
=============================================================================
