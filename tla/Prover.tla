------------------------------- MODULE Prover -------------------------------
(***************************************************************************)
(* The prover of a provider (src/proofs).  Again and again it walks        *)
(* through the files on disk and starts a goroutine for each, which asks   *)
(* the chain about the file, makes a proof from the disk, adds it to the   *)
(* queue and waits for the answer.  It deletes files that the chain does   *)
(* not know any more.  At most `threads' of these goroutines make proofs   *)
(* at a time: the loop counts one up as it starts it, and PostProof counts *)
(* it down.  Upload handlers (src/api/file_handler.go) call PostProof      *)
(* themselves, after they have written the file.                           *)
(*                                                                         *)
(* The disk is the contracts with a tree key and the merkles with a cid    *)
(* key; contracts of one merkle share the cid key.  The queue is the line  *)
(* of Mailbox, and the chain is what this code asks of it.                 *)
(***************************************************************************)
EXTENDS Integers, Sequences, FiniteSets

CONSTANTS
    Files,       \* the storage contracts: (merkle, owner, start)
    Merkles,
    MerkleOf,    \* the merkle of a contract
    NoFile,
    Workers,     \* goroutines that run PostProof, a bound on how many there are
    Threads,     \* proof_threads
    Half,        \* threads and currentThreads are from -Half to Half - 1 (int16: 2^15)
    MaxUploads,  \* a bound on the uploads that end in PostProof
    Exact,       \* TRUE: ++ and -- of currentThreads are atomic; FALSE: they are
                 \* a read and a write, as in the code
    CidFails,    \* whether the Set of a cid key, whose error
                 \* WriteFileWithProgress drops, may fail
    CanStop      \* whether Stop is called

ASSUME ProverAssumption ==
    /\ IsFiniteSet(Files) /\ IsFiniteSet(Workers)
    /\ MerkleOf \in [Files -> Merkles]
    /\ Half \in Nat \ {0}
    /\ Threads \in 1..(Half - 1)
    /\ MaxUploads \in Nat
    /\ Exact \in BOOLEAN
    /\ CidFails \in BOOLEAN
    /\ CanStop \in BOOLEAN

VARIABLES
    \* the loop of Start
    running,
    loop,        \* where it is
    todo,        \* the files that ProcessFiles has yet to visit
    count,       \* the files it has visited
    lastCount,
    late,        \* whether the last cycle ended over 30 minutes ago
    \* the counter
    current,     \* currentThreads
    seen,        \* the value that a ++ or -- has read
    torn,        \* history: a ++ or -- has written over another one
    \* the goroutines
    at, file,
    kind,        \* "cycle": started by the loop; "upload": by a handler
    found,       \* what GenerateProof returns
    fresh,       \* the proof is for the challenge that the chain poses now
    posted,      \* history: uploads that have counted themselves down
    \* disk, queue and chain
    disk,        \* files with a tree key
    cids,        \* merkles with a cid key
    lost,        \* history: files that have been on disk without a cid key
    line,        \* goroutines whose proofs wait for the queue's answer
    taken,       \* how many in front of line the queue has taken as a batch
    contracts,   \* files that the chain knows
    proven       \* files that are proven in the present window

loopVars == <<running, loop, todo, count, lastCount, late>>
worker   == <<at, file, kind, found, fresh>>
keys     == <<disk, cids, lost>>
world    == <<keys, line, taken, contracts, proven>>
vars == <<loopVars, current, seen, torn, worker, posted, world>>

Ats == {"free", "starting", "writing", "asking", "loading", "leaving", "left", "posting",
        "waiting", "deleting", "clearing"}
Founds == {"nothing", "proof", "noFile", "noKey"}
Kinds == {"cycle", "upload"}

\* The value that such an integer has after counting to n.
Wrap(n) == ((n + Half) % (2 * Half)) - Half

Init ==
    /\ running = TRUE
    /\ loop = "idle"
    /\ todo = {}
    /\ count = 0
    /\ lastCount = 0
    /\ late = TRUE
    /\ current = 0
    /\ seen = [w \in Workers |-> 0]
    /\ torn = FALSE
    /\ at = [w \in Workers |-> "free"]
    /\ file = [w \in Workers |-> NoFile]
    /\ kind = [w \in Workers |-> "cycle"]
    /\ found = [w \in Workers |-> "nothing"]
    /\ fresh = [w \in Workers |-> FALSE]
    /\ posted = 0
    /\ disk \in SUBSET Files
    /\ cids \in SUBSET Merkles
    /\ lost = {f \in disk : MerkleOf[f] \notin cids}
    /\ line = <<>>
    /\ taken = 0
    /\ contracts = Files
    /\ proven = {}

\* A ++ or -- may begin.
MayCount == Exact => \A w \in Workers : at[w] \notin {"starting", "left"}

\* A ++ or -- of w is written: it counts on from what w has read, and so takes
\* back what others have written since.
CountOn(w, n) ==
    /\ current' = Wrap(seen[w] + n)
    /\ seen' = [seen EXCEPT ![w] = 0]
    /\ torn' = (torn \/ seen[w] # current)

\* The keys of the database are set or deleted.
SetKeys(files, merkles) ==
    /\ disk' = files
    /\ cids' = merkles
    /\ lost' = lost \cup {f \in files : MerkleOf[f] \notin merkles}

Goto(w, place) == at' = [at EXCEPT ![w] = place]

\* A goroutine goes on after GenerateProof or, when place is "free", ends; what it
\* does not need any more is forgotten.
GoOrEnd(w, place) ==
    /\ Goto(w, place)
    /\ kind' = [kind EXCEPT ![w] = "cycle"]
    /\ found' = [found EXCEPT ![w] = "nothing"]
    /\ IF place = "free" THEN file' = [file EXCEPT ![w] = NoFile] ELSE UNCHANGED file
    /\ IF place \in {"posting", "waiting"}
       THEN UNCHANGED fresh
       ELSE fresh' = [fresh EXCEPT ![w] = FALSE]

-----------------------------------------------------------------------------
(* Start                                                                   *)

\* The queue does not hold more than the last cycle made, or half an hour has
\* passed since; the node answers, and its mempool is not too large.
BeginCycle ==
    /\ loop = "idle"
    /\ running
    /\ late \/ lastCount = 0 \/ Len(line) - taken <= lastCount
    /\ loop' = "visiting"
    /\ todo' = disk
    /\ UNCHANGED <<running, count, lastCount, late, current, seen, torn, worker, posted, world>>

\* The next file, when not Full(), and its goroutine: p.Inc() reads the counter ...
IncRead(w, f) ==
    /\ loop = "visiting"
    /\ f \in todo
    /\ current < Threads
    /\ MayCount
    /\ at[w] = "free"
    /\ loop' = "launching"
    /\ todo' = todo \ {f}
    /\ count' = count + 1
    /\ seen' = [seen EXCEPT ![w] = current]
    /\ Goto(w, "starting")
    /\ file' = [file EXCEPT ![w] = f]
    /\ UNCHANGED <<running, lastCount, late, current, torn, kind, found, fresh, posted, world>>

\* Variant of IncWrite: the goroutine is not counted.
StartUncounted(w) ==
    /\ at[w] = "starting"
    /\ loop' = "visiting"
    /\ seen' = [seen EXCEPT ![w] = 0]
    /\ Goto(w, "asking")
    /\ UNCHANGED <<running, todo, count, lastCount, late, current, torn, file, kind, found,
                   fresh, posted, world>>

\* ... and writes it, and the goroutine is started.
IncWrite(w) ==
    /\ at[w] = "starting"
    /\ loop' = "visiting"
    /\ CountOn(w, 1)
    /\ Goto(w, "asking")
    /\ UNCHANGED <<running, todo, count, lastCount, late, file, kind, found, fresh,
                   posted, world>>

\* Variant of EndCycle: the count goes on in the next cycle.
EndCycleKeepsCount ==
    /\ loop = "visiting"
    /\ todo = {}
    /\ loop' = "idle"
    /\ lastCount' = count
    /\ late' = FALSE
    /\ UNCHANGED <<running, todo, count, current, seen, torn, worker, posted, world>>

EndCycle ==
    /\ loop = "visiting"
    /\ todo = {}
    /\ loop' = "idle"
    /\ lastCount' = count
    /\ count' = 0
    /\ late' = FALSE
    /\ UNCHANGED <<running, todo, current, seen, torn, worker, posted, world>>

Stop ==
    /\ CanStop
    /\ running
    /\ running' = FALSE
    /\ UNCHANGED <<loop, todo, count, lastCount, late, current, seen, torn, worker, posted, world>>

EndLoop ==
    /\ loop = "idle"
    /\ ~running
    /\ loop' = "stopped"
    /\ UNCHANGED <<running, todo, count, lastCount, late, current, seen, torn, worker, posted, world>>

-----------------------------------------------------------------------------
(* PostProof                                                               *)

\* GenerateProof ends; p.Dec() is next.
Leave(w, result) == Goto(w, "leaving") /\ found' = [found EXCEPT ![w] = result]

\* The file is asked for, and the challenge.  No proof is made when the node does
\* not answer, the file has room for no other prover, or it is proven already.
\* When only the second query fails, its error is dropped and chunk 0 is proven,
\* whatever the challenge is.
AskChain(w) ==
    /\ at[w] = "asking"
    /\ \/ /\ file[w] \notin contracts
          /\ Leave(w, "noFile")
          /\ UNCHANGED fresh
       \/ /\ Leave(w, "nothing")
          /\ UNCHANGED fresh
       \/ /\ file[w] \in contracts \ proven
          /\ Goto(w, "loading")
          /\ fresh' = [fresh EXCEPT ![w] = TRUE]
          /\ UNCHANGED found
       \/ /\ file[w] \in contracts
          /\ Goto(w, "loading")
          /\ UNCHANGED <<found, fresh>>
    /\ UNCHANGED <<loopVars, current, seen, torn, file, kind, posted, world>>

\* GenProof reads the tree, the cid and the chunk.  Without a tree key or a cid key
\* there is badger.ErrKeyNotFound; other errors end in nothing.
LoadProof(w) ==
    /\ at[w] = "loading"
    /\ LET bothKeys == file[w] \in disk /\ MerkleOf[file[w]] \in cids IN
          \/ bothKeys /\ Leave(w, "proof") /\ UNCHANGED fresh
          \/ ~bothKeys /\ Leave(w, "noKey") /\ fresh' = [fresh EXCEPT ![w] = FALSE]
          \/ Leave(w, "nothing") /\ fresh' = [fresh EXCEPT ![w] = FALSE]
    /\ UNCHANGED <<loopVars, current, seen, torn, file, kind, posted, world>>

\* p.Dec() reads the counter ...
DecRead(w) ==
    /\ at[w] = "leaving"
    /\ MayCount
    /\ Goto(w, "left")
    /\ seen' = [seen EXCEPT ![w] = current]
    /\ UNCHANGED <<loopVars, current, torn, file, kind, found, fresh, posted, world>>

\* Variant of After: a proof that could not be made costs the file.
AfterAnyFailure(w) ==
    CASE found[w] = "proof" -> "posting"
      [] kind[w] = "cycle" -> "deleting"
      [] OTHER -> "free"

\* Variant of After: nothing is deleted.
AfterWithoutDelete(w) == IF found[w] = "proof" THEN "posting" ELSE "free"

\* Where PostProof or wrapPostProof goes on.  wrapPostProof, in the loop's
\* goroutines only, deletes a file that the chain does not know.
After(w) ==
    CASE found[w] = "proof" -> "posting"
      [] found[w] = "noKey" -> "deleting"
      [] found[w] = "noFile" /\ kind[w] = "cycle" -> "deleting"
      [] OTHER -> "free"

\* Variant of DecWrite: only a goroutine that made a proof counts itself down.
DecOnProofOnly(w) ==
    /\ at[w] = "left"
    /\ CountOn(w, IF found[w] = "proof" THEN -1 ELSE 0)
    /\ posted' = IF kind[w] = "upload" THEN posted + 1 ELSE posted
    /\ GoOrEnd(w, After(w))
    /\ UNCHANGED <<loopVars, world>>

\* ... and writes it, and the result is looked at.
DecWrite(w) ==
    /\ at[w] = "left"
    /\ CountOn(w, -1)
    /\ posted' = IF kind[w] = "upload" THEN posted + 1 ELSE posted
    /\ GoOrEnd(w, After(w))
    /\ UNCHANGED <<loopVars, world>>

\* q.Add: the proof joins the queue, or is turned away when one of the same file
\* is there already.  A batch that was taken is not looked at.
AddToQueue(w) ==
    /\ at[w] = "posting"
    /\ IF \E i \in (taken + 1)..Len(line) : file[line[i]] = file[w]
       THEN GoOrEnd(w, "free") /\ UNCHANGED line
       ELSE GoOrEnd(w, "waiting") /\ line' = Append(line, w)
    /\ UNCHANGED <<loopVars, current, seen, torn, posted, keys, taken, contracts, proven>>

\* p.io.DeleteFile: first the tree key ...
DeleteFile(w) ==
    /\ at[w] = "deleting"
    /\ SetKeys(disk \ {file[w]}, cids)
    /\ Goto(w, "clearing")
    /\ UNCHANGED <<loopVars, current, seen, torn, file, kind, found, fresh, posted,
                   line, taken, contracts, proven>>

\* ... then the cid key: the search for other contracts of the merkle finds none
\* (FileStore, KeptWhileShared).
DeleteCid(w) ==
    /\ at[w] = "clearing"
    /\ SetKeys(disk, cids \ {MerkleOf[file[w]]})
    /\ GoOrEnd(w, "free")
    /\ UNCHANGED <<loopVars, current, seen, torn, posted, line, taken, contracts, proven>>

Worker(w) ==
    \/ AskChain(w) \/ LoadProof(w) \/ DecRead(w) \/ DecWrite(w)
    \/ AddToQueue(w) \/ DeleteFile(w) \/ DeleteCid(w)

-----------------------------------------------------------------------------
(* Queue, chain, and who else writes files                                 *)

\* The queue takes a batch; how much fits is left open.
TakeBatch ==
    /\ taken = 0
    /\ taken' \in 1..Len(line)
    /\ UNCHANGED <<loopVars, current, seen, torn, worker, posted, keys, line, contracts, proven>>

\* The queue answers the proof in front, whatever the chain made of it.
Answer(w) ==
    /\ taken > 0
    /\ w = Head(line)
    /\ line' = Tail(line)
    /\ taken' = taken - 1
    /\ GoOrEnd(w, "free")
    /\ UNCHANGED <<loopVars, current, seen, torn, posted, keys, contracts>>

\* The chain takes a proof that meets the challenge.
Accept(w) ==
    /\ Answer(w)
    /\ fresh[w]
    /\ file[w] \in contracts
    /\ proven' = proven \cup {file[w]}

Refuse(w) == Answer(w) /\ UNCHANGED proven

\* A new window begins: all is to be proven again, with new challenges.
NewWindow ==
    /\ proven # {} \/ \E w \in Workers : fresh[w]
    /\ proven' = {}
    /\ fresh' = [w \in Workers |-> FALSE]
    /\ UNCHANGED <<loopVars, current, seen, torn, at, file, kind, found, posted,
                   keys, line, taken, contracts>>

\* A contract ends, for good.
Expire(f) ==
    /\ f \in contracts
    /\ contracts' = contracts \ {f}
    /\ proven' = proven \ {f}
    /\ UNCHANGED <<loopVars, current, seen, torn, worker, posted, keys, line, taken>>

HalfHour ==
    /\ ~late
    /\ late' = TRUE
    /\ UNCHANGED <<running, loop, todo, count, lastCount, current, seen, torn, worker, posted, world>>

\* A stray hand writes a file of its list, which may have ended since.
HandWrites(f) ==
    /\ f \notin disk
    /\ SetKeys(disk \cup {f}, cids \cup {MerkleOf[f]})
    /\ UNCHANGED <<loopVars, current, seen, torn, worker, posted, line, taken, contracts, proven>>

Uploading == {w \in Workers : kind[w] = "upload" /\ at[w] \in
                 {"writing", "asking", "loading", "leaving", "left"}}

\* A handler finds the file on the chain ...
StartUpload(w, f) ==
    /\ at[w] = "free"
    /\ f \in contracts
    /\ posted + Cardinality(Uploading) < MaxUploads
    /\ Goto(w, "writing")
    /\ file' = [file EXCEPT ![w] = f]
    /\ kind' = [kind EXCEPT ![w] = "upload"]
    /\ UNCHANGED <<loopVars, current, seen, torn, found, fresh, posted, world>>

\* ... writes it, and calls PostProof, which is not counted up.  The error of the
\* second Set may be dropped.
WriteUpload(w) ==
    /\ at[w] = "writing"
    /\ \/ SetKeys(disk \cup {file[w]}, cids \cup {MerkleOf[file[w]]})
       \/ CidFails /\ SetKeys(disk \cup {file[w]}, cids)
    /\ Goto(w, "asking")
    /\ UNCHANGED <<loopVars, current, seen, torn, file, kind, found, fresh, posted,
                   line, taken, contracts, proven>>

Next ==
    \/ BeginCycle \/ EndCycle \/ Stop \/ EndLoop
    \/ \E w \in Workers, f \in Files : IncRead(w, f) \/ StartUpload(w, f)
    \/ \E w \in Workers : IncWrite(w) \/ Worker(w) \/ Accept(w) \/ Refuse(w) \/ WriteUpload(w)
    \/ \E f \in Files : Expire(f) \/ HandWrites(f)
    \/ TakeBatch \/ NewWindow \/ HalfHour

Spec == Init /\ [][Next]_vars

\* Goroutines run, the queue answers (Queue!EveryWaiterReturns), half an hour
\* passes; the node answers again and again (BeginCycle), also about a file that
\* it does not know (AskChain); counting is not put off for ever.
Fairness ==
    /\ SF_vars(BeginCycle)
    /\ SF_vars(\E w \in Workers, f \in Files : IncRead(w, f))
    /\ WF_vars(EndCycle \/ EndLoop \/ \E w \in Workers : IncWrite(w))
    /\ WF_vars(TakeBatch \/ \E w \in Workers : Accept(w) \/ Refuse(w))
    /\ WF_vars(HalfHour)
    /\ \A f \in Files :
          SF_vars(\E w \in Workers : file[w] = f /\ AskChain(w) /\ found'[w] = "noFile")
    /\ \A w \in Workers :
          /\ WF_vars(\/ AskChain(w) \/ LoadProof(w) \/ DecWrite(w)
                    \/ AddToQueue(w) \/ DeleteFile(w) \/ DeleteCid(w) \/ WriteUpload(w))
          /\ SF_vars(DecRead(w))

FairSpec == Spec /\ Fairness

-----------------------------------------------------------------------------
(* Properties                                                              *)

\* Goroutines of the loop that are counted up and not yet down.
Counted == {w \in Workers : kind[w] = "cycle" /\ at[w] \in
               {"asking", "loading", "leaving", "left"}}

TypeOK ==
    /\ running \in BOOLEAN
    /\ loop \in {"idle", "visiting", "launching", "stopped"}
    /\ todo \subseteq Files
    /\ count \in 0..Cardinality(Files)
    /\ lastCount \in 0..Cardinality(Files)
    /\ late \in BOOLEAN
    /\ current \in -Half..(Half - 1)
    /\ seen \in [Workers -> -Half..(Half - 1)]
    /\ torn \in BOOLEAN
    /\ at \in [Workers -> Ats]
    /\ file \in [Workers -> Files \cup {NoFile}]
    /\ kind \in [Workers -> Kinds]
    /\ found \in [Workers -> Founds]
    /\ fresh \in [Workers -> BOOLEAN]
    /\ posted \in 0..MaxUploads
    /\ disk \subseteq Files
    /\ cids \subseteq Merkles
    /\ lost \subseteq Files
    /\ line \in Seq(Workers)
    /\ taken \in 0..Len(line)
    /\ contracts \subseteq Files
    /\ proven \subseteq Files

\* No more goroutines make proofs at a time than proof_threads, as long as
\* no upload has called PostProof ("maximum threads for proofs", cmd/root.go:167).
AtMostThreads == Cardinality(Counted) <= Threads

\* Until two ++ or -- have overlapped, currentThreads is the number of the loop's
\* goroutines that make proofs, less the uploads so far: each counts itself down and
\* nothing counts it up (proofs.go:176, 357, file_handler.go:132, 238, types.go:32).
CountedExactly == torn \/ current = Wrap(Cardinality(Counted) - posted)

\* A file that the chain knows is deleted only after it has been on disk without a
\* cid key, whoever removes, uploads or downloads it between the listing, the query,
\* the reading and the delete (proofs.go:186-192, 394-401).
OnlyDeadOrLostDeleted == [][(disk \ disk') \cap contracts \subseteq lost]_vars

\* A file whose contract has ended leaves the disk, unless Stop is called or two
\* ++ or -- have overlapped, which may use up the threads (proofs.go:394-401).
DeadDeleted ==
    \A f \in Files : f \in disk \ contracts ~> f \notin disk \/ ~running \/ torn

\* A proof cycle ends: the wait for a free thread is not for ever, unless such an
\* overlap has used it up (proofs.go:350-354).
CycleEnds == loop = "visiting" ~> loop \in {"idle", "stopped"} \/ torn
-----------------------------------------------------------------------------
(* What the proof of OnlyDeadOrLostDeleted rests on.                       *)

Shape ==
    /\ at \in [Workers -> Ats]
    /\ file \in [Workers -> Files \cup {NoFile}]
    /\ kind \in [Workers -> Kinds]
    /\ found \in [Workers -> Founds]

\* A file on disk that was never without a cid key has one now.
KeyInv == \A f \in disk : MerkleOf[f] \in cids \/ f \in lost

OnDiskOrDead(f) == f \in contracts => f \in disk \cup lost

\* A listed file that the chain still knows is still on disk, if it never was without
\* a cid key, and so is the file of a goroutine, once an upload has written it.
ListedInv ==
    /\ \A f \in todo : OnDiskOrDead(f)
    /\ \A w \in Workers : at[w] \notin {"free", "writing"} => OnDiskOrDead(file[w])

\* A goroutine that will delete its file knows that the chain does not know it, or
\* has met it without its keys.
DeathInv ==
    \A w \in Workers :
        \/ at[w] = "deleting"
        \/ at[w] \in {"leaving", "left"} /\ found[w] \in {"noFile", "noKey"}
        => file[w] \notin contracts \/ file[w] \in lost

Inv == Shape /\ KeyInv /\ ListedInv /\ DeathInv
=============================================================================
