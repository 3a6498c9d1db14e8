---------------------------- MODULE ProverProofs ----------------------------
(***************************************************************************)
(* Theorems about Prover.  However many goroutines, uploads, files and     *)
(* merkles there are, and also where ++ and -- of the counter overlap, it   *)
(* deletes a file that the chain knows only after that file has been on    *)
(* disk without a cid key: the only deletes are those of the prover, so a  *)
(* file that was listed, is known to the chain and was never without its   *)
(* keys is still on disk, with them, when its goroutine reads the tree.    *)
(* And until two ++ or -- overlap, the counter of threads, as an integer   *)
(* that wraps, is the number of the loop's goroutines that make proofs     *)
(* less the uploads that ended, so that the goroutines exceed the limit by *)
(* no more than these.                                                     *)
(***************************************************************************)
EXTENDS Prover, FiniteSetTheorems, TLAPS

LEMMA InitInv == Init => Inv
BY DEF Init, Inv, Shape, KeyInv, ListedInv, DeathInv, OnDiskOrDead, Ats, Founds, Kinds

\* A step that leaves the keys alone keeps what is known of them.
LEMMA SameKeys == ASSUME Inv, UNCHANGED keys PROVE KeyInv' /\ disk' = disk /\ lost' = lost
BY DEF Inv, KeyInv, keys

\* A step of the loop keeps what is known of its list.
LEMMA LoopStep ==
    ASSUME Inv, BeginCycle \/ EndCycle \/ Stop \/ EndLoop \/ HalfHour
    PROVE  Inv'
<1>1. UNCHANGED <<worker, world>> /\ todo' \subseteq todo \cup disk
  BY DEF BeginCycle, EndCycle, Stop, EndLoop, HalfHour, loopVars
<1>2. Shape' /\ DeathInv' /\ KeyInv'
  BY <1>1, SameKeys DEF Inv, Shape, DeathInv, worker, world, keys
<1>3. ListedInv'
  BY <1>1 DEF Inv, ListedInv, OnDiskOrDead, worker, world, keys
<1> QED  BY <1>2, <1>3 DEF Inv

\* A goroutine starts, for a listed file or for an upload.
LEMMA LaunchStep ==
    ASSUME Inv, NEW w \in Workers, NEW f \in Files, IncRead(w, f) \/ StartUpload(w, f)
    PROVE  Inv'
<1>1. Shape'
  BY DEF Inv, Shape, IncRead, StartUpload, Goto, Ats, Kinds
<1>2. KeyInv'
  BY SameKeys DEF IncRead, StartUpload, world
<1>3. ListedInv'
  BY DEF Inv, Shape, ListedInv, OnDiskOrDead, IncRead, StartUpload, Goto, world, keys, loopVars
<1>4. DeathInv'
  BY DEF Inv, Shape, DeathInv, IncRead, StartUpload, Goto, world, keys
<1> QED  BY <1>1, <1>2, <1>3, <1>4 DEF Inv

\* A step of PostProof that leaves the keys alone.
LEMMA WorkerStep ==
    ASSUME Inv, NEW w \in Workers,
           \/ IncWrite(w) \/ AskChain(w) \/ LoadProof(w) \/ DecRead(w) \/ DecWrite(w)
           \/ AddToQueue(w)
    PROVE  Inv'
<1> USE DEF Inv
<1>0. KeyInv'
  BY SameKeys DEF IncWrite, AskChain, LoadProof, DecRead, DecWrite, AddToQueue, world
<1>1. CASE AskChain(w)
  <2>1. Shape'
    BY <1>1 DEF Shape, AskChain, Leave, Goto, Ats, Founds
  <2>2. ListedInv'
    BY <1>1 DEF Shape, ListedInv, OnDiskOrDead, AskChain, Leave, Goto, world, keys, loopVars
  <2>3. DeathInv'
    BY <1>1 DEF Shape, DeathInv, AskChain, Leave, Goto, world, keys
  <2> QED  BY <1>0, <2>1, <2>2, <2>3
<1>2. CASE LoadProof(w)
  <2>1. Shape'
    BY <1>2 DEF Shape, LoadProof, Leave, Goto, Ats, Founds
  <2>2. ListedInv'
    BY <1>2 DEF Shape, ListedInv, OnDiskOrDead, LoadProof, Leave, Goto, world, keys, loopVars
  <2>3. ~(file[w] \in disk /\ MerkleOf[file[w]] \in cids)
           => file[w] \notin contracts \/ file[w] \in lost
    BY <1>2 DEF LoadProof, KeyInv, ListedInv, OnDiskOrDead
  <2>4. DeathInv'
    BY <1>2, <2>3 DEF Shape, DeathInv, LoadProof, Leave, Goto, world, keys
  <2> QED  BY <1>0, <2>1, <2>2, <2>4
<1>3. CASE DecRead(w)
  <2>1. Shape'
    BY <1>3 DEF Shape, DecRead, Goto, Ats
  <2>2. ListedInv'
    BY <1>3 DEF Shape, ListedInv, OnDiskOrDead, DecRead, Goto, world, keys, loopVars
  <2>3. DeathInv'
    BY <1>3 DEF Shape, DeathInv, DecRead, Goto, world, keys
  <2> QED  BY <1>0, <2>1, <2>2, <2>3
<1>4. CASE DecWrite(w)
  <2>1. After(w) \in {"posting", "deleting", "free"}
    BY DEF After
  <2>2. After(w) = "deleting" => found[w] \in {"noKey", "noFile"}
    BY DEF After
  <2>3. Shape'
    BY <1>4, <2>1 DEF Shape, DecWrite, GoOrEnd, Goto, Ats, Kinds, Founds
  <2>4. ListedInv'
    BY <1>4, <2>1 DEF Shape, ListedInv, OnDiskOrDead, DecWrite, GoOrEnd, Goto, world, keys, loopVars
  <2>5. DeathInv'
    BY <1>4, <2>1, <2>2 DEF Shape, DeathInv, DecWrite, GoOrEnd, Goto, world, keys
  <2> QED  BY <1>0, <2>3, <2>4, <2>5
<1>5. CASE AddToQueue(w)
  <2>1. Shape'
    BY <1>5 DEF Shape, AddToQueue, GoOrEnd, Goto, Ats, Kinds, Founds
  <2>2. ListedInv'
    BY <1>5 DEF Shape, ListedInv, OnDiskOrDead, AddToQueue, GoOrEnd, Goto, keys, loopVars
  <2>3. DeathInv'
    BY <1>5 DEF Shape, DeathInv, AddToQueue, GoOrEnd, Goto, keys
  <2> QED  BY <1>0, <2>1, <2>2, <2>3
<1>6. CASE IncWrite(w)
  <2>1. Shape'
    BY <1>6 DEF Shape, IncWrite, Goto, Ats
  <2>2. ListedInv'
    BY <1>6 DEF Shape, ListedInv, OnDiskOrDead, IncWrite, Goto, world, keys
  <2>3. DeathInv'
    BY <1>6 DEF Shape, DeathInv, IncWrite, Goto, world, keys
  <2> QED  BY <1>0, <2>1, <2>2, <2>3
<1> QED  BY <1>1, <1>2, <1>3, <1>4, <1>5, <1>6

\* What SetKeys does to the keys of a file: one that has no cid key then is lost.
LEMMA KeysSet ==
    ASSUME NEW D \in SUBSET Files, NEW M, SetKeys(D, M)
    PROVE  KeyInv' /\ disk' = D /\ lost \subseteq lost'
BY DEF SetKeys, KeyInv

\* A delete takes away a file that is dead or was lost, and its cid key, which
\* leaves others of its merkle lost.
LEMMA DeleteStep ==
    ASSUME Inv, NEW w \in Workers, DeleteFile(w) \/ DeleteCid(w), disk \subseteq Files
    PROVE  Inv' /\ (disk \ disk') \cap contracts \subseteq lost
<1> USE DEF Inv
<1>1. CASE DeleteFile(w)
  <2>1. file[w] \notin contracts \/ file[w] \in lost
    BY <1>1 DEF DeleteFile, DeathInv
  <2>2. /\ KeyInv' /\ disk' = disk \ {file[w]} /\ lost \subseteq lost'
        /\ UNCHANGED <<contracts, file, kind, found, todo>> /\ at' = [at EXCEPT ![w] = "clearing"]
    BY <1>1, KeysSet DEF DeleteFile, Goto, loopVars
  <2>3. Shape'
    BY <2>2 DEF Shape, Ats
  <2>4. ListedInv'
    BY <1>1, <2>1, <2>2 DEF Shape, ListedInv, OnDiskOrDead, DeleteFile
  <2>5. DeathInv'
    BY <2>2 DEF Shape, DeathInv
  <2> QED  BY <2>1, <2>2, <2>3, <2>4, <2>5
<1>2. CASE DeleteCid(w)
  <2>1. /\ KeyInv' /\ disk' = disk /\ lost \subseteq lost' /\ UNCHANGED <<contracts, todo>>
    BY <1>2, KeysSet DEF DeleteCid, loopVars
  <2>2. Shape'
    BY <1>2 DEF Shape, DeleteCid, GoOrEnd, Goto, Ats, Kinds, Founds
  <2>3. ListedInv'
    BY <1>2, <2>1 DEF Shape, ListedInv, OnDiskOrDead, DeleteCid, GoOrEnd, Goto
  <2>4. DeathInv'
    BY <1>2, <2>1 DEF Shape, DeathInv, DeleteCid, GoOrEnd, Goto
  <2> QED  BY <2>1, <2>2, <2>3, <2>4
<1> QED  BY <1>1, <1>2

\* The queue answers.
LEMMA AnswerStep ==
    ASSUME Inv, NEW w \in Workers, Accept(w) \/ Refuse(w)
    PROVE  Inv'
<1> USE DEF Inv
<1>0. KeyInv'
  BY SameKeys DEF Accept, Refuse, Answer
<1>1. Shape'
  BY DEF Shape, Accept, Refuse, Answer, GoOrEnd, Goto, Ats, Kinds, Founds
<1>2. ListedInv'
  BY DEF Shape, ListedInv, OnDiskOrDead, Accept, Refuse, Answer, GoOrEnd, Goto, keys, loopVars
<1>3. DeathInv'
  BY DEF Shape, DeathInv, Accept, Refuse, Answer, GoOrEnd, Goto, keys
<1> QED  BY <1>0, <1>1, <1>2, <1>3

\* A handler or a hand writes its file, with its cid key or without.
LEMMA WriteStep ==
    ASSUME Inv, disk \subseteq Files, NEW w \in Workers, WriteUpload(w), file[w] \in Files
    PROVE  Inv' /\ disk \subseteq disk'
<1> USE DEF Inv
<1>1. /\ KeyInv' /\ disk' = disk \cup {file[w]} /\ lost \subseteq lost'
      /\ UNCHANGED <<contracts, file, kind, found, todo>> /\ at' = [at EXCEPT ![w] = "asking"]
  BY KeysSet DEF WriteUpload, Goto, loopVars
<1>2. Shape'
  BY <1>1 DEF Shape, Ats
<1>3. ListedInv' /\ DeathInv'
  BY <1>1 DEF Shape, ListedInv, DeathInv, OnDiskOrDead
<1> QED  BY <1>1, <1>2, <1>3

\* A contract ends, or a hand writes its file.
LEMMA FileStep ==
    ASSUME Inv, disk \subseteq Files, NEW f \in Files, Expire(f) \/ HandWrites(f)
    PROVE  Inv' /\ disk \subseteq disk'
<1> USE DEF Inv
<1>1. KeyInv' /\ disk \subseteq disk' /\ lost \subseteq lost'
  <2>1. CASE Expire(f)
    BY <2>1, SameKeys DEF Expire
  <2>2. CASE HandWrites(f)
    BY <2>2, KeysSet DEF HandWrites
  <2> QED  BY <2>1, <2>2
<1>2. UNCHANGED <<at, file, kind, found, todo>> /\ contracts' \subseteq contracts
  BY DEF Expire, HandWrites, worker, loopVars
<1>3. Shape'
  BY <1>2 DEF Shape
<1>4. ListedInv' /\ DeathInv'
  BY <1>1, <1>2 DEF ListedInv, DeathInv, OnDiskOrDead
<1> QED  BY <1>1, <1>3, <1>4

\* What is on disk, and what a handler is about to write, are files.
FileInv ==
    /\ disk \subseteq Files
    /\ \A w \in Workers : at[w] = "writing" => file[w] \in Files

LEMMA FileInvStep == Shape /\ FileInv /\ [Next]_vars => FileInv'
<1> SUFFICES ASSUME Shape, FileInv, [Next]_vars PROVE FileInv'
  OBVIOUS
<1>1. disk' \subseteq Files
  BY DEF FileInv, Next, Worker, BeginCycle, EndCycle, Stop, EndLoop, HalfHour, IncRead, StartUpload,
     IncWrite, AskChain, LoadProof, DecRead, DecWrite, AddToQueue, DeleteFile, DeleteCid, Accept,
     Refuse, Answer, WriteUpload, Expire, HandWrites, TakeBatch, NewWindow, SetKeys, vars, world,
     keys
<1>2. ASSUME NEW w \in Workers, at'[w] = "writing" PROVE file'[w] \in Files
  <2>1. CASE \/ BeginCycle \/ EndCycle \/ Stop \/ EndLoop \/ HalfHour \/ TakeBatch \/ NewWindow
             \/ (\E f \in Files : Expire(f) \/ HandWrites(f)) \/ UNCHANGED vars
    <3>1. UNCHANGED <<at, file>>
      BY <2>1 DEF BeginCycle, EndCycle, Stop, EndLoop, HalfHour, TakeBatch, NewWindow, Expire,
         HandWrites, vars, worker
    <3> QED  BY <1>2, <3>1 DEF FileInv
  <2>2. ASSUME NEW v \in Workers, NEW f \in Files, IncRead(v, f) \/ StartUpload(v, f)
        PROVE  file'[w] \in Files
    BY <1>2, <2>2 DEF FileInv, Shape, IncRead, StartUpload, Goto
  <2>3. ASSUME NEW v \in Workers,
               IncWrite(v) \/ Worker(v) \/ Accept(v) \/ Refuse(v) \/ WriteUpload(v)
        PROVE  file'[w] \in Files
    <3>1. After(v) # "writing"
      BY DEF After
    <3>2. w # v /\ at'[w] = at[w] /\ file'[w] = file[w]
      <4>1. CASE IncWrite(v) \/ AskChain(v) \/ LoadProof(v) \/ DecRead(v) \/ WriteUpload(v) \/ DeleteFile(v)
        BY <1>2, <4>1 DEF Shape, IncWrite, AskChain, LoadProof, DecRead, WriteUpload, DeleteFile,
           Leave, Goto
      <4>2. CASE DecWrite(v) \/ AddToQueue(v) \/ DeleteCid(v) \/ Accept(v) \/ Refuse(v)
        BY <1>2, <3>1, <4>2 DEF Shape, DecWrite, AddToQueue, DeleteCid, Accept, Refuse, Answer,
           GoOrEnd, Goto
      <4> QED  BY <2>3, <4>1, <4>2 DEF Worker
    <3> QED  BY <1>2, <3>2 DEF FileInv
  <2> QED  BY <2>1, <2>2, <2>3 DEF Next
<1> QED  BY <1>1, <1>2 DEF FileInv

LEMMA NextInv ==
    Inv /\ FileInv /\ [Next]_vars => Inv' /\ [(disk \ disk') \cap contracts \subseteq lost]_vars
<1> SUFFICES ASSUME Inv, FileInv, [Next]_vars
             PROVE  Inv' /\ (disk \ disk') \cap contracts \subseteq lost
  OBVIOUS
<1>0. disk \subseteq Files
  BY DEF FileInv
<1>1. CASE BeginCycle \/ EndCycle \/ Stop \/ EndLoop \/ HalfHour
  <2>1. disk' = disk
    BY <1>1 DEF BeginCycle, EndCycle, Stop, EndLoop, HalfHour, world, keys
  <2> QED  BY <1>1, <2>1, LoopStep
<1>2. ASSUME NEW w \in Workers, NEW f \in Files, IncRead(w, f) \/ StartUpload(w, f)
      PROVE  Inv' /\ disk' = disk
  BY <1>2, LaunchStep DEF IncRead, StartUpload, world, keys
<1>3. ASSUME NEW w \in Workers, IncWrite(w) \/ Worker(w)
      PROVE  Inv' /\ (disk \ disk') \cap contracts \subseteq lost
  <2>1. CASE DeleteFile(w) \/ DeleteCid(w)
    BY <1>0, <2>1, DeleteStep
  <2>2. CASE IncWrite(w) \/ AskChain(w) \/ LoadProof(w) \/ DecRead(w) \/ DecWrite(w) \/ AddToQueue(w)
    <3>1. disk' = disk
      BY <2>2 DEF IncWrite, AskChain, LoadProof, DecRead, DecWrite, AddToQueue, world, keys
    <3> QED  BY <2>2, <3>1, WorkerStep
  <2> QED  BY <1>3, <2>1, <2>2 DEF Worker
<1>4. ASSUME NEW w \in Workers, Accept(w) \/ Refuse(w) \/ WriteUpload(w)
      PROVE  Inv' /\ disk \subseteq disk'
  <2>1. CASE Accept(w) \/ Refuse(w)
    BY <2>1, AnswerStep DEF Accept, Refuse, Answer, keys
  <2>2. CASE WriteUpload(w)
    <3>1. file[w] \in Files
      BY <2>2 DEF WriteUpload, FileInv
    <3> QED  BY <1>0, <2>2, <3>1, WriteStep
  <2> QED  BY <1>4, <2>1, <2>2
<1>5. ASSUME NEW f \in Files, Expire(f) \/ HandWrites(f)
      PROVE  Inv' /\ disk \subseteq disk'
  BY <1>0, <1>5, FileStep
<1>6. CASE TakeBatch \/ NewWindow \/ UNCHANGED vars
  <2>1. UNCHANGED <<todo, at, file, kind, found, disk, cids, lost, contracts>>
    BY <1>6 DEF TakeBatch, NewWindow, vars, worker, world, keys, loopVars
  <2>2. Shape'
    BY <2>1 DEF Inv, Shape
  <2>3. ListedInv' /\ DeathInv' /\ KeyInv'
    BY <2>1 DEF Inv, ListedInv, DeathInv, OnDiskOrDead, KeyInv
  <2> QED  BY <2>1, <2>2, <2>3 DEF Inv
<1> QED
  BY <1>1, <1>2, <1>3, <1>4, <1>5, <1>6 DEF Next

\* A file that the chain knows is deleted by the prover only after it has been on
\* disk without a cid key, for any number of files, merkles, goroutines, threads and
\* uploads, with the counter exact or not (proofs.go:186-192, 394-401).
THEOREM LiveDeletedOnlyIfLost == Spec => OnlyDeadOrLostDeleted
<1>1. Init => FileInv
  BY DEF Init, FileInv
<1>2. Inv => Shape
  BY DEF Inv
<1> QED  BY <1>1, <1>2, InitInv, FileInvStep, NextInv, PTL DEF Spec, OnlyDeadOrLostDeleted

-----------------------------------------------------------------------------
(* Types and the counter.                                                  *)

\* Only the loop's goroutines are counted up, only uploads write first.
KindInv ==
    \A w \in Workers :
        /\ at[w] \in {"free", "starting"} => kind[w] = "cycle"
        /\ at[w] = "writing" => kind[w] = "upload" /\ file[w] \in Files

\* How many files a cycle has still to visit, and how many uploads there can be.
BoundInv ==
    /\ count + Cardinality(todo) <= Cardinality(Files)
    /\ loop \in {"idle", "stopped"} => count = 0
    /\ posted + Cardinality(Uploading) <= MaxUploads

\* Who is in the queue's line waits there, once.
LineInv ==
    /\ \A i \in 1..Len(line) : at[line[i]] = "waiting"
    /\ \A i, j \in 1..Len(line) : line[i] = line[j] => i = j

TypeInv == TypeOK /\ KindInv /\ BoundInv /\ LineInv
FullInv == TypeInv /\ CountedExactly

\* A number has one remainder.
LEMMA OneRemainder ==
    ASSUME NEW M \in Nat \ {0}, NEW p \in Int, NEW q \in Int,
           NEW r \in 0..(M - 1), NEW s \in 0..(M - 1), M * p + r = M * q + s
    PROVE  r = s
<1>1. ASSUME NEW a \in Int, NEW b \in Int, a > b PROVE M * a - M * b >= M
  <2>1. a - b >= 1 /\ M * (a - b) = M * a - M * b
    BY <1>1
  <2>2. M * (a - b) >= M
    BY <2>1
  <2> QED  BY <2>1, <2>2
<1>2. CASE p = q  BY <1>2
<1>3. CASE p > q
  <2>1. M * p - M * q >= M
    BY <1>1, <1>3
  <2> QED  BY <2>1
<1>4. CASE q > p
  <2>1. M * q - M * p >= M
    BY <1>1, <1>4
  <2> QED  BY <2>1
<1> QED  BY <1>2, <1>3, <1>4

\* The counter stays in its range, whatever it counts.
LEMMA WrapRange == ASSUME NEW n \in Int PROVE Wrap(n) \in -Half..(Half - 1)
<1>1. 2 * Half \in Nat \ {0} /\ n + Half \in Int
  BY ProverAssumption
<1>2. (n + Half) % (2 * Half) \in 0..(2 * Half - 1)
  BY <1>1
<1> QED  BY <1>2, ProverAssumption DEF Wrap

\* A remainder counts on as the number itself.
LEMMA RemainderAdd ==
    ASSUME NEW M \in Nat \ {0}, NEW a \in Int, NEW d \in Int
    PROVE  ((a % M) + d) % M = (a + d) % M
<1>1. PICK q \in Int, r \in 0..(M - 1) : a = M * q + r /\ r = a % M
  <2>1. a \div M \in Int /\ a % M \in 0..(M - 1) /\ a = M * (a \div M) + (a % M)
    OBVIOUS
  <2> QED  BY <2>1
<1>2. PICK b \in Int : b = r + d
  OBVIOUS
<1>3. PICK c \in Int : c = a + d
  OBVIOUS
<1>4. PICK p \in Int, s \in 0..(M - 1) : b = M * p + s /\ s = b % M
  <2>1. b \div M \in Int /\ b % M \in 0..(M - 1) /\ b = M * (b \div M) + (b % M)
    OBVIOUS
  <2> QED  BY <2>1
<1>5. PICK o \in Int, t \in 0..(M - 1) : c = M * o + t /\ t = c % M
  <2>1. c \div M \in Int /\ c % M \in 0..(M - 1) /\ c = M * (c \div M) + (c % M)
    OBVIOUS
  <2> QED  BY <2>1
<1>6. M * (q + p) + s = M * o + t
  <2>1. M * (q + p) = M * q + M * p
    OBVIOUS
  <2>2. M * q \in Int /\ M * p \in Int /\ M * o \in Int
    OBVIOUS
  <2> QED  BY <1>1, <1>2, <1>3, <1>4, <1>5, <2>1, <2>2
<1>7. s = t
  BY <1>6, OneRemainder
<1> QED  BY <1>1, <1>2, <1>3, <1>4, <1>5, <1>7

\* Counting on from a wrapped value is counting on from the value itself.
LEMMA WrapAdd ==
    ASSUME NEW n \in Int, NEW d \in Int
    PROVE  Wrap(Wrap(n) + d) = Wrap(n + d)
<1>1. 2 * Half \in Nat \ {0} /\ n + Half \in Int /\ Half \in Int
  BY ProverAssumption
<1>2. (n + Half) % (2 * Half) \in Int
  BY <1>1
<1>3. (((n + Half) % (2 * Half)) + d) % (2 * Half) = ((n + Half) + d) % (2 * Half)
  BY <1>1, RemainderAdd
<1>4. Wrap(n) + d + Half = ((n + Half) % (2 * Half)) + d /\ n + d + Half = n + Half + d
  BY <1>1, <1>2 DEF Wrap
<1>5. (Wrap(n) + d + Half) % (2 * Half) = (n + d + Half) % (2 * Half)
  BY <1>3, <1>4
<1> QED  BY <1>5 DEF Wrap

\* The sets that are counted are finite.
LEMMA Finite ==
    /\ IsFiniteSet(Counted) /\ Cardinality(Counted) \in Nat
    /\ IsFiniteSet(Uploading) /\ Cardinality(Uploading) \in Nat
    /\ Cardinality(Files) \in Nat
<1>1. Counted \subseteq Workers /\ Uploading \subseteq Workers
  BY DEF Counted, Uploading
<1> QED  BY <1>1, ProverAssumption, FS_Subset, FS_CardinalityType

LEMMA FullInit == Init => FullInv
<1> SUFFICES ASSUME Init PROVE FullInv
  OBVIOUS
<1>1. Counted = {} /\ Uploading = {}
  BY DEF Init, Counted, Uploading
<1>2. Cardinality(Counted) = 0 /\ Cardinality(Uploading) = 0 /\ Cardinality({}) = 0
  BY <1>1, FS_EmptySet
<1>3. Wrap(0) = 0
  BY ProverAssumption DEF Wrap
<1>4. TypeOK
  <2>1. /\ disk \subseteq Files /\ cids \subseteq Merkles /\ lost \subseteq Files
        /\ contracts \subseteq Files /\ proven \subseteq Files /\ torn \in BOOLEAN
    BY DEF Init
  <2>2. 0 \in -Half..(Half - 1) /\ 0 \in 0..MaxUploads /\ 0 \in 0..Cardinality(Files)
    BY ProverAssumption, Finite
  <2> QED  BY <2>1, <2>2 DEF Init, TypeOK, Ats, Kinds, Founds
<1>5. KindInv /\ BoundInv /\ LineInv
  BY <1>2, ProverAssumption, Finite DEF Init, KindInv, BoundInv, LineInv
<1>6. CountedExactly
  BY <1>2, <1>3 DEF Init, CountedExactly
<1> QED  BY <1>4, <1>5, <1>6 DEF FullInv, TypeInv

\* A step that leaves the counter alone keeps what it counts.
LEMMA SameCount ==
    ASSUME FullInv, UNCHANGED <<current, torn, posted>>, Counted' = Counted
    PROVE  CountedExactly'
BY DEF FullInv, CountedExactly

\* The line stands while nobody in it moves.
LEMMA SameLine ==
    ASSUME TypeInv, line' = line, \A w \in Workers : at[w] = "waiting" => at'[w] = "waiting"
    PROVE  LineInv'
<1>1. \A i \in 1..Len(line) : line[i] \in Workers
  BY DEF TypeInv, TypeOK
<1> QED  BY <1>1 DEF TypeInv, LineInv

\* Steps of the loop, the queue's batch and the chain: no goroutine moves.
LEMMA OutsideStep ==
    ASSUME FullInv,
           \/ BeginCycle \/ EndCycle \/ Stop \/ EndLoop \/ HalfHour \/ TakeBatch \/ NewWindow
           \/ \E f \in Files : Expire(f) \/ HandWrites(f)
    PROVE  FullInv'
<1> USE DEF FullInv, TypeInv
<1>1. UNCHANGED <<current, seen, torn, at, file, kind, posted>>
  BY DEF BeginCycle, EndCycle, Stop, EndLoop, HalfHour, TakeBatch, NewWindow, Expire, HandWrites,
     worker
<1>2. Counted' = Counted /\ Uploading' = Uploading
  BY <1>1 DEF Counted, Uploading
<1>3. KindInv' /\ LineInv' /\ CountedExactly'
  <2>1. line' = line
    BY DEF BeginCycle, EndCycle, Stop, EndLoop, HalfHour, TakeBatch, NewWindow, Expire,
       HandWrites, world
  <2> QED  BY <1>1, <1>2, <2>1, SameLine, SameCount DEF KindInv
<1>4. CASE BeginCycle
  <2>1. Cardinality(disk) <= Cardinality(Files)
    BY ProverAssumption, FS_Subset DEF TypeOK
  <2>2. IsFiniteSet(disk) /\ Cardinality(disk) \in Nat
    BY ProverAssumption, FS_Subset, FS_CardinalityType DEF TypeOK
  <2>3. TypeOK'
    BY <1>4 DEF BeginCycle, TypeOK, worker, world, keys
  <2>4. BoundInv'
    BY <1>1, <1>2, <1>4, <2>1, <2>2, Finite DEF BeginCycle, BoundInv, TypeOK
  <2> QED  BY <1>3, <2>3, <2>4
<1>5. CASE EndCycle
  <2>1. TypeOK'
    <3>1. count' = 0 /\ lastCount' = count /\ late' = FALSE /\ loop' = "idle"
      BY <1>5 DEF EndCycle
    <3>2. UNCHANGED <<running, todo, file, found, fresh, disk, cids, lost, line, taken, contracts, proven>>
      BY <1>5 DEF EndCycle, worker, world, keys
    <3>3. 0 \in 0..Cardinality(Files)
      BY Finite
    <3> QED  BY <1>1, <3>1, <3>2, <3>3 DEF TypeOK
  <2>2. Cardinality(todo) = 0
    BY <1>5, FS_EmptySet DEF EndCycle
  <2>3. BoundInv'
    BY <1>1, <1>2, <1>5, <2>2, Finite DEF EndCycle, BoundInv, TypeOK
  <2> QED  BY <1>3, <2>1, <2>3
<1>6. CASE Stop \/ EndLoop \/ HalfHour
  <2>1. /\ running' \in BOOLEAN /\ late' \in BOOLEAN
        /\ loop' \in {"idle", "visiting", "launching", "stopped"}
        /\ UNCHANGED <<todo, count, lastCount>>
    BY <1>6 DEF Stop, EndLoop, HalfHour, TypeOK
  <2>3. UNCHANGED <<file, found, fresh, disk, cids, lost, line, taken, contracts, proven>>
    BY <1>6 DEF Stop, EndLoop, HalfHour, worker, world, keys
  <2>4. TypeOK'
    BY <1>1, <2>1, <2>3 DEF TypeOK
  <2>2. BoundInv'
    BY <1>1, <1>2, <1>6 DEF Stop, EndLoop, HalfHour, BoundInv
  <2> QED  BY <1>3, <2>2, <2>4
<1>7. CASE \/ TakeBatch \/ NewWindow
           \/ \E f \in Files : Expire(f) \/ HandWrites(f)
  <2>1. UNCHANGED loopVars
    BY <1>7 DEF TakeBatch, NewWindow, Expire, HandWrites
  <2>2. UNCHANGED <<running, loop, todo, count, lastCount, late>>
    BY <2>1 DEF loopVars
  <2>3. BoundInv'
    BY <1>1, <1>2, <2>2 DEF BoundInv
  <2>4. /\ fresh' \in [Workers -> BOOLEAN] /\ UNCHANGED <<line, file, found>>
        /\ taken' \in 0..Len(line)
        /\ disk' \subseteq Files /\ contracts' \subseteq Files /\ proven' \subseteq Files
        /\ cids' \subseteq Merkles /\ lost' \subseteq Files
    <3>1. CASE TakeBatch
      BY <3>1 DEF TakeBatch, TypeOK, worker, keys
    <3>2. CASE NewWindow
      BY <3>2 DEF NewWindow, TypeOK, keys
    <3>3. CASE \E f \in Files : Expire(f) \/ HandWrites(f)
      BY <3>3, ProverAssumption DEF Expire, HandWrites, SetKeys, TypeOK, worker, keys
    <3> QED  BY <1>7, <3>1, <3>2, <3>3
  <2>5. TypeOK'
    BY <1>1, <2>2, <2>4 DEF TypeOK
  <2> QED  BY <1>3, <2>3, <2>5
<1> QED  BY <1>4, <1>5, <1>6, <1>7

\* The loop reads the counter for a listed file.
LEMMA IncReadStep ==
    ASSUME FullInv, NEW w \in Workers, NEW f \in Files, IncRead(w, f)
    PROVE  FullInv'
<1> USE DEF FullInv, TypeInv
<1>1. /\ at[w] = "free" /\ at' = [at EXCEPT ![w] = "starting"]
      /\ seen' = [seen EXCEPT ![w] = current]
      /\ f \in todo /\ todo' = todo \ {f} /\ count' = count + 1 /\ loop' = "launching"
      /\ UNCHANGED <<kind, current, torn, posted>>
  BY DEF IncRead, Goto
<1>2. IsFiniteSet(todo) /\ Cardinality(todo) \in Nat
  BY ProverAssumption, FS_Subset, FS_CardinalityType DEF TypeOK
<1>3. Cardinality(todo') = Cardinality(todo) - 1 /\ Cardinality(todo') \in Nat
  <2>1. IsFiniteSet(todo')
    BY <1>1, <1>2, FS_Subset
  <2> QED  BY <1>1, <1>2, <2>1, FS_RemoveElement, FS_CardinalityType
<1>4. Counted' = Counted /\ Uploading' = Uploading
  <2>1. kind[w] = "cycle"
    BY <1>1 DEF KindInv
  <2> QED  BY <1>1, <2>1 DEF Counted, Uploading, TypeOK
<1>5. TypeOK'
  <2>1. count' \in 0..Cardinality(Files)
    BY <1>1, <1>2, <1>3, Finite DEF BoundInv, TypeOK
  <2> QED  BY <1>1, <2>1 DEF IncRead, TypeOK, Ats, world, keys
<1>6. BoundInv'
  BY <1>1, <1>2, <1>3, <1>4, Finite DEF BoundInv, TypeOK
<1>7. KindInv'
  BY <1>1 DEF IncRead, KindInv, TypeOK
<1>8. CountedExactly'
  BY <1>1, <1>4, SameCount
<1>9. LineInv'
  BY <1>1, SameLine DEF IncRead, TypeOK, world
<1> QED  BY <1>5, <1>6, <1>7, <1>8, <1>9

\* The goroutine is counted up.
LEMMA IncWriteStep ==
    ASSUME FullInv, NEW w \in Workers, IncWrite(w)
    PROVE  FullInv'
<1> USE DEF FullInv, TypeInv
<1>1. /\ at[w] = "starting" /\ at' = [at EXCEPT ![w] = "asking"]
      /\ current' = Wrap(seen[w] + 1) /\ seen' = [seen EXCEPT ![w] = 0]
      /\ torn' = (torn \/ seen[w] # current)
      /\ loop' = "visiting"
      /\ UNCHANGED <<kind, posted, todo, count, running, lastCount, late, file, found, fresh>>
  BY DEF IncWrite, CountOn, Goto
<1>2. kind[w] = "cycle"
  BY <1>1 DEF KindInv
<1>3. seen[w] \in Int /\ 0 \in -Half..(Half - 1)
  BY ProverAssumption DEF TypeOK
<1>4. w \notin Counted /\ Counted' = Counted \cup {w} /\ Uploading' = Uploading
  BY <1>1, <1>2 DEF Counted, Uploading, TypeOK
<1>5. TypeOK'
  <2>1. current' \in -Half..(Half - 1)
    BY <1>1, <1>3, WrapRange
  <2> QED  BY <1>1, <1>3, <2>1 DEF IncWrite, TypeOK, Ats, world, keys
<1>6. BoundInv' /\ KindInv'
  BY <1>1, <1>4 DEF BoundInv, KindInv, TypeOK
<1>7. CountedExactly'
  <2>1. CASE torn'
    BY <2>1 DEF CountedExactly
  <2>2. CASE ~torn'
    <3>1. seen[w] = Wrap(Cardinality(Counted) - posted)
      BY <1>1, <2>2 DEF CountedExactly, TypeOK
    <3>2. Cardinality(Counted)' = Cardinality(Counted) + 1
      BY <1>4, Finite, FS_AddElement
    <3>3. Cardinality(Counted) \in Int /\ posted \in Int
      BY Finite DEF TypeOK
    <3>4. current' = Wrap((Cardinality(Counted) - posted) + 1)
      BY <1>1, <3>1, <3>3, WrapAdd
    <3>5. (Cardinality(Counted) - posted) + 1 = Cardinality(Counted)' - posted'
      BY <1>1, <3>2, <3>3
    <3> QED  BY <3>4, <3>5 DEF CountedExactly
  <2> QED  BY <2>1, <2>2
<1>8. LineInv'
  BY <1>1, SameLine DEF IncWrite, TypeOK, world
<1> QED  BY <1>5, <1>6, <1>7, <1>8

\* A handler takes its place among the uploads.
LEMMA StartUploadStep ==
    ASSUME FullInv, NEW w \in Workers, NEW f \in Files, StartUpload(w, f)
    PROVE  FullInv'
<1> USE DEF FullInv, TypeInv
<1>1. /\ at[w] = "free" /\ at' = [at EXCEPT ![w] = "writing"]
      /\ kind' = [kind EXCEPT ![w] = "upload"]
      /\ UNCHANGED <<current, seen, torn, posted, loop, todo, count>>
      /\ posted + Cardinality(Uploading) < MaxUploads
  BY DEF StartUpload, Goto, loopVars
<1>2. Counted' = Counted /\ w \notin Uploading /\ Uploading' = Uploading \cup {w}
  BY <1>1 DEF Counted, Uploading, TypeOK
<1>3. Cardinality(Uploading)' = Cardinality(Uploading) + 1
  BY <1>2, Finite, FS_AddElement
<1>4. TypeOK'
  BY <1>1 DEF StartUpload, TypeOK, Ats, Kinds, loopVars, world, keys
<1>5. BoundInv'
  BY <1>1, <1>3, Finite, ProverAssumption DEF BoundInv, TypeOK
<1>6. KindInv'
  BY <1>1 DEF StartUpload, KindInv, TypeOK
<1>8. CountedExactly'
  BY <1>1, <1>2, SameCount
<1>9. LineInv'
  BY <1>1, SameLine DEF StartUpload, TypeOK, world
<1> QED  BY <1>4, <1>5, <1>6, <1>8, <1>9

\* A goroutine reads the counter to count itself down.
LEMMA DecReadStep ==
    ASSUME FullInv, NEW w \in Workers, DecRead(w)
    PROVE  FullInv'
<1> USE DEF FullInv, TypeInv
<1>1. /\ at[w] = "leaving" /\ at' = [at EXCEPT ![w] = "left"]
      /\ seen' = [seen EXCEPT ![w] = current]
      /\ UNCHANGED <<kind, current, torn, posted, loop, todo, count>>
  BY DEF DecRead, Goto, loopVars
<1>2. Counted' = Counted /\ Uploading' = Uploading
  BY <1>1 DEF Counted, Uploading, TypeOK
<1>3. TypeOK'
  BY <1>1 DEF DecRead, TypeOK, Ats, loopVars, world, keys
<1>4. BoundInv' /\ KindInv'
  BY <1>1, <1>2 DEF DecRead, BoundInv, KindInv, TypeOK
<1>5. CountedExactly'
  BY <1>1, <1>2, SameCount
<1>6. LineInv'
  BY <1>1, SameLine DEF DecRead, TypeOK, world
<1> QED  BY <1>3, <1>4, <1>5, <1>6

\* A goroutine counts itself down; an upload was never counted up.
LEMMA DecWriteStep ==
    ASSUME FullInv, NEW w \in Workers, DecWrite(w)
    PROVE  FullInv'
<1> USE DEF FullInv, TypeInv
<1>1. /\ at[w] = "left" /\ at' = [at EXCEPT ![w] = After(w)]
      /\ current' = Wrap(seen[w] + (-1)) /\ seen' = [seen EXCEPT ![w] = 0]
      /\ torn' = (torn \/ seen[w] # current)
      /\ posted' = IF kind[w] = "upload" THEN posted + 1 ELSE posted
      /\ UNCHANGED <<loop, todo, count>>
  BY DEF DecWrite, CountOn, GoOrEnd, Goto, loopVars
<1>2. After(w) \in {"posting", "deleting", "free"}
  BY DEF After
<1>3. kind'[w] = "cycle"
  BY DEF DecWrite, GoOrEnd, TypeOK
<1>4. \A v \in Workers \ {w} : /\ kind'[v] = kind[v] /\ file'[v] = file[v]
                              /\ at'[v] = at[v] /\ seen'[v] = seen[v]
  BY <1>1 DEF DecWrite, GoOrEnd, TypeOK
<1>5. at'[w] = After(w) /\ kind[w] \in Kinds /\ posted \in Int /\ seen[w] \in Int
  BY <1>1, ProverAssumption DEF TypeOK
<1>6. Counted' = Counted \ {w} /\ Uploading' = Uploading \ {w}
  BY <1>2, <1>4, <1>5 DEF Counted, Uploading
<1>7. /\ Cardinality(Counted)' - posted' = (Cardinality(Counted) - posted) - 1
      /\ posted' + Cardinality(Uploading)' = posted + Cardinality(Uploading)
      /\ posted' \in Int
  <2>1. CASE kind[w] = "upload"
    <3>1. w \notin Counted /\ w \in Uploading /\ posted' = posted + 1
      BY <1>1, <2>1 DEF Counted, Uploading
    <3>2. /\ Cardinality(Uploading)' = Cardinality(Uploading) - 1
          /\ Cardinality(Counted)' = Cardinality(Counted)
      BY <1>6, <3>1, Finite, FS_RemoveElement
    <3> QED  BY <1>5, <3>1, <3>2, Finite
  <2>2. CASE kind[w] = "cycle"
    <3>1. w \in Counted /\ w \notin Uploading /\ posted' = posted
      BY <1>1, <2>2 DEF Counted, Uploading
    <3>2. /\ Cardinality(Uploading)' = Cardinality(Uploading)
          /\ Cardinality(Counted)' = Cardinality(Counted) - 1
      BY <1>6, <3>1, Finite, FS_RemoveElement
    <3> QED  BY <1>5, <3>1, <3>2, Finite
  <2> QED  BY <1>5, <2>1, <2>2 DEF Kinds
<1>8. posted' \in 0..MaxUploads /\ Cardinality(Uploading)' \in Nat
  <2>1. posted' >= 0
    BY <1>1, <1>5 DEF TypeOK
  <2>2. Cardinality(Uploading)' \in Nat
    BY <1>6, Finite, FS_Subset, FS_CardinalityType
  <2> QED  BY <1>7, <2>1, <2>2, ProverAssumption DEF BoundInv
<1>9. TypeOK'
  <2>1. current' \in -Half..(Half - 1)
    BY <1>1, <1>5, WrapRange
  <2>2. seen' \in [Workers -> -Half..(Half - 1)]
    BY <1>1, ProverAssumption DEF TypeOK
  <2>3. /\ at' \in [Workers -> Ats] /\ file' \in [Workers -> Files \cup {NoFile}]
        /\ kind' \in [Workers -> Kinds] /\ found' \in [Workers -> Founds]
        /\ fresh' \in [Workers -> BOOLEAN]
    BY <1>1, <1>2 DEF DecWrite, GoOrEnd, TypeOK, Ats, Kinds, Founds
  <2> QED  BY <1>1, <1>8, <2>1, <2>2, <2>3 DEF DecWrite, TypeOK, loopVars, world, keys
<1>10. BoundInv'
  BY <1>1, <1>7 DEF BoundInv
<1>11. KindInv'
  BY <1>2, <1>3, <1>4, <1>5 DEF KindInv
<1>12. CountedExactly'
  <2>1. CASE torn'
    BY <2>1 DEF CountedExactly
  <2>2. CASE ~torn'
    <3>1. seen[w] = Wrap(Cardinality(Counted) - posted)
      BY <1>1, <2>2 DEF CountedExactly, TypeOK
    <3>2. Cardinality(Counted) - posted \in Int /\ -1 \in Int
      BY <1>5, Finite
    <3>3. current' = Wrap((Cardinality(Counted) - posted) + (-1))
      BY <1>1, <3>1, <3>2, WrapAdd
    <3>4. (Cardinality(Counted) - posted) - 1 = (Cardinality(Counted) - posted) + (-1)
      BY <3>2
    <3> QED  BY <1>7, <3>3, <3>4 DEF CountedExactly
  <2> QED  BY <2>1, <2>2
<1>13. LineInv'
  BY <1>1, SameLine DEF DecWrite, TypeOK, world
<1> QED  BY <1>9, <1>10, <1>11, <1>12, <1>13

\* Any other step of a goroutine is none of the counter.
LEMMA OtherStep ==
    ASSUME FullInv, NEW w \in Workers,
           \/ AskChain(w) \/ LoadProof(w) \/ AddToQueue(w) \/ DeleteFile(w) \/ DeleteCid(w)
           \/ Accept(w) \/ Refuse(w) \/ WriteUpload(w)
    PROVE  FullInv'
<1> USE DEF FullInv, TypeInv
<1>1. /\ UNCHANGED <<current, seen, torn, posted, running, loop, todo, count, lastCount, late>>
      /\ (w = Head(line) /\ line # <<>>) \/ ~(Accept(w) \/ Refuse(w))
  BY DEF AskChain, LoadProof, AddToQueue, DeleteFile, DeleteCid, Accept, Refuse, Answer, WriteUpload, loopVars,
     TypeOK
<1>2. \A v \in Workers \ {w} : at'[v] = at[v] /\ kind'[v] = kind[v] /\ file'[v] = file[v]
  BY DEF AskChain, LoadProof, AddToQueue, DeleteFile, DeleteCid, Accept, Refuse, Answer, WriteUpload,
     Leave, GoOrEnd, Goto, TypeOK
<1>3. \/ /\ at[w] \in {"asking", "loading", "writing"} /\ at'[w] \in {"asking", "loading", "leaving"}
         /\ kind'[w] = kind[w]
      \/ /\ at[w] \in {"posting", "waiting", "deleting", "clearing"}
         /\ \/ at'[w] = "free" /\ kind'[w] = "cycle"
            \/ at'[w] \in {"waiting", "clearing"}
  <2>1. CASE AskChain(w) \/ LoadProof(w) \/ WriteUpload(w)
    BY <2>1 DEF AskChain, LoadProof, WriteUpload, Leave, Goto, TypeOK
  <2>2. CASE AddToQueue(w) \/ DeleteFile(w) \/ DeleteCid(w)
    BY <2>2 DEF AddToQueue, DeleteFile, DeleteCid, GoOrEnd, Goto, TypeOK
  <2>3. CASE Accept(w) \/ Refuse(w)
    <3>1. w = line[1] /\ 1 \in 1..Len(line)
      BY <2>3 DEF Accept, Refuse, Answer, TypeOK
    <3>2. at[w] = "waiting"
      BY <3>1 DEF LineInv
    <3> QED  BY <2>3, <3>2 DEF Accept, Refuse, Answer, GoOrEnd, Goto, TypeOK
  <2> QED  BY <2>1, <2>2, <2>3
<1>4. at[w] = "writing" => kind[w] = "upload"
  BY DEF KindInv
<1>5. Counted' = Counted /\ Uploading' = Uploading
  BY <1>2, <1>3, <1>4 DEF Counted, Uploading
<1>6. BoundInv' /\ KindInv'
  BY <1>1, <1>2, <1>3, <1>5 DEF BoundInv, KindInv
<1>7. CountedExactly'
  BY <1>1, <1>5, SameCount
<1>8. /\ at' \in [Workers -> Ats] /\ file' \in [Workers -> Files \cup {NoFile}]
      /\ kind' \in [Workers -> Kinds] /\ found' \in [Workers -> Founds]
      /\ fresh' \in [Workers -> BOOLEAN]
  BY DEF AskChain, LoadProof, AddToQueue, DeleteFile, DeleteCid, Accept, Refuse, Answer, WriteUpload,
     Leave, GoOrEnd, Goto, TypeOK, Ats, Kinds, Founds
<1>9. /\ disk' \subseteq Files /\ cids' \subseteq Merkles /\ lost' \subseteq Files
      /\ contracts' \subseteq Files /\ proven' \subseteq Files
  <2>1. CASE DeleteFile(w) \/ DeleteCid(w) \/ WriteUpload(w)
    BY <2>1, ProverAssumption DEF DeleteFile, DeleteCid, WriteUpload, SetKeys, TypeOK, KindInv
  <2>2. CASE AskChain(w) \/ LoadProof(w) \/ AddToQueue(w) \/ Accept(w) \/ Refuse(w)
    BY <2>2 DEF AskChain, LoadProof, AddToQueue, Accept, Refuse, Answer, TypeOK, world, keys
  <2> QED  BY <2>1, <2>2
<1>10. line' \in Seq(Workers) /\ taken' \in 0..Len(line') /\ LineInv'
  <2>1. CASE AskChain(w) \/ LoadProof(w) \/ WriteUpload(w) \/ DeleteFile(w) \/ DeleteCid(w)
    <3>1. line' = line /\ taken' = taken
      BY <2>1 DEF AskChain, LoadProof, WriteUpload, DeleteFile, DeleteCid, world
    <3>2. at[w] # "waiting"
      BY <2>1 DEF AskChain, LoadProof, WriteUpload, DeleteFile, DeleteCid
    <3> QED  BY <1>2, <3>1, <3>2, SameLine DEF TypeOK
  <2>2. CASE AddToQueue(w)
    <3>1. CASE line' = line
      BY <1>2, <2>2, <3>1, SameLine DEF AddToQueue, TypeOK
    <3>2. CASE line' = Append(line, w) /\ GoOrEnd(w, "waiting")
      <4>1. taken' = taken /\ at[w] = "posting" /\ at' = [at EXCEPT ![w] = "waiting"]
        BY <2>2, <3>2 DEF AddToQueue, GoOrEnd, Goto
      <4>2. /\ Len(line') = Len(line) + 1 /\ line'[Len(line) + 1] = w
            /\ \A i \in 1..Len(line) : line'[i] = line[i] /\ line[i] \in Workers /\ line[i] # w
        <5>1. line \in Seq(Workers) /\ line' = Append(line, w)
          BY <3>2 DEF TypeOK
        <5>2. \A i \in 1..Len(line) : line[i] \in Workers /\ line[i] # w
          BY <4>1, <5>1 DEF LineInv
        <5>3. Len(line') = Len(line) + 1 /\ line'[Len(line) + 1] = w
          BY <5>1
        <5> QED  BY <5>1, <5>2, <5>3
      <4>3. \A i \in 1..Len(line') : i \in 1..Len(line) \/ i = Len(line) + 1
        BY <4>2 DEF TypeOK
      <4>4. LineInv'
        <5>1. ASSUME NEW i \in 1..Len(line') PROVE at'[line'[i]] = "waiting"
          <6>1. \A v \in Workers : at'[v] = IF v = w THEN "waiting" ELSE at[v]
            BY <4>1 DEF TypeOK
          <6>2. CASE i \in 1..Len(line)
            BY <4>2, <6>1, <6>2 DEF LineInv
          <6>3. CASE i = Len(line) + 1
            BY <4>2, <6>1, <6>3
          <6> QED  BY <4>3, <6>2, <6>3
        <5>2. ASSUME NEW i \in 1..Len(line'), NEW j \in 1..Len(line'), line'[i] = line'[j]
              PROVE  i = j
          BY <4>2, <4>3, <5>2 DEF LineInv
        <5> QED  BY <5>1, <5>2 DEF LineInv
      <4> QED  BY <3>2, <4>1, <4>2, <4>4 DEF TypeOK
    <3> QED  BY <2>2, <3>1, <3>2 DEF AddToQueue
  <2>3. CASE Accept(w) \/ Refuse(w)
    <3>1. /\ line' = Tail(line) /\ taken' = taken - 1 /\ taken > 0 /\ w = Head(line)
          /\ at' = [at EXCEPT ![w] = "free"]
      BY <2>3 DEF Accept, Refuse, Answer, GoOrEnd, Goto
    <3>2. line # <<>> /\ Len(line) >= 1 /\ w = line[1]
      BY <3>1 DEF TypeOK
    <3>3. /\ line' \in Seq(Workers) /\ Len(line') = Len(line) - 1
          /\ \A i \in 1..Len(line') : line'[i] = line[i + 1] /\ i + 1 \in 2..Len(line)
      BY <3>1, <3>2 DEF TypeOK
    <3>4. ASSUME NEW i \in 1..Len(line') PROVE line'[i] # w /\ line'[i] \in Workers
      <4>1. line'[i] = line[i + 1] /\ i + 1 \in 1..Len(line) /\ i + 1 # 1 /\ 1 \in 1..Len(line)
        BY <3>2, <3>3
      <4>2. line[i + 1] # line[1]
        BY <4>1 DEF LineInv
      <4>3. line[i + 1] \in Workers
        BY <4>1 DEF TypeOK
      <4> QED  BY <3>2, <4>1, <4>2, <4>3
    <3>5. LineInv'
      BY <3>1, <3>3, <3>4 DEF LineInv, TypeOK
    <3> QED  BY <3>1, <3>3, <3>5 DEF TypeOK
  <2> QED  BY <2>1, <2>2, <2>3
<1>11. TypeOK'
  BY <1>1, <1>8, <1>9, <1>10 DEF TypeOK
<1> QED  BY <1>6, <1>7, <1>10, <1>11

LEMMA FullStep == FullInv /\ [Next]_vars => FullInv'
<1> SUFFICES ASSUME FullInv, [Next]_vars PROVE FullInv'
  OBVIOUS
<1>1. CASE UNCHANGED vars
  BY <1>1 DEF vars, loopVars, worker, world, keys, FullInv, TypeInv, TypeOK, KindInv, BoundInv, LineInv,
     CountedExactly, Counted, Uploading
<1>2. CASE Next
  BY <1>2, OutsideStep, IncReadStep, IncWriteStep, StartUploadStep, DecReadStep, DecWriteStep,
     OtherStep DEF Next, Worker
<1> QED  BY <1>1, <1>2

\* The prover's variables keep their types: no cycle counts more files than there
\* are, whatever else writes and deletes them (proofs.go:327-371).
THEOREM TypeCorrect == Spec => []TypeOK
<1>1. FullInv => TypeOK
  BY DEF FullInv, TypeInv
<1> QED  BY <1>1, FullInit, FullStep, PTL DEF Spec

\* Until two ++ or -- overlap the counter is the number of the loop's goroutines
\* that make proofs, less the uploads so far, in the counter's width, for any number
\* of goroutines, uploads and threads (proofs.go:176, 357, types.go:32).
THEOREM CounterIsExact == Spec => []CountedExactly
<1>1. FullInv => CountedExactly
  BY DEF FullInv
<1> QED  BY <1>1, FullInit, FullStep, PTL DEF Spec

-----------------------------------------------------------------------------
(* The number of provers                                                   *)

\* Each upload so far may have let one goroutine more make a proof.  Whoever the
\* loop is about to count has found the counter below the limit.
ThreadInv ==
    /\ torn \/ Cardinality(Counted) <= Threads + posted
    /\ \A w \in Workers : at[w] = "starting" => seen[w] < Threads

LEMMA ThreadInit == Init => ThreadInv
<1> SUFFICES ASSUME Init PROVE ThreadInv
  OBVIOUS
<1>1. Counted = {}
  BY DEF Init, Counted
<1> QED  BY <1>1, ProverAssumption, FS_EmptySet DEF Init, ThreadInv

\* A step that counts nobody.
LEMMA SameThreads ==
    ASSUME ThreadInv, UNCHANGED <<posted, torn>>, Counted' = Counted,
           \A v \in Workers : at'[v] = "starting" => at[v] = "starting" /\ seen'[v] = seen[v]
    PROVE  ThreadInv'
BY DEF ThreadInv

\* The counter is below the limit, so that one more may be counted: it has not
\* wrapped, as it does not hold more than the limit.
LEMMA OneMoreThread ==
    ASSUME FullInv, ThreadInv, ~torn, NEW w \in Workers, at[w] = "starting", seen[w] = current
    PROVE  Cardinality(Counted) + 1 <= Threads + posted
<1>1. seen[w] = Wrap(Cardinality(Counted) - posted) /\ seen[w] < Threads
  BY DEF FullInv, CountedExactly, ThreadInv
<1>2. Cardinality(Counted) \in Nat /\ posted \in Nat
  BY Finite, ProverAssumption DEF FullInv, TypeInv, TypeOK
<1> SUFFICES ASSUME Cardinality(Counted) = Threads + posted PROVE FALSE
  BY <1>2, ProverAssumption DEF ThreadInv
<1>3. Cardinality(Counted) - posted = Threads
  BY <1>2, ProverAssumption
<1>4. Wrap(Threads) = Threads
  <2>1. Threads + Half \in 0..(2 * Half - 1) /\ 2 * Half \in Nat \ {0}
    BY ProverAssumption
  <2>2. (Threads + Half) % (2 * Half) = Threads + Half
    BY <2>1
  <2> QED  BY <2>2, ProverAssumption DEF Wrap
<1> QED  BY <1>1, <1>3, <1>4, ProverAssumption

LEMMA ThreadStep ==
    ASSUME FullInv, ThreadInv, [Next]_vars
    PROVE  ThreadInv'
<1> USE DEF FullInv, TypeInv
<1>0. Cardinality(Counted) \in Nat /\ posted \in Nat
  BY Finite, ProverAssumption DEF TypeOK
<1>1. CASE \/ BeginCycle \/ EndCycle \/ Stop \/ EndLoop \/ HalfHour \/ TakeBatch \/ NewWindow
           \/ (\E f \in Files : Expire(f) \/ HandWrites(f)) \/ UNCHANGED vars
  <2>1. UNCHANGED <<at, kind, seen, torn, posted>>
    BY <1>1 DEF BeginCycle, EndCycle, Stop, EndLoop, HalfHour, TakeBatch, NewWindow, Expire,
       HandWrites, vars, worker
  <2>2. Counted' = Counted
    BY <2>1 DEF Counted
  <2> QED  BY <2>1, <2>2, SameThreads
<1>2. ASSUME NEW w \in Workers, NEW f \in Files, IncRead(w, f) PROVE ThreadInv'
  <2>1. /\ at[w] = "free" /\ at' = [at EXCEPT ![w] = "starting"] /\ current < Threads
        /\ seen' = [seen EXCEPT ![w] = current] /\ UNCHANGED <<kind, torn, posted>>
    BY <1>2 DEF IncRead, Goto
  <2>2. Counted' = Counted
    BY <2>1 DEF Counted, TypeOK
  <2>3. \A v \in Workers : at'[v] = "starting" => seen'[v] < Threads
    BY <2>1 DEF ThreadInv, TypeOK
  <2> QED  BY <2>1, <2>2, <2>3 DEF ThreadInv
<1>3. ASSUME NEW w \in Workers, IncWrite(w) PROVE ThreadInv'
  <2>1. /\ at[w] = "starting" /\ at' = [at EXCEPT ![w] = "asking"]
        /\ seen' = [seen EXCEPT ![w] = 0] /\ UNCHANGED <<kind, posted>>
        /\ torn' = (torn \/ seen[w] # current)
    BY <1>3 DEF IncWrite, CountOn, Goto
  <2>2. w \notin Counted /\ Counted' = Counted \cup {w}
    BY <2>1 DEF Counted, KindInv, TypeOK
  <2>3. Cardinality(Counted)' = Cardinality(Counted) + 1
    BY <2>2, Finite, FS_AddElement
  <2>4. torn' \/ Cardinality(Counted)' <= Threads + posted'
    BY <2>1, <2>3, OneMoreThread DEF TypeOK
  <2> QED  BY <2>1, <2>4 DEF ThreadInv, TypeOK
<1>4. ASSUME NEW w \in Workers, NEW f \in Files, StartUpload(w, f) PROVE ThreadInv'
  <2>1. /\ at[w] = "free" /\ at' = [at EXCEPT ![w] = "writing"]
        /\ kind' = [kind EXCEPT ![w] = "upload"] /\ UNCHANGED <<seen, torn, posted>>
    BY <1>4 DEF StartUpload, Goto
  <2>2. Counted' = Counted
    BY <2>1 DEF Counted, TypeOK
  <2> QED  BY <2>1, <2>2, SameThreads DEF TypeOK
<1>5. ASSUME NEW w \in Workers, DecRead(w) PROVE ThreadInv'
  <2>1. /\ at[w] = "leaving" /\ at' = [at EXCEPT ![w] = "left"]
        /\ seen' = [seen EXCEPT ![w] = current] /\ UNCHANGED <<kind, torn, posted>>
    BY <1>5 DEF DecRead, Goto
  <2>2. Counted' = Counted
    BY <2>1 DEF Counted, TypeOK
  <2> QED  BY <2>1, <2>2, SameThreads DEF TypeOK
<1>6. ASSUME NEW w \in Workers, DecWrite(w) PROVE ThreadInv'
  <2>1. /\ at[w] = "left" /\ at' = [at EXCEPT ![w] = After(w)]
        /\ seen' = [seen EXCEPT ![w] = 0]
        /\ posted' = IF kind[w] = "upload" THEN posted + 1 ELSE posted
        /\ torn => torn'
    BY <1>6 DEF DecWrite, CountOn, GoOrEnd, Goto
  <2>2. After(w) \in {"posting", "deleting", "free"}
    BY DEF After
  <2>3. \A v \in Workers \ {w} : kind'[v] = kind[v] /\ at'[v] = at[v] /\ seen'[v] = seen[v]
    BY <1>6, <2>1 DEF DecWrite, GoOrEnd, TypeOK
  <2>4. at'[w] = After(w)
    BY <2>1 DEF TypeOK
  <2>5. Counted' \subseteq Counted
    BY <2>2, <2>3, <2>4 DEF Counted
  <2>6. Cardinality(Counted)' <= Cardinality(Counted) /\ Cardinality(Counted)' \in Nat
    BY <2>5, Finite, FS_Subset, FS_CardinalityType
  <2>7. posted' \in Nat /\ posted' >= posted
    BY <1>0, <2>1
  <2>8. torn' \/ Cardinality(Counted)' <= Threads + posted'
    BY <1>0, <2>1, <2>6, <2>7, ProverAssumption DEF ThreadInv
  <2>9. \A v \in Workers : at'[v] = "starting" => seen'[v] < Threads
    BY <2>2, <2>3, <2>4 DEF ThreadInv
  <2> QED  BY <2>8, <2>9 DEF ThreadInv
<1>7. ASSUME NEW w \in Workers,
             \/ AskChain(w) \/ LoadProof(w) \/ AddToQueue(w) \/ DeleteFile(w) \/ DeleteCid(w)
             \/ Accept(w) \/ Refuse(w) \/ WriteUpload(w)
      PROVE  ThreadInv'
  <2>1. UNCHANGED <<seen, torn, posted>>
    BY <1>7 DEF AskChain, LoadProof, AddToQueue, DeleteFile, DeleteCid, Accept, Refuse, Answer, WriteUpload
  <2>2. \A v \in Workers \ {w} : at'[v] = at[v] /\ kind'[v] = kind[v]
    BY <1>7 DEF AskChain, LoadProof, AddToQueue, DeleteFile, DeleteCid, Accept, Refuse, Answer, WriteUpload,
       Leave, GoOrEnd, Goto, TypeOK
  <2>3. \/ /\ at[w] \in {"asking", "loading", "writing"}
           /\ at'[w] \in {"asking", "loading", "leaving"} /\ kind'[w] = kind[w]
        \/ /\ at[w] \in {"posting", "waiting", "deleting", "clearing"}
           /\ at'[w] \in {"free", "waiting", "clearing"}
    <3>1. CASE AskChain(w) \/ LoadProof(w) \/ WriteUpload(w)
      BY <3>1 DEF AskChain, LoadProof, WriteUpload, Leave, Goto, TypeOK
    <3>2. CASE AddToQueue(w) \/ DeleteFile(w) \/ DeleteCid(w)
      BY <3>2 DEF AddToQueue, DeleteFile, DeleteCid, GoOrEnd, Goto, TypeOK
    <3>3. CASE Accept(w) \/ Refuse(w)
      <4>1. w = line[1] /\ 1 \in 1..Len(line)
        BY <3>3 DEF Accept, Refuse, Answer, TypeOK
      <4>2. at[w] = "waiting"
        BY <4>1 DEF LineInv
      <4> QED  BY <3>3, <4>2 DEF Accept, Refuse, Answer, GoOrEnd, Goto, TypeOK
    <3> QED  BY <1>7, <3>1, <3>2, <3>3
  <2>4. Counted' = Counted
    BY <2>2, <2>3 DEF Counted, KindInv
  <2> QED  BY <2>1, <2>2, <2>3, <2>4, SameThreads
<1> QED  BY <1>1, <1>2, <1>3, <1>4, <1>5, <1>6, <1>7 DEF Next, Worker

\* Until two ++ or -- overlap, no more goroutines make proofs at a time than the
\* limit and one for each upload that has counted itself down, also after the counter
\* has wrapped (proofs.go:176, 350-357, types.go:32).
THEOREM ThreadsAndUploads == Spec => [](torn \/ Cardinality(Counted) <= Threads + posted)
<1>1. ThreadInv => torn \/ Cardinality(Counted) <= Threads + posted
  BY DEF ThreadInv
<1>2. FullInv /\ ThreadInv /\ [Next]_vars => ThreadInv'
  BY ThreadStep
<1> QED  BY <1>1, <1>2, FullInit, FullStep, ThreadInit, PTL DEF Spec
=============================================================================
