------------------------------ MODULE FileStore ------------------------------
(***************************************************************************)
(* The file system of a provider (src/file_system): a badger database with *)
(* a tree key per storage contract and a cid key per merkle root, beside   *)
(* an IPFS blockstore that holds the data.  WriteFile, DeleteFile and      *)
(* GetFileTreeByChunk are sequences of steps on the two; uploads, stray    *)
(* hands and provers run them in goroutines of their own, and the process  *)
(* can stop between any two of them.                                       *)
(*                                                                         *)
(* The data is abstracted to its blocks: Dag[r] are the blocks that        *)
(* collectDAGNodes visits from a root r, Puts[r] those that a write of r   *)
(* adds - all of Dag[r] for a file, the node alone for a folder.  The      *)
(* merkle check before a write has no effect on the state and is left out, *)
(* and so is the fileCount gauge.                                          *)
(***************************************************************************)
EXTENDS FiniteSets, Naturals

CONSTANTS
    Contracts,  \* (merkle, owner, start) of a storage contract
    Merkles,
    MerkleOf,   \* the merkle of a contract
    Blocks,     \* cids of blocks
    Roots,      \* Roots[m]: the root cids a file of merkle m may get: one for
                \* each way to cut it (ipfsParams)
    Dag, Puts,
    Remote,     \* the blocks that a peer may be able to send
    NoCid,
    Procs,      \* goroutines
    Overlap,    \* TRUE: writes and deletes of one merkle overlap freely, as the
                \* code allows; FALSE: there is one of them at a time
    Faults,     \* which updates may fail: a subset of AllFaults
    Crashes     \* whether the process may stop and start again

AllRoots == UNION {Roots[m] : m \in Merkles}

\* A block that cannot be stored; the database update of a write; its second Set
\* alone, whose error WriteFileWithProgress ignores; the two updates of a
\* delete; a block that cannot be deleted.
AllFaults == {"putBlock", "commit", "setCid", "removeTree", "removeCid", "deleteBlock"}

ASSUME FileStoreAssumption ==
    /\ MerkleOf \in [Contracts -> Merkles]
    /\ Roots \in [Merkles -> SUBSET Blocks]
    /\ Remote \subseteq Blocks
    /\ NoCid \notin Blocks
    /\ Dag \in [AllRoots -> SUBSET Blocks]
    /\ Puts \in [AllRoots -> SUBSET Blocks]
    /\ \A r \in AllRoots : r \in Puts[r] /\ Puts[r] \subseteq Dag[r]
    /\ Overlap \in BOOLEAN
    /\ Faults \subseteq AllFaults
    /\ Crashes \in BOOLEAN

VARIABLES
    trees,    \* contracts with a tree key
    cids,     \* the cid key of each merkle, or NoCid
    blocks,   \* the blockstore
    at,       \* where each goroutine is
    job,      \* the contract it works on
    root,     \* the root cid it holds
    todo,     \* the blocks it has yet to add or to delete
    gone,     \* history: its contract was deleted since it found the tree
    result    \* how its last read ended

disk  == <<trees, cids, blocks>>
local == <<at, job, root, todo>>
vars  == <<disk, local, gone, result>>

Ats == {"idle", "adding", "removing", "finding", "unlinking", "collecting",
        "deleting", "hasTree", "hasCid"}
Changes == {"adding", "removing", "finding", "unlinking", "collecting", "deleting"}
Reads   == {"hasTree", "hasCid"}
Outcomes == {"none", "served", "notFound", "failed"}

Init ==
    /\ trees = {}
    /\ cids = [m \in Merkles |-> NoCid]
    /\ blocks = {}
    /\ at = [p \in Procs |-> "idle"]
    /\ job \in [Procs -> Contracts]
    /\ root = [p \in Procs |-> NoCid]
    /\ todo = [p \in Procs |-> {}]
    /\ gone = [p \in Procs |-> FALSE]
    /\ result = [p \in Procs |-> "none"]

Succeeds(update) == IF update \in Faults THEN BOOLEAN ELSE {TRUE}

\* No write or delete of the contract's merkle is under way, where these
\* do not overlap.
MayChange(c) ==
    Overlap \/ \A q \in Procs :
        at[q] \in Changes => MerkleOf[job[q]] # MerkleOf[c]

Goto(p, place) == at' = [at EXCEPT ![p] = place]

\* The operation returns; what it held is forgotten.
Finish(p) ==
    /\ Goto(p, "idle")
    /\ root' = [root EXCEPT ![p] = NoCid]
    /\ todo' = [todo EXCEPT ![p] = {}]

-----------------------------------------------------------------------------
(* WriteFile and WriteFileWithProgress                                     *)

StartWrite(p, c, r) ==
    /\ at[p] = "idle"
    /\ MayChange(c)
    /\ Goto(p, "adding")
    /\ job' = [job EXCEPT ![p] = c]
    /\ root' = [root EXCEPT ![p] = r]
    /\ todo' = [todo EXCEPT ![p] = Puts[r]]
    /\ UNCHANGED <<disk, gone, result>>

\* ipfs.AddFile or ipfs.Add stores the next block; an error ends the write.
PutBlock(p) ==
    /\ at[p] = "adding"
    /\ \E b \in todo[p], ok \in Succeeds("putBlock") :
          IF ok
          THEN /\ blocks' = blocks \cup {b}
               /\ todo' = [todo EXCEPT ![p] = @ \ {b}]
               /\ UNCHANGED <<at, root>>
          ELSE Finish(p) /\ UNCHANGED blocks
    /\ UNCHANGED <<trees, cids, job, gone, result>>

\* Variant of CommitWrite: the keys are set before the blocks are stored.
CommitEarly(p) ==
    /\ at[p] = "adding"
    /\ trees' = trees \cup {job[p]}
    /\ cids' = [cids EXCEPT ![MerkleOf[job[p]]] = root[p]]
    /\ Finish(p)
    /\ UNCHANGED <<blocks, job, gone, result>>

\* One transaction sets the tree key and the cid key.
CommitWrite(p) ==
    /\ at[p] = "adding"
    /\ todo[p] = {}
    /\ \E ok \in Succeeds("commit"), cidSet \in Succeeds("setCid") :
          /\ trees' = IF ok THEN trees \cup {job[p]} ELSE trees
          /\ cids' = IF ok /\ cidSet THEN [cids EXCEPT ![MerkleOf[job[p]]] = root[p]]
                     ELSE cids
    /\ Finish(p)
    /\ UNCHANGED <<blocks, job, gone, result>>

-----------------------------------------------------------------------------
(* DeleteFile                                                              *)

\* Variant of StartDelete: the tree key is left.
DeleteDataOnly(p, c) ==
    /\ at[p] = "idle"
    /\ MayChange(c)
    /\ Goto(p, "finding")
    /\ job' = [job EXCEPT ![p] = c]
    /\ UNCHANGED <<disk, root, todo, gone, result>>

StartDelete(p, c) ==
    /\ at[p] = "idle"
    /\ MayChange(c)
    /\ Goto(p, "removing")
    /\ job' = [job EXCEPT ![p] = c]
    /\ UNCHANGED <<disk, root, todo, gone, result>>

\* removeContract deletes the tree key; an error is only logged.  Its search for
\* other contracts of the merkle seeks keys that begin with the raw merkle,
\* where tree keys begin with "tree/": it finds none, and deleteFile follows.
RemoveTree(p) ==
    /\ at[p] = "removing"
    /\ \E ok \in Succeeds("removeTree") :
          trees' = IF ok THEN trees \ {job[p]} ELSE trees
    /\ gone' = [q \in Procs |-> gone[q] \/ (at[q] \in Reads /\ job[q] = job[p])]
    /\ Goto(p, "finding")
    /\ UNCHANGED <<cids, blocks, job, root, todo, result>>

\* deleteFile reads the cid key ...
FindCid(p) ==
    /\ at[p] = "finding"
    /\ root' = [root EXCEPT ![p] = cids[MerkleOf[job[p]]]]
    /\ Goto(p, "unlinking")
    /\ UNCHANGED <<disk, job, todo, gone, result>>

\* Variant of UnlinkCid: the decoding of the cid is not checked.
UnlinkUnchecked(p) ==
    /\ at[p] = "unlinking"
    /\ cids' = [cids EXCEPT ![MerkleOf[job[p]]] = NoCid]
    /\ Goto(p, "collecting")
    /\ UNCHANGED <<trees, blocks, job, root, todo, gone, result>>

\* ... and deletes it (an error is only logged).  When there was none the
\* decoding of the cid fails and the delete ends.
UnlinkCid(p) ==
    /\ at[p] = "unlinking"
    /\ \E ok \in Succeeds("removeCid") :
          cids' = IF ok THEN [cids EXCEPT ![MerkleOf[job[p]]] = NoCid] ELSE cids
    /\ IF root[p] = NoCid THEN Finish(p) ELSE Goto(p, "collecting") /\ UNCHANGED <<root, todo>>
    /\ UNCHANGED <<trees, blocks, job, gone, result>>

\* Variant of Collect: the root alone is visited.
CollectRootOnly(p) ==
    /\ at[p] = "collecting"
    /\ root[p] \in blocks
    /\ todo' = [todo EXCEPT ![p] = {root[p]}]
    /\ Goto(p, "deleting")
    /\ UNCHANGED <<disk, job, root, gone, result>>

\* collectDAGNodes gets every node below the root; those that are not in the
\* blockstore come from a peer, and are stored on the way.
Collect(p) ==
    /\ at[p] = "collecting"
    /\ Dag[root[p]] \subseteq blocks \cup Remote
    /\ blocks' = blocks \cup Dag[root[p]]
    /\ todo' = [todo EXCEPT ![p] = Dag[root[p]]]
    /\ Goto(p, "deleting")
    /\ UNCHANGED <<trees, cids, job, root, gone, result>>

\* A node is neither in the blockstore nor sent by a peer: the delete ends,
\* and the nodes that peers did send before it stay.
CollectFails(p) ==
    /\ at[p] = "collecting"
    /\ \E missing \in Dag[root[p]] \ blocks :
       \E sent \in SUBSET ((Dag[root[p]] \cap Remote) \ {missing}) :
          blocks' = blocks \cup sent
    /\ Finish(p)
    /\ UNCHANGED <<trees, cids, job, gone, result>>

\* removeDAGNode deletes the blocks in any order and stops at an error.
DeleteBlock(p) ==
    /\ at[p] = "deleting"
    /\ \E b \in todo[p], ok \in Succeeds("deleteBlock") :
          /\ blocks' = IF ok THEN blocks \ {b} ELSE blocks
          /\ IF ok /\ todo[p] # {b}
             THEN /\ todo' = [todo EXCEPT ![p] = @ \ {b}]
                  /\ UNCHANGED <<at, root>>
             ELSE Finish(p)
    /\ UNCHANGED <<trees, cids, job, gone, result>>

-----------------------------------------------------------------------------
(* GetFileTreeByChunk: the tree key, the cid key, a block of the data.     *)

ReadTree(p, c) ==
    /\ at[p] = "idle"
    /\ job' = [job EXCEPT ![p] = c]
    /\ gone' = [gone EXCEPT ![p] = FALSE]
    /\ IF c \in trees
       THEN Goto(p, "hasTree") /\ result' = [result EXCEPT ![p] = "none"]
       ELSE UNCHANGED at /\ result' = [result EXCEPT ![p] = "notFound"]
    /\ UNCHANGED <<disk, root, todo>>

ReadCid(p) ==
    /\ at[p] = "hasTree"
    /\ LET cid == cids[MerkleOf[job[p]]]
       IN  IF cid = NoCid
           THEN Goto(p, "idle") /\ result' = [result EXCEPT ![p] = "failed"] /\ UNCHANGED root
           ELSE Goto(p, "hasCid") /\ root' = [root EXCEPT ![p] = cid] /\ UNCHANGED result
    /\ UNCHANGED <<disk, job, todo, gone>>

\* The root and the block of the chunk are read.  One that is not in the
\* blockstore may come from a peer, and is then stored.
ReadBlock(p) ==
    /\ at[p] = "hasCid"
    /\ \E b \in Puts[root[p]] :
          LET wanted == {root[p], b}
          IN  \/ /\ wanted \subseteq blocks \cup Remote
                 /\ blocks' = blocks \cup wanted
                 /\ result' = [result EXCEPT ![p] = "served"]
              \/ /\ ~(wanted \subseteq blocks)
                 /\ result' = [result EXCEPT ![p] = "failed"]
                 /\ UNCHANGED blocks
    /\ Finish(p)
    /\ UNCHANGED <<trees, cids, job, gone>>

-----------------------------------------------------------------------------

\* The process stops and starts again: the disk stays, the goroutines go.
Crash ==
    /\ Crashes
    /\ \E p \in Procs : at[p] # "idle"
    /\ at' = [p \in Procs |-> "idle"]
    /\ root' = [p \in Procs |-> NoCid]
    /\ todo' = [p \in Procs |-> {}]
    /\ result' = [p \in Procs |-> "none"]
    /\ gone' = [p \in Procs |-> FALSE]
    /\ UNCHANGED <<disk, job>>

Write(p) ==
    \/ \E c \in Contracts : \E r \in Roots[MerkleOf[c]] : StartWrite(p, c, r)
    \/ PutBlock(p) \/ CommitWrite(p)

Delete(p) ==
    \/ \E c \in Contracts : StartDelete(p, c)
    \/ RemoveTree(p) \/ FindCid(p) \/ UnlinkCid(p) \/ Collect(p) \/ CollectFails(p)
    \/ DeleteBlock(p)

Read(p) == (\E c \in Contracts : ReadTree(p, c)) \/ ReadCid(p) \/ ReadBlock(p)

Next == Crash \/ \E p \in Procs : Write(p) \/ Delete(p) \/ Read(p)

Spec == Init /\ [][Next]_vars

\* ListUnusedCids: the blocks that no cid key leads to.
Unused == blocks \ UNION {Dag[cids[m]] : m \in {n \in Merkles : cids[n] # NoCid}}

-----------------------------------------------------------------------------
(* Properties                                                              *)

MaybeRoots(m) == Roots[m] \cup {NoCid}

TypeOK ==
    /\ trees \subseteq Contracts
    /\ cids \in [Merkles -> Blocks \cup {NoCid}]
    /\ \A m \in Merkles : cids[m] \in MaybeRoots(m)
    /\ blocks \subseteq Blocks
    /\ at \in [Procs -> Ats]
    /\ job \in [Procs -> Contracts]
    /\ root \in [Procs -> Blocks \cup {NoCid}]
    /\ \A p \in Procs : root[p] \in MaybeRoots(MerkleOf[job[p]])
    /\ \A p \in Procs :
          /\ at[p] \in {"adding", "collecting", "deleting", "hasCid"} => root[p] # NoCid
          /\ at[p] \in {"idle", "removing", "finding", "hasTree"} => root[p] = NoCid
    /\ todo \in [Procs -> SUBSET Blocks]
    /\ gone \in [Procs -> BOOLEAN]
    /\ result \in [Procs -> Outcomes]

\* A contract whose tree is on disk can be proven: its merkle has a cid, and what
\* the write stored is in the blockstore, whatever other writes and deletes
\* are half done or were cut short by a crash (file_system.go:147, 284, 339, 398).
Servable ==
    \A c \in trees :
        LET cid == cids[MerkleOf[c]]
        IN  cid # NoCid /\ Puts[cid] \subseteq blocks

\* The contracts whose data can be read, and what each goroutine has found.
Readable == {c \in trees : LET cid == cids[MerkleOf[c]]
                           IN  cid # NoCid /\ Puts[cid] \subseteq blocks}
Found == [p \in Procs |-> IF at[p] \in Reads THEN {job[p]} ELSE {}]

\* The file system implements Store: although the tree key, the cid key and each
\* block are written and deleted by themselves, a write or a delete makes one
\* contract readable or unreadable in one step, or none if it fails, and a read
\* of what was found fails only after a delete: a prover takes such an error for a
\* lost file and deletes the contract (file_system.go:104, 280, 501,
\* proofs.go:186-192).
Promise == INSTANCE Store WITH stored <- Readable, reading <- Found, lost <- gone
ActsAsStore == Promise!Spec

\* The cid of a merkle is dropped only when no contract of that merkle is left
\* ("check for other contracts with same file", file_system.go:296).
KeptWhileShared ==
    [][\A m \in Merkles : cids[m] # NoCid /\ cids'[m] = NoCid =>
          ~ \E c \in trees : MerkleOf[c] = m]_vars

-----------------------------------------------------------------------------
(* What the proofs of these properties rest on.                            *)

\* One contract for each merkle, no block of one file below the root of
\* another, one change of a merkle at a time, and no failure in a place where
\* the code goes on as if nothing had happened.
Sole ==
    /\ \A c, d \in Contracts : MerkleOf[c] = MerkleOf[d] => c = d
    /\ \A m, n \in Merkles : m # n =>
          \A r \in Roots[m], s \in Roots[n] : Dag[r] \cap Puts[s] = {}
    /\ ~Overlap
    /\ {"setCid", "removeTree"} \cap Faults = {}

OneChange ==
    \A p, q \in Procs :
        at[p] \in Changes /\ at[q] \in Changes /\ MerkleOf[job[p]] = MerkleOf[job[q]]
            => p = q

\* The blocks of a write are stored or yet to be.
WriteInv ==
    \A p \in Procs : at[p] = "adding" => Puts[root[p]] \ todo[p] \subseteq blocks

\* A delete has no tree key left once it goes for the data.
DeleteInv ==
    \A p \in Procs :
        /\ at[p] \in {"finding", "unlinking", "collecting", "deleting"} =>
              job[p] \notin trees
        /\ at[p] = "deleting" => todo[p] \subseteq Dag[root[p]]

\* What a read holds stays good until its contract is deleted.
ReadInv ==
    \A p \in Procs :
        /\ at[p] \in Reads /\ ~gone[p] => job[p] \in trees
        /\ at[p] = "hasCid" /\ ~gone[p] => Puts[root[p]] \subseteq blocks

\* A read that found the tree fails only when its contract was deleted in the
\* meantime: a prover takes such an error for a lost file and deletes the
\* contract (file_system.go:542, proofs.go:186-192).
FailsOnlyWhenGone ==
    \A p \in Procs : result[p] = "failed" => gone[p]

Inv ==
    /\ TypeOK
    /\ OneChange
    /\ WriteInv
    /\ DeleteInv
    /\ ReadInv
    /\ Servable
    /\ FailsOnlyWhenGone
=============================================================================
