----------------------------- MODULE Leftovers -----------------------------
(***************************************************************************)
(* What a provider's file system leaves behind.  The steps are those of    *)
(* FileStore; left and orphans record the few of them that leave blocks,   *)
(* or a cid key, that no contract will ever claim: a write or a delete     *)
(* that ends early, a crash, a file that is cut anew, a cid key dropped by *)
(* who did not find it there, a block that a peer sends to a reader.       *)
(***************************************************************************)
EXTENDS FileStore

VARIABLES
    left,     \* blocks that such a step has left, used again or not
    orphans   \* merkles whose cid key such a step has left

lvars == <<vars, left, orphans>>

LInit == Init /\ left = {} /\ orphans = {}

Leaves(bs, ms) == left' = left \cup bs /\ orphans' = orphans \cup ms

Mine(p) == MerkleOf[job[p]]
Data(cid) == IF cid = NoCid THEN {} ELSE Dag[cid]

\* The data of the cid key that the step replaces or drops.
Replaced(p) == IF cids'[Mine(p)] = cids[Mine(p)] THEN {} ELSE Data(cids[Mine(p)])

Ends(p) == at'[p] = "idle"

\* A write that cannot store a block or set its keys, and one that sets another
\* cid than there was.
WriteLeaves(p) ==
    \/ PutBlock(p) /\ Leaves(IF Ends(p) THEN Dag[root[p]] ELSE {}, {})
    \/ CommitWrite(p) /\ Leaves(IF cids'[Mine(p)] = root[p]
                                THEN Replaced(p) \ Dag[root[p]] ELSE Dag[root[p]], {})

\* A delete that cannot drop the cid key, drops another than it has found, does
\* not find every node of the data, or cannot delete a block.
DeleteLeaves(p) ==
    \/ UnlinkCid(p) /\ Leaves(IF cids[Mine(p)] = root[p] THEN {} ELSE Replaced(p),
                              IF cids'[Mine(p)] = NoCid THEN {} ELSE {Mine(p)})
    \/ CollectFails(p) /\ Leaves(Dag[root[p]], {})
    \/ DeleteBlock(p) /\ Leaves(IF Ends(p) THEN todo[p] \cap blocks' ELSE {}, {})

\* The blocks that a write or a delete answers for.
Held(p) ==
    CASE at[p] \in {"adding", "collecting"} -> Dag[root[p]]
      [] at[p] = "deleting" -> todo[p]
      [] OTHER -> {}

\* A block that a peer sends to a reader is stored.
ReadLeaves(p) == ReadBlock(p) /\ Leaves(blocks' \ blocks, {})

\* The process is killed in the middle of writes and deletes.
CrashLeaves ==
    /\ Crash
    /\ Leaves(UNION {Held(p) : p \in Procs},
              {Mine(p) : p \in {q \in Procs : at[q] \in {"finding", "unlinking"}}})

LeavesNone(p) ==
    /\ \/ \E c \in Contracts :
            \/ \E r \in Roots[MerkleOf[c]] : StartWrite(p, c, r)
            \/ StartDelete(p, c) \/ ReadTree(p, c)
       \/ RemoveTree(p) \/ FindCid(p) \/ Collect(p) \/ ReadCid(p)
    /\ Leaves({}, {})

LNext ==
    \/ CrashLeaves
    \/ \E p \in Procs : WriteLeaves(p) \/ DeleteLeaves(p) \/ ReadLeaves(p) \/ LeavesNone(p)

LSpec == LInit /\ [][LNext]_lvars

-----------------------------------------------------------------------------

\* When nothing is under way every block that no cid key leads to, and every cid
\* key without a contract, was left by one of those steps: in particular a write
\* or a delete that goes through leaves nothing, whatever else runs beside it
\* (file_system.go:147, 339, 397, ipfs.go:178).
NothingElseLeft ==
    (\A p \in Procs : at[p] \notin Changes) =>
        /\ Unused \subseteq left
        /\ \A m \in Merkles \ orphans :
              cids[m] # NoCid => \E c \in trees : MerkleOf[c] = m

\* Every other block belongs to a cid key, to a write that will set one, or to a
\* delete that will remove the block.
BlocksInv ==
    \A b \in blocks \ left :
        \/ \E m \in Merkles : cids[m] # NoCid /\ b \in Dag[cids[m]]
        \/ \E p \in Procs : b \in Held(p)

\* Every other cid key has a contract, or a delete that is about to drop it.
CidInv ==
    \A m \in Merkles \ orphans : cids[m] # NoCid =>
        \/ \E c \in trees : MerkleOf[c] = m
        \/ \E p \in Procs : at[p] \in {"finding", "unlinking"} /\ Mine(p) = m

\* A write adds blocks of its own file.
AddingInv == \A p \in Procs : at[p] = "adding" => todo[p] \subseteq Dag[root[p]]

LeftInv == BlocksInv /\ CidInv /\ AddingInv
=============================================================================
