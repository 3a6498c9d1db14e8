--------------------------- MODULE FileStoreProofs ---------------------------
(***************************************************************************)
(* Theorems about FileStore: the state is well formed, whatever fails and  *)
(* overlaps; and where each merkle has one contract and one change at a    *)
(* time (Sole), a contract on disk can be proven and a read that found its *)
(* tree fails only after a delete.  Both come from Inv, which also says    *)
(* what a write has stored, that a delete has dropped the tree key before  *)
(* it goes for the data, and that what a read holds stays good.  From Inv  *)
(* it follows that FileStore implements Store.  And whatever fails,        *)
(* overlaps or is cut short, what a quiet store holds without need was     *)
(* left by one of the steps that Leftovers names.                          *)
(***************************************************************************)
EXTENDS Leftovers, TLAPS

\* A root that a goroutine holds is one of its contract's merkle.
LEMMA RootOfJob ==
    ASSUME TypeOK, NEW p \in Procs, root[p] # NoCid
    PROVE  /\ MerkleOf[job[p]] \in Merkles
           /\ root[p] \in Roots[MerkleOf[job[p]]]
           /\ root[p] \in AllRoots
           /\ root[p] \in Puts[root[p]]
           /\ Puts[root[p]] \subseteq Dag[root[p]]
           /\ Dag[root[p]] \subseteq Blocks
<1>1. MerkleOf[job[p]] \in Merkles
  BY FileStoreAssumption DEF TypeOK
<1>2. root[p] \in Roots[MerkleOf[job[p]]]
  BY DEF TypeOK, MaybeRoots
<1>3. root[p] \in AllRoots
  BY <1>1, <1>2 DEF AllRoots
<1> QED  BY <1>1, <1>2, <1>3, FileStoreAssumption

\* The same of the cid of a contract.
LEMMA RootOfMerkle ==
    ASSUME TypeOK, NEW m \in Merkles, cids[m] # NoCid
    PROVE  /\ cids[m] \in Roots[m]
           /\ cids[m] \in AllRoots
           /\ Puts[cids[m]] \subseteq Dag[cids[m]]
<1>1. cids[m] \in Roots[m]
  BY DEF TypeOK, MaybeRoots
<1> QED  BY <1>1, FileStoreAssumption DEF AllRoots

-----------------------------------------------------------------------------
(* Type correctness                                                        *)

LEMMA TypeInit == Init => TypeOK
BY DEF Init, TypeOK, MaybeRoots, Ats, Outcomes

LEMMA TypeStep == TypeOK /\ [Next]_vars => TypeOK'
<1> SUFFICES ASSUME TypeOK, [Next]_vars
             PROVE  TypeOK'
  OBVIOUS
<1> USE FileStoreAssumption
<1>1. ASSUME NEW p \in Procs, NEW c \in Contracts, NEW r \in Roots[MerkleOf[c]],
             StartWrite(p, c, r)
      PROVE  TypeOK'
  <2>1. MerkleOf[c] \in Merkles /\ r \in AllRoots /\ r \in Blocks /\ r # NoCid
    BY DEF AllRoots
  <2>2. Puts[r] \subseteq Blocks
    BY <2>1
  <2> QED  BY <1>1, <2>1, <2>2 DEF StartWrite, Goto, disk, TypeOK, MaybeRoots, Ats
<1>2. ASSUME NEW p \in Procs, PutBlock(p)
      PROVE  TypeOK'
  BY <1>2 DEF PutBlock, Finish, Goto, TypeOK, MaybeRoots, Ats
<1>3. ASSUME NEW p \in Procs, CommitWrite(p)
      PROVE  TypeOK'
  <2>1. root[p] # NoCid /\ MerkleOf[job[p]] \in Merkles
    BY <1>3 DEF CommitWrite, TypeOK
  <2> QED  BY <1>3, <2>1 DEF CommitWrite, Finish, Goto, TypeOK, MaybeRoots, Ats
<1>4. ASSUME NEW p \in Procs, NEW c \in Contracts, StartDelete(p, c)
      PROVE  TypeOK'
  BY <1>4 DEF StartDelete, Goto, disk, TypeOK, MaybeRoots, Ats
<1>5. ASSUME NEW p \in Procs, RemoveTree(p)
      PROVE  TypeOK'
  <2>1. gone' \in [Procs -> BOOLEAN]
    BY <1>5, Zenon DEF RemoveTree, TypeOK
  <2> QED  BY <1>5, <2>1 DEF RemoveTree, Goto, TypeOK, MaybeRoots, Ats
<1>6. ASSUME NEW p \in Procs, FindCid(p)
      PROVE  TypeOK'
  <2>1. MerkleOf[job[p]] \in Merkles
    BY DEF TypeOK
  <2> QED  BY <1>6, <2>1 DEF FindCid, Goto, disk, TypeOK, MaybeRoots, Ats
<1>7. ASSUME NEW p \in Procs, UnlinkCid(p)
      PROVE  TypeOK'
  <2>1. MerkleOf[job[p]] \in Merkles
    BY DEF TypeOK
  <2> QED  BY <1>7, <2>1 DEF UnlinkCid, Finish, Goto, TypeOK, MaybeRoots, Ats
<1>8. ASSUME NEW p \in Procs, Collect(p)
      PROVE  TypeOK'
  <2>1. Dag[root[p]] \subseteq Blocks
    BY <1>8, RootOfJob DEF Collect, TypeOK
  <2> QED  BY <1>8, <2>1 DEF Collect, Goto, TypeOK, MaybeRoots, Ats
<1>9. ASSUME NEW p \in Procs, CollectFails(p)
      PROVE  TypeOK'
  BY <1>9 DEF CollectFails, Finish, Goto, TypeOK, MaybeRoots, Ats
<1>10. ASSUME NEW p \in Procs, DeleteBlock(p)
       PROVE  TypeOK'
  BY <1>10 DEF DeleteBlock, Finish, Goto, TypeOK, MaybeRoots, Ats
<1>11. ASSUME NEW p \in Procs, NEW c \in Contracts, ReadTree(p, c)
       PROVE  TypeOK'
  BY <1>11 DEF ReadTree, Goto, disk, TypeOK, MaybeRoots, Ats, Outcomes
<1>12. ASSUME NEW p \in Procs, ReadCid(p)
       PROVE  TypeOK'
  <2>1. MerkleOf[job[p]] \in Merkles
    BY DEF TypeOK
  <2> QED  BY <1>12, <2>1 DEF ReadCid, Goto, disk, TypeOK, MaybeRoots, Ats, Outcomes
<1>13. ASSUME NEW p \in Procs, ReadBlock(p)
       PROVE  TypeOK'
  <2>1. root[p] # NoCid
    BY <1>13 DEF ReadBlock, TypeOK
  <2>2. blocks' \subseteq Blocks /\ result' \in [Procs -> Outcomes]
    BY <1>13, <2>1, RootOfJob DEF ReadBlock, TypeOK, Outcomes
  <2> QED  BY <1>13, <2>2 DEF ReadBlock, Finish, Goto, disk, TypeOK, MaybeRoots, Ats
<1>14. CASE Crash
  BY <1>14 DEF Crash, disk, TypeOK, MaybeRoots, Ats, Outcomes
<1>15. CASE UNCHANGED vars
  BY <1>15 DEF vars, disk, local, TypeOK, MaybeRoots
<1> QED
  BY <1>1, <1>2, <1>3, <1>4, <1>5, <1>6, <1>7, <1>8, <1>9, <1>10, <1>11, <1>12,
     <1>13, <1>14, <1>15 DEF Next, Write, Delete, Read

\* The state is well formed: a goroutine that adds, deletes or reads blocks holds
\* a root cid of its own contract's merkle (file_system.go:104-404, 501-573).
THEOREM TypeCorrect == Spec => []TypeOK
BY TypeInit, TypeStep, PTL DEF Spec

-----------------------------------------------------------------------------
(* What a contract needs stays on disk                                     *)

LEMMA SafeInit == Init => Inv
<1> SUFFICES ASSUME Init
             PROVE  Inv
  OBVIOUS
<1>1. TypeOK
  BY TypeInit
<1>2. OneChange /\ WriteInv /\ DeleteInv /\ ReadInv
  BY DEF Init, OneChange, WriteInv, DeleteInv, ReadInv, Changes, Reads
<1>3. Servable /\ FailsOnlyWhenGone
  BY DEF Init, Servable, FailsOnlyWhenGone
<1> QED  BY <1>1, <1>2, <1>3 DEF Inv

\* A block that a delete may remove is none that another merkle's file needs.
LEMMA Apart ==
    ASSUME Sole, NEW m \in Merkles, NEW n \in Merkles, m # n,
           NEW r \in Roots[m], NEW s \in Roots[n], NEW b \in Dag[r]
    PROVE  b \notin Puts[s]
BY DEF Sole

\* A step that starts a change finds no other of that merkle.
LEMMA StartAlone ==
    ASSUME Sole, OneChange, NEW p \in Procs, NEW c \in Contracts, MayChange(c),
           at[p] = "idle", at' = [at EXCEPT ![p] = at'[p]],
           job' = [job EXCEPT ![p] = c], TypeOK
    PROVE  OneChange'
<1>1. \A q \in Procs : at[q] \in Changes => MerkleOf[job[q]] # MerkleOf[c]
  BY DEF MayChange, Sole
<1>2. \A q \in Procs : q # p => at'[q] = at[q] /\ job'[q] = job[q]
  BY DEF TypeOK
<1>3. job'[p] = c
  BY DEF TypeOK
<1> QED  BY <1>1, <1>2, <1>3 DEF OneChange

\* A step that starts no change leaves at most one of each merkle.
LEMMA NoStart ==
    ASSUME OneChange,
           \A q \in Procs : at'[q] \in Changes => at[q] \in Changes /\ job'[q] = job[q]
    PROVE  OneChange'
BY DEF OneChange

LEMMA SafeStep ==
    ASSUME Sole, Inv, [Next]_vars
    PROVE  Inv'
<1> USE FileStoreAssumption
<1>0. /\ TypeOK /\ OneChange /\ WriteInv /\ DeleteInv /\ ReadInv /\ Servable
      /\ FailsOnlyWhenGone
  BY DEF Inv
<1>t. TypeOK'
  BY <1>0, TypeStep
<1>1. ASSUME NEW p \in Procs, NEW c \in Contracts, NEW r \in Roots[MerkleOf[c]],
             StartWrite(p, c, r)
      PROVE  Inv'
  <2> USE <1>0, <1>1
  <2>1. OneChange'
    BY StartAlone DEF StartWrite, Goto, TypeOK
  <2>2. WriteInv'
    BY DEF StartWrite, Goto, disk, WriteInv, TypeOK
  <2>3. DeleteInv'
    BY DEF StartWrite, Goto, disk, DeleteInv, TypeOK
  <2>4. ReadInv'
    BY DEF StartWrite, Goto, disk, ReadInv, Reads, TypeOK
  <2>5. Servable' /\ FailsOnlyWhenGone'
    BY DEF StartWrite, disk, Servable, FailsOnlyWhenGone
  <2> QED  BY <1>t, <2>1, <2>2, <2>3, <2>4, <2>5 DEF Inv
<1>2. ASSUME NEW p \in Procs, PutBlock(p)
      PROVE  Inv'
  <2> USE <1>0, <1>2
  <2>1. OneChange'
    BY NoStart DEF PutBlock, Finish, Goto, Changes, TypeOK
  <2>2. WriteInv'
    BY DEF PutBlock, Finish, Goto, WriteInv, TypeOK
  <2>3. DeleteInv'
    BY DEF PutBlock, Finish, Goto, DeleteInv, TypeOK
  <2>4. ReadInv'
    BY DEF PutBlock, Finish, Goto, ReadInv, Reads, TypeOK
  <2>5. Servable' /\ FailsOnlyWhenGone'
    BY DEF PutBlock, Finish, Servable, FailsOnlyWhenGone
  <2> QED  BY <1>t, <2>1, <2>2, <2>3, <2>4, <2>5 DEF Inv
<1>3. ASSUME NEW p \in Procs, CommitWrite(p)
      PROVE  Inv'
  <2> USE <1>0, <1>3
  <2>1. OneChange'
    BY NoStart DEF CommitWrite, Finish, Goto, Changes, TypeOK
  <2>2. WriteInv'
    BY DEF CommitWrite, Finish, Goto, WriteInv, TypeOK
  <2>3. DeleteInv'
    <3>1. \A q \in Procs : q # p /\ at[q] \in Changes => job[q] # job[p]
      BY DEF CommitWrite, OneChange, Changes
    <3>2. trees' \subseteq trees \cup {job[p]}
      BY DEF CommitWrite
    <3> QED  BY <3>1, <3>2 DEF CommitWrite, Finish, Goto, DeleteInv, Changes, TypeOK
  <2>4. ReadInv'
    BY DEF CommitWrite, Finish, Goto, ReadInv, Reads, TypeOK
  <2>5. Servable'
    <3>1. MerkleOf[job[p]] \in Merkles /\ job[p] \in Contracts
      BY DEF TypeOK
    <3>2. root[p] # NoCid /\ Puts[root[p]] \subseteq blocks
      BY DEF CommitWrite, WriteInv, TypeOK
    <3>3. CASE UNCHANGED <<trees, cids>>
      BY <3>3 DEF CommitWrite, Servable
    <3>4. CASE /\ trees' = trees \cup {job[p]}
               /\ cids' = [cids EXCEPT ![MerkleOf[job[p]]] = root[p]]
      <4> SUFFICES ASSUME NEW c \in trees'
                   PROVE  cids'[MerkleOf[c]] # NoCid /\ Puts[cids'[MerkleOf[c]]] \subseteq blocks
        BY DEF CommitWrite, Servable
      <4>1. c \in Contracts /\ MerkleOf[c] \in Merkles
        BY <3>1, <3>4 DEF TypeOK
      <4>2. CASE c = job[p]
        BY <3>1, <3>2, <3>4, <4>2 DEF TypeOK
      <4>3. CASE c # job[p]
        BY <3>1, <3>4, <4>1, <4>3 DEF Sole, Servable, TypeOK
      <4> QED  BY <4>2, <4>3
    <3> QED  BY <3>3, <3>4 DEF CommitWrite, Succeeds, Sole
  <2>6. FailsOnlyWhenGone'
    BY DEF CommitWrite, FailsOnlyWhenGone
  <2> QED  BY <1>t, <2>1, <2>2, <2>3, <2>4, <2>5, <2>6 DEF Inv
<1>4. ASSUME NEW p \in Procs, NEW c \in Contracts, StartDelete(p, c)
      PROVE  Inv'
  <2> USE <1>0, <1>4
  <2>1. OneChange'
    BY StartAlone DEF StartDelete, Goto, TypeOK
  <2>2. WriteInv'
    BY DEF StartDelete, Goto, disk, WriteInv, TypeOK
  <2>3. DeleteInv'
    BY DEF StartDelete, Goto, disk, DeleteInv, TypeOK
  <2>4. ReadInv'
    BY DEF StartDelete, Goto, disk, ReadInv, Reads, TypeOK
  <2>5. Servable' /\ FailsOnlyWhenGone'
    BY DEF StartDelete, disk, Servable, FailsOnlyWhenGone
  <2> QED  BY <1>t, <2>1, <2>2, <2>3, <2>4, <2>5 DEF Inv
<1>5. ASSUME NEW p \in Procs, RemoveTree(p)
      PROVE  Inv'
  <2> USE <1>0, <1>5
  <2>0. /\ trees' = trees \ {job[p]}
        /\ \A q \in Procs : gone'[q] <=> gone[q] \/ (at[q] \in Reads /\ job[q] = job[p])
    BY DEF RemoveTree, Succeeds, Sole
  <2>1. OneChange'
    BY NoStart DEF RemoveTree, Goto, Changes, TypeOK
  <2>2. WriteInv'
    BY DEF RemoveTree, Goto, WriteInv, TypeOK
  <2>3. DeleteInv'
    BY <2>0 DEF RemoveTree, Goto, DeleteInv, TypeOK
  <2>4. ReadInv'
    BY <2>0 DEF RemoveTree, Goto, ReadInv, Reads, TypeOK
  <2>5. Servable' /\ FailsOnlyWhenGone'
    BY <2>0 DEF RemoveTree, Servable, FailsOnlyWhenGone
  <2> QED  BY <1>t, <2>1, <2>2, <2>3, <2>4, <2>5 DEF Inv
<1>6. ASSUME NEW p \in Procs, FindCid(p)
      PROVE  Inv'
  <2> USE <1>0, <1>6
  <2>1. OneChange'
    BY NoStart DEF FindCid, Goto, Changes, TypeOK
  <2>2. WriteInv'
    BY DEF FindCid, Goto, disk, WriteInv, TypeOK
  <2>3. DeleteInv'
    BY DEF FindCid, Goto, disk, DeleteInv, TypeOK
  <2>4. ReadInv'
    BY DEF FindCid, Goto, disk, ReadInv, Reads, TypeOK
  <2>5. Servable' /\ FailsOnlyWhenGone'
    BY DEF FindCid, disk, Servable, FailsOnlyWhenGone
  <2> QED  BY <1>t, <2>1, <2>2, <2>3, <2>4, <2>5 DEF Inv
<1>7. ASSUME NEW p \in Procs, UnlinkCid(p)
      PROVE  Inv'
  <2> USE <1>0, <1>7
  <2>1. OneChange'
    BY NoStart DEF UnlinkCid, Finish, Goto, Changes, TypeOK
  <2>2. WriteInv'
    BY DEF UnlinkCid, Finish, Goto, WriteInv, TypeOK
  <2>3. DeleteInv'
    BY DEF UnlinkCid, Finish, Goto, DeleteInv, TypeOK
  <2>4. ReadInv'
    BY DEF UnlinkCid, Finish, Goto, ReadInv, Reads, TypeOK
  <2>5. Servable'
    <3>1. job[p] \in Contracts /\ job[p] \notin trees
      BY DEF UnlinkCid, DeleteInv, TypeOK
    <3>2. \A c \in trees : MerkleOf[c] # MerkleOf[job[p]] /\ MerkleOf[c] \in Merkles
      BY <3>1 DEF Sole, TypeOK
    <3>3. \A c \in trees : cids'[MerkleOf[c]] = cids[MerkleOf[c]]
      BY <3>2 DEF UnlinkCid, TypeOK
    <3> QED  BY <3>3 DEF UnlinkCid, Servable
  <2>6. FailsOnlyWhenGone'
    BY DEF UnlinkCid, FailsOnlyWhenGone
  <2> QED  BY <1>t, <2>1, <2>2, <2>3, <2>4, <2>5, <2>6 DEF Inv
<1>8. ASSUME NEW p \in Procs, Collect(p)
      PROVE  Inv'
  <2> USE <1>0, <1>8
  <2>1. OneChange'
    BY NoStart DEF Collect, Goto, Changes, TypeOK
  <2>2. WriteInv'
    BY DEF Collect, Goto, WriteInv, TypeOK
  <2>3. DeleteInv'
    BY DEF Collect, Goto, DeleteInv, TypeOK
  <2>4. ReadInv'
    BY DEF Collect, Goto, ReadInv, Reads, TypeOK
  <2>5. Servable' /\ FailsOnlyWhenGone'
    BY DEF Collect, Servable, FailsOnlyWhenGone
  <2> QED  BY <1>t, <2>1, <2>2, <2>3, <2>4, <2>5 DEF Inv
<1>9. ASSUME NEW p \in Procs, CollectFails(p)
      PROVE  Inv'
  <2> USE <1>0, <1>9
  <2>0. blocks \subseteq blocks'
    BY DEF CollectFails
  <2>1. OneChange'
    BY NoStart DEF CollectFails, Finish, Goto, Changes, TypeOK
  <2>2. WriteInv'
    BY <2>0 DEF CollectFails, Finish, Goto, WriteInv, TypeOK
  <2>3. DeleteInv'
    BY DEF CollectFails, Finish, Goto, DeleteInv, TypeOK
  <2>4. ReadInv'
    BY <2>0 DEF CollectFails, Finish, Goto, ReadInv, Reads, TypeOK
  <2>5. Servable' /\ FailsOnlyWhenGone'
    BY <2>0 DEF CollectFails, Servable, FailsOnlyWhenGone
  <2> QED  BY <1>t, <2>1, <2>2, <2>3, <2>4, <2>5 DEF Inv
<1>10. ASSUME NEW p \in Procs, DeleteBlock(p)
       PROVE  Inv'
  <2> USE <1>0, <1>10
  <2>0. PICK b \in todo[p] : blocks \ {b} \subseteq blocks'
    BY DEF DeleteBlock
  <2>1. /\ job[p] \in Contracts /\ MerkleOf[job[p]] \in Merkles /\ job[p] \notin trees
        /\ root[p] \in Roots[MerkleOf[job[p]]] /\ b \in Dag[root[p]]
    BY <2>0, RootOfJob DEF DeleteBlock, DeleteInv, TypeOK
  <2>2. \A m \in Merkles \ {MerkleOf[job[p]]} : \A s \in Roots[m] : b \notin Puts[s]
    BY <2>1, Apart
  <2>3. OneChange'
    BY NoStart DEF DeleteBlock, Finish, Goto, Changes, TypeOK
  <2>4. WriteInv'
    <3> SUFFICES ASSUME NEW q \in Procs, at'[q] = "adding"
                 PROVE  Puts[root'[q]] \ todo'[q] \subseteq blocks'
      BY DEF WriteInv
    <3>1. q # p /\ at[q] = "adding" /\ root'[q] = root[q] /\ todo'[q] = todo[q]
      BY DEF DeleteBlock, Finish, Goto, TypeOK
    <3>2. root[q] # NoCid
      BY <3>1 DEF TypeOK
    <3>3. MerkleOf[job[q]] # MerkleOf[job[p]]
      BY <3>1 DEF DeleteBlock, OneChange, Changes
    <3>4. b \notin Puts[root[q]]
      BY <2>2, <3>2, <3>3, RootOfJob
    <3> QED  BY <2>0, <3>1, <3>4 DEF WriteInv
  <2>5. DeleteInv'
    BY DEF DeleteBlock, Finish, Goto, DeleteInv, TypeOK
  <2>6. ReadInv'
    <3> SUFFICES ASSUME NEW q \in Procs, at'[q] \in Reads, ~gone'[q]
                 PROVE  /\ job'[q] \in trees'
                        /\ at'[q] = "hasCid" => Puts[root'[q]] \subseteq blocks'
      BY DEF ReadInv, Reads
    <3>1. /\ q # p /\ at'[q] = at[q] /\ root'[q] = root[q] /\ job'[q] = job[q]
          /\ gone'[q] = gone[q] /\ trees' = trees
      BY DEF DeleteBlock, Finish, Goto, Reads, TypeOK
    <3>2. job[q] \in trees /\ job[q] \in Contracts
      BY <3>1 DEF ReadInv, TypeOK
    <3>3. MerkleOf[job[q]] # MerkleOf[job[p]]
      BY <2>1, <3>2 DEF Sole
    <3>4. CASE at[q] = "hasCid"
      <4>1. root[q] # NoCid
        BY <3>4 DEF TypeOK
      <4>2. b \notin Puts[root[q]]
        BY <2>2, <3>3, <4>1, RootOfJob
      <4>3. Puts[root[q]] \subseteq blocks
        BY <3>1, <3>4 DEF ReadInv
      <4> QED  BY <2>0, <3>1, <3>2, <4>2, <4>3
    <3> QED  BY <3>1, <3>2, <3>4
  <2>7. Servable'
    <3> SUFFICES ASSUME NEW c \in trees
                 PROVE  cids[MerkleOf[c]] # NoCid /\ Puts[cids[MerkleOf[c]]] \subseteq blocks'
      BY DEF DeleteBlock, Servable
    <3>1. c \in Contracts /\ MerkleOf[c] \in Merkles /\ MerkleOf[c] # MerkleOf[job[p]]
      BY <2>1 DEF Sole, TypeOK
    <3>2. cids[MerkleOf[c]] # NoCid /\ Puts[cids[MerkleOf[c]]] \subseteq blocks
      BY DEF Servable
    <3>3. b \notin Puts[cids[MerkleOf[c]]]
      BY <2>2, <3>1, <3>2, RootOfMerkle
    <3> QED  BY <2>0, <3>2, <3>3
  <2>8. FailsOnlyWhenGone'
    BY DEF DeleteBlock, FailsOnlyWhenGone
  <2> QED  BY <1>t, <2>3, <2>4, <2>5, <2>6, <2>7, <2>8 DEF Inv
<1>11. ASSUME NEW p \in Procs, NEW c \in Contracts, ReadTree(p, c)
       PROVE  Inv'
  <2> USE <1>0, <1>11
  <2>1. OneChange'
    BY NoStart DEF ReadTree, Goto, Changes, TypeOK
  <2>2. WriteInv'
    BY DEF ReadTree, Goto, disk, WriteInv, TypeOK
  <2>3. DeleteInv'
    BY DEF ReadTree, Goto, disk, DeleteInv, TypeOK
  <2>4. ReadInv'
    BY DEF ReadTree, Goto, disk, ReadInv, Reads, TypeOK
  <2>5. Servable'
    BY DEF ReadTree, disk, Servable
  <2>6. FailsOnlyWhenGone'
    BY DEF ReadTree, FailsOnlyWhenGone, TypeOK
  <2> QED  BY <1>t, <2>1, <2>2, <2>3, <2>4, <2>5, <2>6 DEF Inv
<1>12. ASSUME NEW p \in Procs, ReadCid(p)
       PROVE  Inv'
  <2> USE <1>0, <1>12
  <2>0. ~gone[p] => /\ cids[MerkleOf[job[p]]] # NoCid
                    /\ Puts[cids[MerkleOf[job[p]]]] \subseteq blocks
    BY DEF ReadCid, ReadInv, Reads, Servable
  <2>1. OneChange'
    BY NoStart DEF ReadCid, Goto, Changes, TypeOK
  <2>2. WriteInv'
    BY DEF ReadCid, Goto, disk, WriteInv, TypeOK
  <2>3. DeleteInv'
    BY DEF ReadCid, Goto, disk, DeleteInv, TypeOK
  <2>4. ReadInv'
    BY <2>0 DEF ReadCid, Goto, disk, ReadInv, Reads, TypeOK
  <2>5. Servable'
    BY DEF ReadCid, disk, Servable
  <2>6. FailsOnlyWhenGone'
    BY <2>0 DEF ReadCid, FailsOnlyWhenGone, TypeOK
  <2> QED  BY <1>t, <2>1, <2>2, <2>3, <2>4, <2>5, <2>6 DEF Inv
<1>13. ASSUME NEW p \in Procs, ReadBlock(p)
       PROVE  Inv'
  <2> USE <1>0, <1>13
  <2>0. blocks \subseteq blocks'
    BY DEF ReadBlock
  <2>1. OneChange'
    BY NoStart DEF ReadBlock, Finish, Goto, Changes, TypeOK
  <2>2. WriteInv'
    BY <2>0 DEF ReadBlock, Finish, Goto, WriteInv, TypeOK
  <2>3. DeleteInv'
    BY DEF ReadBlock, Finish, Goto, DeleteInv, TypeOK
  <2>4. ReadInv'
    BY <2>0 DEF ReadBlock, Finish, Goto, ReadInv, Reads, TypeOK
  <2>5. Servable'
    BY <2>0 DEF ReadBlock, Servable
  <2>6. FailsOnlyWhenGone'
    <3>1. root[p] \in Puts[root[p]]
      BY RootOfJob DEF ReadBlock, TypeOK
    <3>2. ~gone[p] => Puts[root[p]] \subseteq blocks
      BY DEF ReadBlock, ReadInv
    <3>3. result'[p] = "failed" => gone[p]
      BY <3>1, <3>2 DEF ReadBlock, TypeOK
    <3> QED  BY <3>3 DEF ReadBlock, FailsOnlyWhenGone, TypeOK
  <2> QED  BY <1>t, <2>1, <2>2, <2>3, <2>4, <2>5, <2>6 DEF Inv
<1>14. CASE Crash
  <2> USE <1>0, <1>14
  <2>1. OneChange' /\ WriteInv' /\ DeleteInv' /\ ReadInv'
    BY DEF Crash, OneChange, WriteInv, DeleteInv, ReadInv, Changes, Reads
  <2>2. Servable' /\ FailsOnlyWhenGone'
    BY DEF Crash, disk, Servable, FailsOnlyWhenGone
  <2> QED  BY <1>t, <2>1, <2>2 DEF Inv
<1>15. CASE UNCHANGED vars
  <2> USE <1>0, <1>15 DEF vars, disk, local
  <2>1. OneChange' /\ WriteInv' /\ DeleteInv' /\ ReadInv'
    BY DEF OneChange, WriteInv, DeleteInv, ReadInv
  <2>2. Servable' /\ FailsOnlyWhenGone'
    BY DEF Servable, FailsOnlyWhenGone
  <2> QED  BY <1>t, <2>1, <2>2 DEF Inv
<1> QED
  BY <1>1, <1>2, <1>3, <1>4, <1>5, <1>6, <1>7, <1>8, <1>9, <1>10, <1>11, <1>12,
     <1>13, <1>14, <1>15 DEF Next, Write, Delete, Read

\* Where each merkle has one contract and changes one at a time, a contract
\* whose tree is on disk has its cid and its blocks there, at every moment of
\* every write, delete and crash (file_system.go:147, 284, 339, 398).
THEOREM DataStays == Sole => (Spec => []Servable)
<1> SUFFICES ASSUME Sole
             PROVE  Spec => []Servable
  OBVIOUS
<1>1. Inv /\ [Next]_vars => Inv'
  BY SafeStep
<1>2. Inv => Servable
  BY DEF Inv
<1> QED  BY SafeInit, <1>1, <1>2, PTL DEF Spec

\* There a read that found the tree fails only after a delete of its contract
\* (file_system.go:542, proofs.go:186-192).
THEOREM FailureMeansDeleted == Sole => (Spec => []FailsOnlyWhenGone)
<1> SUFFICES ASSUME Sole
             PROVE  Spec => []FailsOnlyWhenGone
  OBVIOUS
<1>1. Inv /\ [Next]_vars => Inv'
  BY SafeStep
<1>2. Inv => FailsOnlyWhenGone
  BY DEF Inv
<1> QED  BY SafeInit, <1>1, <1>2, PTL DEF Spec

-----------------------------------------------------------------------------
(* What is left behind                                                     *)

\* The steps of Leftovers are steps of the file system.
LEMMA LeavesIsStep == ASSUME [LNext]_lvars PROVE [Next]_vars
BY DEF LNext, lvars, WriteLeaves, DeleteLeaves, ReadLeaves, CrashLeaves, LeavesNone, Next,
   Write, Delete, Read

LEMMA LeftInit == LInit => LeftInv
BY DEF LInit, Init, LeftInv, BlocksInv, CidInv, AddingInv

\* A goroutine that does not move goes on holding what it holds.
LEMMA StillHeld ==
    ASSUME NEW q, at'[q] = at[q], root'[q] = root[q], todo'[q] = todo[q]
    PROVE  Held(q)' = Held(q)
BY DEF Held

\* A step that changes no cid key accounts for what it stores and what it drops.
LEMMA BlocksKept ==
    ASSUME BlocksInv, cids' = cids, left \subseteq left',
           \A b \in blocks' \ (blocks \cup left') : \E p \in Procs : b \in Held(p)',
           \A p \in Procs : Held(p) \cap blocks' \subseteq left' \cup Held(p)'
    PROVE  BlocksInv'
<1> SUFFICES ASSUME NEW b \in blocks' \ left'
             PROVE  \/ \E m \in Merkles : cids[m] # NoCid /\ b \in Dag[cids[m]]
                    \/ \E p \in Procs : b \in Held(p)'
  BY DEF BlocksInv
<1>1. CASE b \in blocks
  BY <1>1 DEF BlocksInv
<1>2. CASE b \notin blocks
  BY <1>2
<1> QED  BY <1>1, <1>2

\* A step that touches no key goes on with a delete, or orphans its key.
LEMMA CidKept ==
    ASSUME CidInv, UNCHANGED <<trees, cids>>, orphans \subseteq orphans',
           \A p \in Procs : at[p] \in {"finding", "unlinking"} =>
               \/ at'[p] \in {"finding", "unlinking"} /\ job'[p] = job[p]
               \/ Mine(p) \in orphans'
    PROVE  CidInv'
<1> SUFFICES ASSUME NEW m \in Merkles \ orphans', cids[m] # NoCid,
                    ~ \E c \in trees : MerkleOf[c] = m
             PROVE  \E p \in Procs : at'[p] \in {"finding", "unlinking"} /\ Mine(p)' = m
  BY DEF CidInv
<1>1. PICK p \in Procs : at[p] \in {"finding", "unlinking"} /\ Mine(p) = m
  BY DEF CidInv
<1> QED  BY <1>1 DEF Mine

\* A step of one goroutine leaves the others where they are.
Others(p) == \A q \in Procs \ {p} : /\ at'[q] = at[q] /\ job'[q] = job[q]
                                    /\ root'[q] = root[q] /\ todo'[q] = todo[q]

LEMMA LeftStart ==
    ASSUME TypeOK, LeftInv, NEW p \in Procs, NEW c \in Contracts, Leaves({}, {}),
           \/ \E r \in Roots[MerkleOf[c]] : StartWrite(p, c, r)
           \/ StartDelete(p, c) \/ ReadTree(p, c)
    PROVE  LeftInv'
<1>1. at[p] = "idle" /\ UNCHANGED disk /\ Others(p)
  BY DEF StartWrite, StartDelete, ReadTree, Goto, Others, TypeOK
<1>2. left' = left /\ orphans' = orphans
  BY DEF Leaves
<1>3. Held(p) = {}
  BY <1>1 DEF Held
<1>4. BlocksInv'
  BY <1>1, <1>2, <1>3, BlocksKept, StillHeld DEF LeftInv, disk, Others
<1>5. CidInv'
  BY <1>1, <1>2, CidKept DEF LeftInv, disk, Others
<1>6. at'[p] = "adding" => todo'[p] \subseteq Dag[root'[p]]
  <2> SUFFICES ASSUME at'[p] = "adding"
               PROVE  todo'[p] \subseteq Dag[root'[p]]
    OBVIOUS
  <2>1. PICK r \in Roots[MerkleOf[c]] : StartWrite(p, c, r)
    BY DEF StartDelete, ReadTree, Goto, TypeOK
  <2>2. r \in AllRoots
    BY FileStoreAssumption DEF AllRoots
  <2>3. todo'[p] = Puts[r] /\ root'[p] = r
    BY <2>1 DEF StartWrite, TypeOK
  <2> QED  BY <2>2, <2>3, FileStoreAssumption
<1>7. AddingInv'
  BY <1>1, <1>6 DEF LeftInv, AddingInv, Others
<1> QED  BY <1>4, <1>5, <1>7 DEF LeftInv

LEMMA LeftPut ==
    ASSUME TypeOK, LeftInv, NEW p \in Procs, PutBlock(p),
           Leaves(IF Ends(p) THEN Dag[root[p]] ELSE {}, {})
    PROVE  LeftInv'
<1>1. /\ at[p] = "adding" /\ UNCHANGED <<trees, cids, job>> /\ Others(p)
      /\ left \subseteq left' /\ orphans' = orphans
  BY DEF PutBlock, Finish, Goto, Leaves, Others, TypeOK
<1>2. Held(p) = Dag[root[p]] /\ todo[p] \subseteq Dag[root[p]]
  BY <1>1 DEF Held, LeftInv, AddingInv
<1>3. CidInv'
  BY <1>1, CidKept DEF LeftInv, Others
<1>4. CASE Ends(p)
  <2>1. blocks' = blocks /\ Dag[root[p]] \subseteq left' /\ at'[p] = "idle"
    BY <1>1, <1>4 DEF PutBlock, Ends, Leaves
  <2>2. BlocksInv'
    BY <1>1, <1>2, <2>1, BlocksKept, StillHeld DEF LeftInv, Others
  <2>3. AddingInv'
    BY <1>1, <2>1 DEF LeftInv, AddingInv, Others
  <2> QED  BY <1>3, <2>2, <2>3 DEF LeftInv
<1>5. CASE ~Ends(p)
  <2>1. PICK b \in todo[p] : /\ blocks' = blocks \cup {b} /\ todo'[p] = todo[p] \ {b}
                             /\ UNCHANGED <<at, root>>
    BY <1>5 DEF PutBlock, Finish, Goto, Ends, TypeOK
  <2>2. Held(p)' = Dag[root[p]]
    BY <1>1, <2>1 DEF Held
  <2>3. BlocksInv'
    BY <1>1, <1>2, <2>1, <2>2, BlocksKept, StillHeld DEF LeftInv, Others
  <2>4. AddingInv'
    BY <1>1, <1>2, <2>1 DEF LeftInv, AddingInv, Others
  <2> QED  BY <1>3, <2>3, <2>4 DEF LeftInv
<1> QED  BY <1>4, <1>5

LEMMA LeftCommit ==
    ASSUME TypeOK, LeftInv, NEW p \in Procs, CommitWrite(p),
           Leaves(IF cids'[Mine(p)] = root[p]
                  THEN Replaced(p) \ Dag[root[p]] ELSE Dag[root[p]], {})
    PROVE  LeftInv'
<1> DEFINE m == Mine(p)
<1>1. /\ at[p] = "adding" /\ at'[p] = "idle" /\ UNCHANGED <<blocks, job>> /\ Others(p)
      /\ left \subseteq left' /\ orphans' = orphans /\ trees \subseteq trees'
  BY DEF CommitWrite, Finish, Goto, Leaves, Others, TypeOK
<1>2. Held(p) = Dag[root[p]] /\ root[p] # NoCid /\ m \in Merkles /\ MerkleOf[job[p]] = m
  BY <1>1, FileStoreAssumption DEF Held, Mine, TypeOK
<1>3. \/ cids' = cids
      \/ cids' = [cids EXCEPT ![m] = root[p]] /\ job[p] \in trees'
  BY DEF CommitWrite, Mine
<1>4. \A n \in Merkles \ {m} : cids'[n] = cids[n]
  BY <1>3 DEF TypeOK
<1>5. cids'[m] = cids[m] \/ (cids'[m] = root[p] /\ job[p] \in trees')
  BY <1>2, <1>3 DEF TypeOK
<1>6. left' = left \cup (IF cids'[m] = root[p]
                         THEN Replaced(p) \ Dag[root[p]] ELSE Dag[root[p]])
  BY DEF Leaves
<1>7. Replaced(p) = IF cids'[m] = cids[m] THEN {} ELSE Data(cids[m])
  BY DEF Replaced
<1> HIDE DEF m
<1>8. BlocksInv'
  <2> SUFFICES ASSUME NEW b \in blocks \ left'
               PROVE  \/ \E n \in Merkles : cids'[n] # NoCid /\ b \in Dag[cids'[n]]
                      \/ \E q \in Procs : b \in Held(q)'
    BY <1>1 DEF BlocksInv
  <2>1. CASE b \in Dag[root[p]]
    BY <1>2, <1>6, <2>1
  <2>2. CASE b \notin Dag[root[p]]
    <3>1. CASE \E n \in Merkles : cids[n] # NoCid /\ b \in Dag[cids[n]]
      <4>1. PICK n \in Merkles : cids[n] # NoCid /\ b \in Dag[cids[n]]
        BY <3>1
      <4>2. cids'[n] = cids[n]
        BY <1>2, <1>4, <1>5, <1>6, <1>7, <2>2, <4>1 DEF Data
      <4> QED  BY <4>1, <4>2
    <3>2. CASE \E q \in Procs : b \in Held(q)
      <4>1. PICK q \in Procs : b \in Held(q)
        BY <3>2
      <4>2. q # p
        BY <1>2, <2>2, <4>1
      <4> QED  BY <1>1, <4>1, <4>2, StillHeld DEF Others
    <3> QED  BY <1>1, <3>1, <3>2 DEF LeftInv, BlocksInv
  <2> QED  BY <2>1, <2>2
<1>9. CidInv'
  <2> SUFFICES ASSUME NEW n \in Merkles \ orphans, cids'[n] # NoCid,
                      ~ \E c \in trees' : MerkleOf[c] = n
               PROVE  \E q \in Procs : at'[q] \in {"finding", "unlinking"} /\ Mine(q)' = n
    BY <1>1 DEF CidInv
  <2>1. cids'[n] = cids[n]
    BY <1>2, <1>4, <1>5
  <2>2. PICK q \in Procs : at[q] \in {"finding", "unlinking"} /\ Mine(q) = n
    BY <1>1, <2>1 DEF LeftInv, CidInv
  <2> QED  BY <1>1, <2>2 DEF Mine, Others
<1>10. AddingInv'
  BY <1>1 DEF LeftInv, AddingInv, Others
<1> QED  BY <1>8, <1>9, <1>10 DEF LeftInv

LEMMA LeftUnlink ==
    ASSUME TypeOK, LeftInv, NEW p \in Procs, UnlinkCid(p),
           Leaves(IF cids[Mine(p)] = root[p] THEN {} ELSE Replaced(p),
                  IF cids'[Mine(p)] = NoCid THEN {} ELSE {Mine(p)})
    PROVE  LeftInv'
<1> DEFINE m == Mine(p)
<1>1. /\ at[p] = "unlinking" /\ UNCHANGED <<trees, blocks, job>> /\ Others(p)
      /\ left \subseteq left' /\ orphans \subseteq orphans'
  BY DEF UnlinkCid, Finish, Goto, Leaves, Others, TypeOK
<1>2. \/ root[p] = NoCid /\ at'[p] = "idle"
      \/ root[p] # NoCid /\ at'[p] = "collecting" /\ root'[p] = root[p]
  BY DEF UnlinkCid, Finish, Goto, TypeOK
<1>3. m \in Merkles /\ Held(p) = {}
  BY <1>1, FileStoreAssumption DEF Held, Mine, TypeOK
<1>4. /\ \A n \in Merkles \ {m} : cids'[n] = cids[n]
      /\ cids'[m] \in {cids[m], NoCid}
  BY <1>3 DEF UnlinkCid, Mine, TypeOK
<1>5. cids[m] # root[p] => Replaced(p) \subseteq left'
  BY DEF Leaves
<1>6. Replaced(p) = IF cids'[m] = cids[m] THEN {} ELSE Data(cids[m])
  BY DEF Replaced
<1>7. cids'[m] # NoCid => m \in orphans'
  BY DEF Leaves
<1> HIDE DEF m
<1>8. BlocksInv'
  <2> SUFFICES ASSUME NEW b \in blocks \ left'
               PROVE  \/ \E n \in Merkles : cids'[n] # NoCid /\ b \in Dag[cids'[n]]
                      \/ \E q \in Procs : b \in Held(q)'
    BY <1>1 DEF BlocksInv
  <2>1. CASE \E n \in Merkles : cids[n] # NoCid /\ b \in Dag[cids[n]]
    <3>1. PICK n \in Merkles : cids[n] # NoCid /\ b \in Dag[cids[n]]
      BY <2>1
    <3>2. CASE cids'[n] = cids[n]
      BY <3>1, <3>2
    <3>3. CASE cids'[n] # cids[n]
      <4>1. n = m /\ cids[m] = root[p]
        BY <1>4, <1>5, <1>6, <3>1, <3>3 DEF Data
      <4>2. b \in Held(p)'
        BY <1>2, <3>1, <4>1 DEF Held
      <4> QED  BY <4>2
    <3> QED  BY <3>2, <3>3
  <2>2. CASE \E q \in Procs : b \in Held(q)
    BY <1>1, <1>3, <2>2, StillHeld DEF Others
  <2> QED  BY <1>1, <2>1, <2>2 DEF LeftInv, BlocksInv
<1>9. CidInv'
  <2> SUFFICES ASSUME NEW n \in Merkles \ orphans', cids'[n] # NoCid,
                      ~ \E c \in trees : MerkleOf[c] = n
               PROVE  \E q \in Procs : at'[q] \in {"finding", "unlinking"} /\ Mine(q)' = n
    BY <1>1 DEF CidInv
  <2>1. n # m /\ cids'[n] = cids[n]
    BY <1>4, <1>7
  <2>2. PICK q \in Procs : at[q] \in {"finding", "unlinking"} /\ Mine(q) = n
    BY <1>1, <2>1 DEF LeftInv, CidInv
  <2>3. q # p
    BY <2>1, <2>2 DEF m
  <2> QED  BY <1>1, <2>2, <2>3 DEF Mine, Others
<1>10. AddingInv'
  BY <1>1, <1>2 DEF LeftInv, AddingInv, Others
<1> QED  BY <1>8, <1>9, <1>10 DEF LeftInv

LEMMA LeftCollect ==
    ASSUME TypeOK, LeftInv, NEW p \in Procs,
           \/ Collect(p) /\ Leaves({}, {})
           \/ CollectFails(p) /\ Leaves(Dag[root[p]], {})
    PROVE  LeftInv'
<1>1. /\ at[p] = "collecting" /\ UNCHANGED <<trees, cids, job>> /\ Others(p)
      /\ left \subseteq left' /\ orphans' = orphans /\ blocks' \subseteq blocks \cup Dag[root[p]]
      /\ at'[p] \in {"idle", "deleting"}
  BY DEF Collect, CollectFails, Finish, Goto, Leaves, Others, TypeOK
<1>2. Held(p) = Dag[root[p]]
  BY <1>1 DEF Held
<1>3. Dag[root[p]] \subseteq left' \cup Held(p)'
  BY DEF Collect, CollectFails, Goto, Leaves, Held, TypeOK
<1>4. BlocksInv'
  <2>1. \A q \in Procs : Held(q) \cap blocks' \subseteq left' \cup Held(q)'
    BY <1>1, <1>2, <1>3, StillHeld DEF Others
  <2>2. \A b \in blocks' \ (blocks \cup left') : \E q \in Procs : b \in Held(q)'
    BY <1>1, <1>3
  <2> QED  BY <1>1, <2>1, <2>2, BlocksKept DEF LeftInv
<1>5. CidInv'
  BY <1>1, CidKept DEF LeftInv, Others
<1>6. AddingInv'
  BY <1>1 DEF LeftInv, AddingInv, Others
<1> QED  BY <1>4, <1>5, <1>6 DEF LeftInv

LEMMA LeftDelete ==
    ASSUME TypeOK, LeftInv, NEW p \in Procs, DeleteBlock(p),
           Leaves(IF Ends(p) THEN todo[p] \cap blocks' ELSE {}, {})
    PROVE  LeftInv'
<1>1. /\ at[p] = "deleting" /\ UNCHANGED <<trees, cids, job>> /\ Others(p)
      /\ left \subseteq left' /\ orphans' = orphans /\ blocks' \subseteq blocks
      /\ at'[p] \in {"idle", "deleting"}
  BY DEF DeleteBlock, Finish, Goto, Leaves, Others, TypeOK
<1>2. Held(p) = todo[p]
  BY <1>1 DEF Held
<1>3. todo[p] \cap blocks' \subseteq left' \cup Held(p)'
  <2>1. CASE Ends(p)
    BY <2>1 DEF Leaves
  <2>2. CASE ~Ends(p)
    <3>1. PICK b \in todo[p] : /\ blocks' = blocks \ {b} /\ todo'[p] = todo[p] \ {b}
                               /\ at' = at
      BY <2>2 DEF DeleteBlock, Finish, Goto, Ends, TypeOK
    <3> QED  BY <1>1, <3>1 DEF Held
  <2> QED  BY <2>1, <2>2
<1>4. BlocksInv'
  <2>1. \A q \in Procs : Held(q) \cap blocks' \subseteq left' \cup Held(q)'
    BY <1>1, <1>2, <1>3, StillHeld DEF Others
  <2> QED  BY <1>1, <2>1, BlocksKept DEF LeftInv
<1>5. CidInv'
  BY <1>1, CidKept DEF LeftInv, Others
<1>6. AddingInv'
  BY <1>1 DEF LeftInv, AddingInv, Others
<1> QED  BY <1>4, <1>5, <1>6 DEF LeftInv

LEMMA LeftRead ==
    ASSUME TypeOK, LeftInv, NEW p \in Procs,
           \/ ReadBlock(p) /\ Leaves(blocks' \ blocks, {})
           \/ (ReadCid(p) \/ FindCid(p)) /\ Leaves({}, {})
    PROVE  LeftInv'
<1>1. /\ UNCHANGED <<trees, cids, job>> /\ Others(p)
      /\ left \subseteq left' /\ orphans' = orphans /\ blocks' \subseteq blocks \cup left'
      /\ at[p] \in {"hasCid", "hasTree", "finding"} /\ at'[p] # "adding"
      /\ at[p] = "finding" => at'[p] = "unlinking"
  BY DEF ReadBlock, ReadCid, FindCid, disk, Finish, Goto, Leaves, Others, TypeOK
<1>2. Held(p) = {}
  BY <1>1 DEF Held
<1>3. BlocksInv'
  BY <1>1, <1>2, BlocksKept, StillHeld DEF LeftInv, Others
<1>4. CidInv'
  BY <1>1, CidKept DEF LeftInv, Others
<1>5. AddingInv'
  BY <1>1 DEF LeftInv, AddingInv, Others
<1> QED  BY <1>3, <1>4, <1>5 DEF LeftInv

LEMMA LeftRemoveTree ==
    ASSUME TypeOK, LeftInv, NEW p \in Procs, RemoveTree(p), Leaves({}, {})
    PROVE  LeftInv'
<1>1. /\ UNCHANGED <<cids, blocks, job>> /\ Others(p) /\ left' = left /\ orphans' = orphans
      /\ at[p] = "removing" /\ at'[p] = "finding" /\ trees \ {job[p]} \subseteq trees'
  BY DEF RemoveTree, Goto, Leaves, Others, TypeOK
<1>2. Held(p) = {}
  BY <1>1 DEF Held
<1>3. BlocksInv'
  BY <1>1, <1>2, BlocksKept, StillHeld DEF LeftInv, Others
<1>4. CidInv'
  <2> SUFFICES ASSUME NEW m \in Merkles \ orphans, cids[m] # NoCid
               PROVE  \/ \E c \in trees' : MerkleOf[c] = m
                      \/ \E q \in Procs : at'[q] \in {"finding", "unlinking"} /\ Mine(q)' = m
    BY <1>1 DEF CidInv
  <2>1. CASE Mine(p) = m
    BY <1>1, <2>1 DEF Mine
  <2>2. CASE Mine(p) # m
    <3>1. CASE \E c \in trees : MerkleOf[c] = m
      BY <1>1, <2>2, <3>1 DEF Mine
    <3>2. CASE \E q \in Procs : at[q] \in {"finding", "unlinking"} /\ Mine(q) = m
      BY <1>1, <2>2, <3>2 DEF Mine, Others
    <3> QED  BY <3>1, <3>2 DEF LeftInv, CidInv
  <2> QED  BY <2>1, <2>2
<1>5. AddingInv'
  BY <1>1 DEF LeftInv, AddingInv, Others
<1> QED  BY <1>3, <1>4, <1>5 DEF LeftInv

LEMMA LeftCrash == ASSUME TypeOK, LeftInv, CrashLeaves PROVE LeftInv'
<1>1. /\ UNCHANGED <<disk, job>> /\ at' = [p \in Procs |-> "idle"]
      /\ left' = left \cup UNION {Held(p) : p \in Procs}
      /\ orphans' = orphans \cup
            {Mine(p) : p \in {q \in Procs : at[q] \in {"finding", "unlinking"}}}
  BY DEF CrashLeaves, Crash, Leaves
<1>2. BlocksInv'
  BY <1>1, BlocksKept DEF LeftInv, disk
<1>3. CidInv'
  BY <1>1, CidKept DEF LeftInv, disk
<1>4. AddingInv'
  BY <1>1 DEF AddingInv
<1> QED  BY <1>2, <1>3, <1>4 DEF LeftInv

LEMMA LeftStep == ASSUME TypeOK, LeftInv, [LNext]_lvars PROVE LeftInv'
<1>1. CASE UNCHANGED lvars
  BY <1>1 DEF lvars, vars, disk, local, LeftInv, BlocksInv, CidInv, AddingInv, Held, Mine
<1>2. ASSUME NEW p \in Procs, WriteLeaves(p) \/ DeleteLeaves(p) \/ ReadLeaves(p)
      PROVE  LeftInv'
  BY <1>2, LeftPut, LeftCommit, LeftUnlink, LeftCollect, LeftDelete, LeftRead
     DEF WriteLeaves, DeleteLeaves, ReadLeaves
<1>3. ASSUME NEW p \in Procs, LeavesNone(p) PROVE LeftInv'
  BY <1>3, LeftStart, LeftRemoveTree, LeftCollect, LeftRead DEF LeavesNone
<1> QED  BY <1>1, <1>2, <1>3, LeftCrash DEF LNext

\* Whatever fails, overlaps or is cut short: with no write or delete under way,
\* every block without a cid key and every cid key without a contract was left
\* by one of the steps that Leftovers names (file_system.go:147, 339, 397,
\* ipfs.go:178).
THEOREM OnlyBreaksLeave == LSpec => []NothingElseLeft
<1>1. LInit => TypeOK /\ LeftInv
  BY TypeInit, LeftInit DEF LInit
<1>2. TypeOK /\ LeftInv /\ [LNext]_lvars => (TypeOK /\ LeftInv)'
  BY TypeStep, LeavesIsStep, LeftStep
<1>3. LeftInv => NothingElseLeft
  <2> SUFFICES ASSUME LeftInv, \A p \in Procs : at[p] \notin Changes
               PROVE  /\ Unused \subseteq left
                      /\ \A m \in Merkles \ orphans :
                            cids[m] # NoCid => \E c \in trees : MerkleOf[c] = m
    BY DEF NothingElseLeft
  <2>1. \A p \in Procs : Held(p) = {}
    BY DEF Held, Changes
  <2>2. Unused \subseteq left
    BY <2>1 DEF LeftInv, BlocksInv, Unused
  <2>3. \A m \in Merkles \ orphans : cids[m] # NoCid => \E c \in trees : MerkleOf[c] = m
    BY DEF LeftInv, CidInv, Changes
  <2> QED  BY <2>2, <2>3
<1> QED  BY <1>1, <1>2, <1>3, PTL DEF LSpec

-----------------------------------------------------------------------------
(* The file system implements Store                                        *)

\* What has a tree can be read, before a step and after it.
LEMMA ReadableIsStored == ASSUME Inv, Inv' PROVE Readable = trees /\ Readable' = trees'
BY DEF Inv, Servable, Readable

LEMMA ActsInit == Init => Promise!Init
BY DEF Init, Promise!Init, Readable, Found, Reads

seen == <<Readable, Found, gone, result>>

\* A step of a goroutine that is seen of nobody but those who read: it moves no
\* reader, and no tree.
LEMMA QuietStep ==
    ASSUME Inv, Inv', NEW p \in Procs, UNCHANGED <<trees, gone, result>>,
           \A q \in Procs \ {p} : at'[q] = at[q] /\ job'[q] = job[q],
           at[p] \notin Reads, at'[p] \notin Reads
    PROVE  UNCHANGED seen
<1>1. Readable' = Readable
  BY ReadableIsStored
<1>2. Found' = Found
  BY DEF Found
<1> QED  BY <1>1, <1>2 DEF seen

LEMMA WriteActs ==
    ASSUME Sole, Inv, Inv', NEW p \in Procs, Write(p)
    PROVE  [Promise!Next]_seen
<1>1. CASE \/ \E c \in Contracts : \E r \in Roots[MerkleOf[c]] : StartWrite(p, c, r)
           \/ PutBlock(p)
  <2>1. UNCHANGED <<trees, gone, result>> /\ at[p] \notin Reads
    BY <1>1 DEF StartWrite, PutBlock, disk, Reads
  <2>2. \A q \in Procs \ {p} : at'[q] = at[q] /\ job'[q] = job[q]
    BY <1>1 DEF StartWrite, PutBlock, Finish, Goto, Inv, TypeOK
  <2>3. at'[p] \notin Reads
    BY <1>1 DEF StartWrite, PutBlock, Finish, Goto, Reads, Inv, TypeOK
  <2> QED  BY <2>1, <2>2, <2>3, QuietStep
<1>2. CASE CommitWrite(p)
  <2>1. /\ trees' = trees \cup {job[p]} \/ trees' = trees
        /\ UNCHANGED <<job, gone, result>>
        /\ at[p] = "adding" /\ at' = [at EXCEPT ![p] = "idle"]
    BY <1>2 DEF CommitWrite, Finish, Goto
  <2>2. Found' = Found
    BY <2>1 DEF Found, Reads, Inv, TypeOK
  <2>3. Readable = trees /\ Readable' = trees'
    BY ReadableIsStored
  <2>4. job[p] \in Contracts
    BY DEF Inv, TypeOK
  <2> QED  BY <2>1, <2>2, <2>3, <2>4 DEF seen, Promise!Next, Promise!Put
<1> QED  BY <1>1, <1>2 DEF Write

LEMMA DeleteActs ==
    ASSUME Sole, Inv, Inv', NEW p \in Procs, Delete(p)
    PROVE  [Promise!Next]_seen
<1>1. CASE RemoveTree(p)
  <2>1. /\ trees' = trees \ {job[p]}
        /\ gone' = [q \in Procs |-> gone[q] \/ (at[q] \in Reads /\ job[q] = job[p])]
        /\ at[p] = "removing" /\ at' = [at EXCEPT ![p] = "finding"]
        /\ UNCHANGED <<job, result>>
    BY <1>1 DEF RemoveTree, Goto, Succeeds, Sole
  <2>2. Found' = Found
    BY <2>1 DEF Found, Reads, Inv, TypeOK
  <2>3. Readable = trees /\ Readable' = trees'
    BY ReadableIsStored
  <2>4. gone' = [q \in Procs |-> gone[q] \/ job[p] \in Found[q]]
    BY <2>1 DEF Found
  <2>5. job[p] \in Contracts
    BY DEF Inv, TypeOK
  <2> QED  BY <2>1, <2>2, <2>3, <2>4, <2>5 DEF seen, Promise!Next, Promise!Remove
<1>2. CASE ~RemoveTree(p)
  <2>1. UNCHANGED <<trees, gone, result>> /\ at[p] \notin Reads
    BY <1>2 DEF Delete, StartDelete, FindCid, UnlinkCid, Collect, CollectFails, DeleteBlock, disk,
       Reads
  <2>2. \A q \in Procs \ {p} : at'[q] = at[q] /\ job'[q] = job[q]
    BY <1>2 DEF Delete, StartDelete, FindCid, UnlinkCid, Collect, CollectFails, DeleteBlock, Finish,
       Goto, Inv, TypeOK
  <2>3. at'[p] \notin Reads
    BY <1>2 DEF Delete, StartDelete, FindCid, UnlinkCid, Collect, CollectFails, DeleteBlock, Finish,
       Goto, Reads, Inv, TypeOK
  <2> QED  BY <2>1, <2>2, <2>3, QuietStep
<1> QED  BY <1>1, <1>2

LEMMA ReadActs ==
    ASSUME Sole, Inv, Inv', NEW p \in Procs, Read(p)
    PROVE  [Promise!Next]_seen
<1>0. Readable = trees /\ Readable' = trees' /\ trees' = trees
  <2>1. trees' = trees
    BY DEF Read, ReadTree, ReadCid, ReadBlock, disk
  <2> QED  BY <2>1, ReadableIsStored
<1>1. ASSUME NEW c \in Contracts, ReadTree(p, c) PROVE Promise!Find(p, c)
  <2>1. Found[p] = {}
    BY <1>1 DEF ReadTree, Found, Reads
  <2>2. CASE c \in trees
    <3>1. Found' = [Found EXCEPT ![p] = {c}]
      BY <1>1, <2>2 DEF ReadTree, Goto, Found, Reads, Inv, TypeOK
    <3> QED  BY <1>0, <1>1, <2>1, <2>2, <3>1 DEF ReadTree, Promise!Find
  <2>3. CASE c \notin trees
    <3>1. Found' = Found
      BY <1>1, <2>3 DEF ReadTree, Found, Reads, Inv, TypeOK
    <3> QED  BY <1>0, <1>1, <2>1, <2>3, <3>1 DEF ReadTree, Promise!Find
  <2> QED  BY <2>2, <2>3
\* The end of a read.
<1>2. ASSUME at[p] \in Reads, at' = [at EXCEPT ![p] = "idle"], UNCHANGED <<job, gone>>
      PROVE  Found[p] # {} /\ Found' = [Found EXCEPT ![p] = {}]
  BY <1>2 DEF Found, Reads, Inv, TypeOK
<1>3. ASSUME at[p] \in Reads, at' = [at EXCEPT ![p] = "idle"], UNCHANGED <<job, gone>>,
             result' = [result EXCEPT ![p] = "failed"]
      PROVE  Promise!Fail(p)
  <2>1. gone[p]
    BY <1>3 DEF Inv, TypeOK, FailsOnlyWhenGone
  <2> QED  BY <1>0, <1>2, <1>3, <2>1 DEF Promise!Fail
<1>4. ASSUME at[p] \in Reads, at' = [at EXCEPT ![p] = "idle"], UNCHANGED <<job, gone>>,
             result' = [result EXCEPT ![p] = "served"]
      PROVE  Promise!Serve(p)
  BY <1>0, <1>2, <1>4 DEF Promise!Serve
<1>5. CASE ReadCid(p)
  <2>1. CASE cids[MerkleOf[job[p]]] = NoCid
    BY <1>3, <1>5, <2>1 DEF ReadCid, Goto, Reads, Promise!Next
  <2>2. CASE cids[MerkleOf[job[p]]] # NoCid
    <3>1. at[p] = "hasTree" /\ at' = [at EXCEPT ![p] = "hasCid"] /\ UNCHANGED <<job, gone, result>>
      BY <1>5, <2>2 DEF ReadCid, Goto
    <3>2. Found' = Found
      BY <3>1 DEF Found, Reads, Inv, TypeOK
    <3> QED  BY <1>0, <3>1, <3>2 DEF seen
  <2> QED  BY <2>1, <2>2
<1>6. CASE ReadBlock(p)
  BY <1>3, <1>4, <1>6 DEF ReadBlock, Finish, Goto, Reads, Promise!Next
<1> QED  BY <1>1, <1>5, <1>6 DEF Read, Promise!Next

LEMMA ActsStep ==
    ASSUME Sole, Inv, Inv', [Next]_vars
    PROVE  [Promise!Next]_seen
<1>1. CASE Crash
  <2>1. Readable' = Readable
    BY <1>1, ReadableIsStored DEF Crash, disk
  <2>2. Found' = [p \in Procs |-> {}]
    BY <1>1 DEF Crash, Found, Reads
  <2> QED  BY <1>1, <2>1, <2>2 DEF Crash, Promise!Next, Promise!Restart
<1>2. CASE UNCHANGED vars
  BY <1>2 DEF vars, disk, local, seen, Readable, Found
<1> QED  BY <1>1, <1>2, WriteActs, DeleteActs, ReadActs DEF Next

\* Where each merkle has one contract and changes one at a time, the steps of
\* writes, deletes and reads are together those of a store whose operations take
\* effect in one step (file_system.go:104, 280, 501, proofs.go:186-192).
THEOREM ImplementsStore == Sole => (Spec => ActsAsStore)
<1> SUFFICES ASSUME Sole
             PROVE  Spec => ActsAsStore
  OBVIOUS
<1>1. Inv /\ [Next]_vars => Inv'
  BY SafeStep
<1>2. Inv /\ Inv' /\ [Next]_vars => [Promise!Next]_seen
  BY ActsStep
<1> QED  BY SafeInit, ActsInit, <1>1, <1>2, PTL DEF Spec, ActsAsStore, Promise!Spec, seen
=============================================================================
