---------------------------- MODULE MCFileStore ----------------------------
(* Instances of FileStore for TLC: a file that can be cut in two ways, and *)
(* a folder whose child is somebody else's file.                           *)
EXTENDS FileStore

CONSTANTS file, folder, cFile, cTwin, cFolder,
          b1, b2, b3, b4, child, g1, g2

BothMerkles == {file, folder}
OneContract == {cFile}
TwoContracts == {cFile, cFolder}
SharedContracts == {cFile, cTwin}
MCMerkleOf == [c \in Contracts |-> IF c = cFolder THEN folder ELSE file]

\* The file is b1 -> b2, b3 or b4 -> b2; the folder is child's parent.
FileAndFolder == {b1, b2, b3, b4, child}
RecutRoots == [m \in Merkles |-> IF m = file THEN {b1, b4} ELSE {b3}]
RecutDag == [r \in {b1, b3, b4} |-> CASE r = b1 -> {b1, b2}
                                     [] r = b4 -> {b4, b2}
                                     [] OTHER -> {b3, child}]
RecutPuts == [RecutDag EXCEPT ![b3] = {b3}]

OneFile == {b1, b2}
OneMerkle == {file}
OneRoot == [m \in Merkles |-> {b1}]
OneDag == [r \in {b1} |-> {b1, b2}]

TwoProcs == {g1, g2}
SomeFaults == {"putBlock", "commit", "removeCid", "deleteBlock"}
=============================================================================
