------------------------------ MODULE MCProver ------------------------------
(* Instances of Prover for TLC.                                            *)
EXTENDS Prover

CONSTANTS f1, f2, w1, w2, m1

OneFile == {f1}
TwoFiles == {f1, f2}
OneMerkle == {m1}
TwoWorkers == {w1, w2}
Alone == [f \in OneFile |-> m1]
Twins == [f \in TwoFiles |-> m1]

\* What happens after two ++ or -- have overlapped is left to the theorems: most
\* properties say nothing of it.  Stop comes while the loop is idle, the only place
\* where running is read.
Followed == ~torn /\ (running' # running => loop = "idle")

\* The disk has all cid keys at first; DeleteCid and WriteUpload lose them.
FollowedSpec == Init /\ cids = Merkles /\ [][Next /\ Followed]_vars /\ Fairness
=============================================================================
