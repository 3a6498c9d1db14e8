------------------------------ MODULE MCQueue ------------------------------
(* Instances of Queue for TLC: proofs, two of them of one file, and a      *)
(* larger message of another type (a stray's claim).                       *)
EXTENDS Queue

CONSTANTS p1, p2, q1, claim, fileP, fileQ

FourMsgs == {p1, p2, q1, claim}
ThreeMsgs == {p1, p2, claim}
MCKey == [m \in Msgs |-> CASE m \in {p1, p2} -> fileP
                           [] m = q1 -> fileQ
                           [] OTHER -> NoKey]
MCSize == [m \in Msgs |-> IF m = claim THEN 3 ELSE 1]

EveryAnswer == AllAnswers
\* Without "full" no message is dropped; without "lostReply" an error means
\* that the mempool did not take the transaction.
PlainAnswers == AllAnswers \ {"full", "lostReply"}
FullAnswers == {"accepted", "full"}
OneAnswer == {"accepted"}
=============================================================================
