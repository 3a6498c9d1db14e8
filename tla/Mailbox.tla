------------------------------ MODULE Mailbox ------------------------------
(***************************************************************************)
(* What the transaction queue promises to the goroutines that call Add: a  *)
(* message waits in line behind those added before it, the one in front is *)
(* answered next, and a proof of a file that is already in line is turned  *)
(* away.  A full mempool may cost everything that is in line.              *)
(***************************************************************************)
EXTENDS Naturals, Sequences

CONSTANTS Msgs, Key, NoKey

VARIABLES
    line,     \* the messages that wait, oldest first
    status    \* what became of each message

States == {"out", "waiting", "answered", "duplicate", "lost"}

InLine == {line[i] : i \in DOMAIN line}

Init ==
    /\ line = <<>>
    /\ status = [m \in Msgs |-> "out"]

Join(m) ==
    /\ status[m] = "out"
    /\ line' = Append(line, m)
    /\ status' = [status EXCEPT ![m] = "waiting"]

TurnAway(m) ==
    /\ status[m] = "out"
    /\ Key[m] # NoKey
    /\ \E t \in InLine : Key[t] = Key[m]
    /\ status' = [status EXCEPT ![m] = "duplicate"]
    /\ UNCHANGED line

Answer ==
    /\ line # <<>>
    /\ line' = Tail(line)
    /\ status' = [status EXCEPT ![Head(line)] = "answered"]

LoseAll ==
    /\ line' = <<>>
    /\ status' = [m \in Msgs |-> IF m \in InLine THEN "lost" ELSE status[m]]

Next == Answer \/ LoseAll \/ \E m \in Msgs : Join(m) \/ TurnAway(m)

Spec == Init /\ [][Next]_<<line, status>>
=============================================================================
