------------------------------- MODULE Store -------------------------------
(***************************************************************************)
(* What the file system promises to those who call it, whatever it keeps   *)
(* in a database and whatever in a block store: a write or a delete takes  *)
(* effect in one step or not at all, a reader finds exactly what is        *)
(* stored, and reading what was found fails only when it was deleted       *)
(* since.  A restart keeps what is stored.                                 *)
(***************************************************************************)
CONSTANTS Contracts, Procs

VARIABLES
    stored,     \* the contracts whose data can be read
    reading,    \* the contract that each reader has found, if any: a set
    lost,       \* whether it was deleted since
    result      \* how the last read of each reader ended

Init ==
    /\ stored = {}
    /\ reading = [p \in Procs |-> {}]
    /\ lost = [p \in Procs |-> FALSE]
    /\ result = [p \in Procs |-> "none"]

Put(c) ==
    /\ stored' = stored \cup {c}
    /\ UNCHANGED <<reading, lost, result>>

Remove(c) ==
    /\ stored' = stored \ {c}
    /\ lost' = [p \in Procs |-> lost[p] \/ c \in reading[p]]
    /\ UNCHANGED <<reading, result>>

Find(p, c) ==
    /\ reading[p] = {}
    /\ lost' = [lost EXCEPT ![p] = FALSE]
    /\ IF c \in stored
       THEN /\ reading' = [reading EXCEPT ![p] = {c}]
            /\ result' = [result EXCEPT ![p] = "none"]
       ELSE /\ result' = [result EXCEPT ![p] = "notFound"]
            /\ UNCHANGED reading
    /\ UNCHANGED stored

Serve(p) ==
    /\ reading[p] # {}
    /\ reading' = [reading EXCEPT ![p] = {}]
    /\ result' = [result EXCEPT ![p] = "served"]
    /\ UNCHANGED <<stored, lost>>

Fail(p) ==
    /\ reading[p] # {}
    /\ lost[p]
    /\ reading' = [reading EXCEPT ![p] = {}]
    /\ result' = [result EXCEPT ![p] = "failed"]
    /\ UNCHANGED <<stored, lost>>

Restart ==
    /\ reading' = [p \in Procs |-> {}]
    /\ lost' = [p \in Procs |-> FALSE]
    /\ result' = [p \in Procs |-> "none"]
    /\ UNCHANGED stored

Next ==
    \/ \E c \in Contracts : Put(c) \/ Remove(c)
    \/ \E p \in Procs : (\E c \in Contracts : Find(p, c)) \/ Serve(p) \/ Fail(p)
    \/ Restart

Spec == Init /\ [][Next]_<<stored, reading, lost, result>>
=============================================================================
