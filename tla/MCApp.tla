------------------------------- MODULE MCApp -------------------------------
(* Instances of App for TLC.                                               *)
EXTENDS App

CONSTANTS p1, p2, w1, w2, old

S(ip, space, type) == [ip |-> ip, space |-> space, store |-> type]
H(config, seed, legacy) == [config |-> config, seed |-> seed, legacy |-> legacy]

TheDefault == S("ip1", 1, "flatfs")
Edited == S("ip2", 2, "flatfs")
Moved  == S("ip1", 2, "badgerds")
Broken == S("ip2", 1, "flatfs")     \* say, max_size_bytes: 0
Slip   == S("ip1", 2, "flatfs")     \* say, a line out of place

AllSettings == {TheDefault, Edited, Moved, Broken, Slip}
AllValid    == {TheDefault, Edited, Moved}
SlipOnly    == {Slip}
TheFlags    == S("ip0", 1, "")

\* A home with nothing, or with a seed, or the key of a version 3 provider, and
\* with a config.yaml or without.
NewHome   == H(None, None, FALSE)
FullHome  == H(Edited, w1, FALSE)
OldHome   == H(TheDefault, None, TRUE)
BareHomes == {H(None, w1, FALSE), H(None, None, TRUE)}
AllHomes  == {NewHome, FullHome, OldHome} \cup BareHomes
=============================================================================
