-------------------------------- MODULE MCApi --------------------------------
(* Instances of Api for TLC: a folder and the file in it, an upload of the  *)
(* second version, and a request of any kind beside it.                    *)
EXTENDS Api

CONSTANTS top, leaf, name, r1, r2, p1

TwoFiles == {top, leaf}
OneFolder == {top}
OneName == {name}
MCChild == [f \in Files |-> [n \in Names |-> IF f = top THEN leaf ELSE NoFile]]
TwoRequests == {r1, r2}
MCKinds == [r \in Requests |-> IF r = r1 THEN {"v2"} ELSE Uploads \cup Gets]
MCAbout == [r \in Requests |-> IF r = r1 THEN {leaf} ELSE Files]
SomePaths == {<<>>, <<name>>, <<name, name>>}
OneProvider == {p1}
OneMissized == {top}
OneLarge == {leaf}
=============================================================================
