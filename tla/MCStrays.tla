------------------------------ MODULE MCStrays ------------------------------
(* Instances of Strays for TLC: two hands, one of them authorized.         *)
EXTENDS Strays

CONSTANTS f1, f2, p1

OneFile == {f1}
TwoFiles == {f1, f2}
OneProvider == {p1}
SecondHand == {2}
=============================================================================
