--------------------------- MODULE MCReceiveSubaddress ---------------------------
(* ReceiveSubaddress on a small instance: the presses of one window. *)
EXTENDS ReceiveSubaddress, TLC, Integers

CONSTANTS w1, c1, c2, c3

Unusable == -1
JustOne == {w1}
ThreeCalls == {c1, c2, c3}
AllInOne == [k \in Call |-> w1]
================================================================================
