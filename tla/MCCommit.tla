------------------------------ MODULE MCCommit ------------------------------
(* Instances of Commit.  File f1 moves from a to b, which among the three is *)
(* not installed before; f3 comes with b and belonged to c, which may be     *)
(* removed in the same transaction.                                          *)
EXTENDS Commit

CONSTANTS a, b, c, f1, f2, f3

ThreeNames == {a, b, c}
ThreePaths == {f1, f2, f3}
FirstThree == {a, c}
TwoNames   == {a, b}
TwoPaths   == {f1, f2}

ThreeFiles == [n \in ThreeNames |-> [v \in Versions |->
                 CASE n = a /\ v = "old" -> {f1, f2}
                   [] n = a /\ v = "new" -> {f2}
                   [] n = b /\ v = "new" -> {f1, f3}
                   [] n = c /\ v = "old" -> {f3}
                   [] OTHER              -> {}]]

TwoFiles == [n \in TwoNames |-> [v \in Versions |->
               CASE n = a /\ v = "old" -> {f1}
                 [] n = a /\ v = "new" -> {}
                 [] n = b /\ v = "new" -> {f1, f2}
                 [] OTHER              -> {f2}]]

=============================================================================
