------------------------------ MODULE MCBackup ------------------------------
(***************************************************************************)
(* Instances of Backup: two packaged contents (an original and a new one)  *)
(* and two contents of the user.                                           *)
(***************************************************************************)
EXTENDS Backup, TLC

CONSTANTS x, y, u, v

Upstream == {x, y}
TwoEdits == {u, v}
AllKinds == {"install", "move", "remove", "purge"}

\* The packages' contents are interchangeable, and so are the user's.
Symmetry == Permutations(Upstream) \cup Permutations(TwoEdits)
=============================================================================
