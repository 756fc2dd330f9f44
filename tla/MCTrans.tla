------------------------------- MODULE MCTrans -------------------------------
(* TLC instances of Trans: see the cfg files for the bounds.               *)
EXTENDS Trans

CONSTANTS p1, p2

OneProc  == {p1}
TwoProcs == {p1, p2}

FrontEndOps == AllOps \ {"update_in_trans"}

\* One operation of each kind of behaviour, for the run with two processes.
MixedOps == {"remove", "sync_refresh", "reason", "sync_print"}
=============================================================================
