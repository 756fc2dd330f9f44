----------------------------- MODULE TransProof -----------------------------
(***************************************************************************)
(* Proofs about Trans, for any number of processes, packages, signals,     *)
(* kills and starts, of a system in which only the front ends run.         *)
(***************************************************************************)
EXTENDS Trans, TLAPS

\* No client calls klpm_db_update inside a transaction.
FrontEndsOnly == "update_in_trans" \notin Ops

\* Where the main thread is, also while the handler has interrupted it.
At(p) == IF pc[p] = "handler" THEN saved[p] ELSE pc[p]

Unlocking == {"unlock", "reset", "unlink", "return"}

\* No transaction exists yet, or any more.
NoTrans == {"down", "lock", "lockfd", "update", "trans_init", "alloc", "cleanup"}

\* The package cache has not been loaded yet.
NoCache == NoTrans \ {"cleanup"}

\* From the lookup of the targets to the last package.
Using == {"maintain", "prepare", "confirm", "commit", "load", "loading", "hooks",
          "loop", "remove", "upgrade"}

\* A process is only here when it has a lock to protect it.
Writing == Using \ {"prepare", "confirm"}

\* lockfd, the place of the main thread and the file on disk agree: who has the
\* descriptor has the file; who has the file and not the descriptor is between
\* open() and the assignment, between reset and unlink, or ends in the handler.
LockAgrees(p) ==
  /\ lockfd[p] => lockfile = p
  /\ At(p) \in {"lockfd", "unlink"} => lockfile = p
  /\ At(p) = "reset" => lockfd[p]
  /\ At(p) \in {"unlink", "return"} => ~lockfd[p]
  /\ At(p) \in Section /\ ~NoLock(op[p]) => lockfd[p]
  /\ lockfile = p => pc[p] # "down"
  /\ lockfile = p => \/ lockfd[p] \/ At(p) \in {"lockfd", "unlink"}
                     \/ caller[p] = "handler"

\* What else keeps the process from reaching the section without the lock.
InOrder(p) ==
  /\ saved[p] # "handler"
  /\ caller[p] = "handler" => pc[p] \in Unlocking
  /\ op[p] # "update_in_trans"
  /\ At(p) \in NoTrans => trans[p] = "NULL"
  /\ At(p) \in Unlocking /\ caller[p] # "handler" => trans[p] = "NULL"
  /\ At(p) \in Writing => ~NoLock(op[p])
  /\ At(p) \in Section \ (NoTrans \cup {"freed"}) => trans[p] \in States
  /\ At(p) \in {"targets", "prepare"} => trans[p] = "INITIALIZED"
  /\ At(p) = "confirm" => \/ trans[p] = "PREPARED"
                          \/ add[p] = 0 /\ remove[p] = 0
  /\ At(p) = "commit" => trans[p] = "PREPARED"

CacheAgrees(p) ==
  /\ At(p) \in NoCache => cache[p] = -1
  /\ At(p) \in Unlocking /\ caller[p] = "db_update" => cache[p] = -1
  /\ At(p) \in Using => cache[p] # -1
  /\ At(p) \in Section /\ ~NoLock(op[p]) /\ cache[p] # -1 => cache[p] = localdb

\* The loops over the packages: no package is begun once INTERRUPTED was seen,
\* and who leaves them without it has left nothing undone.
Commits(p) ==
  /\ after[p] \in {0, 1}
  /\ At(p) \in NoCache \cup Using \cup {"targets"} =>
       after[p] = 0 \/ (At(p) = "loop" /\ trans[p] = "INTERRUPTED")
  /\ At(p) \in Unlocking /\ caller[p] = "db_update" => after[p] = 0
  /\ At(p) = "remove" => remove[p] > 0
  /\ At(p) = "upgrade" => add[p] > 0
  /\ At(p) \in {"commit_end", "post"} => ~failed[p]
  /\ (At(p) = "commit_end" /\ trans[p] # "INTERRUPTED") \/ At(p) = "post"
       => add[p] = 0 /\ remove[p] = 0

ProcInv(p) == LockAgrees(p) /\ InOrder(p) /\ CacheAgrees(p) /\ Commits(p)

IInv == TypeOK /\ \A p \in Procs : ProcInv(p)
-----------------------------------------------------------------------------
(* A step of p leaves the memory of every other process alone, and does to *)
(* the shared files only what the holder of the lock may do.               *)

OthersSame(p) ==
  \A q \in Procs \ {p} :
    /\ pc'[q] = pc[q] /\ saved'[q] = saved[q] /\ caller'[q] = caller[q]
    /\ op'[q] = op[q] /\ lockfd'[q] = lockfd[q] /\ trans'[q] = trans[q]
    /\ cache'[q] = cache[q] /\ add'[q] = add[q] /\ remove'[q] = remove[q]
    /\ failed'[q] = failed[q] /\ after'[q] = after[q]

SharedStep(p) ==
  \/ UNCHANGED shared
  \/ lockfile = NoFile /\ lockfile' = p /\ UNCHANGED localdb
  \/ /\ lockfile = p /\ UNCHANGED localdb
     /\ lockfile' = Stale \/ (lockfile' = NoFile /\ pc[p] = "unlink")
  \/ lockfile = p /\ UNCHANGED lockfile /\ localdb' = localdb + 1

\* The invariant of a process survives the steps of the others.
LEMMA Frame ==
  ASSUME NEW p \in Procs, NEW q \in Procs, q # p,
         ProcInv(q), OthersSame(p), SharedStep(p)
  PROVE  ProcInv(q)'
BY ConstAssumption
   DEF ProcInv, LockAgrees, InOrder, CacheAgrees, Commits, OthersSame,
       SharedStep, At, shared

\* A step of p that keeps the types and the invariant of p keeps IInv.
LEMMA StepOfOne ==
  ASSUME NEW p \in Procs, IInv, TypeOK', ProcInv(p)', OthersSame(p), SharedStep(p)
  PROVE  IInv'
<1>1. ASSUME NEW q \in Procs PROVE ProcInv(q)'
  <2>1. CASE q = p  BY <2>1
  <2>2. CASE q # p
    <3>1. ProcInv(q)  BY DEF IInv
    <3> QED  BY <2>2, <3>1, Frame
  <2> QED  BY <2>1, <2>2
<1> QED  BY <1>1 DEF IInv

\* What each step has to establish.
Kept(p) == TypeOK' /\ ProcInv(p)' /\ OthersSame(p) /\ SharedStep(p)
\* Every end of a process keeps the invariant; a lock left behind is stale.
LEMMA StopKeeps ==
  ASSUME NEW p \in Procs, TypeOK, ProcInv(p), Stop(p), starts' = starts,
         signals' \in Nat, kills' \in Nat
  PROVE  Kept(p)
<1> USE ConstAssumption DEF Stop, Goto, SetState
<1>1. TypeOK'  BY DEF TypeOK, Labels
<1>2. OthersSame(p) /\ SharedStep(p)
  BY DEF TypeOK, OthersSame, SharedStep, shared
<1>3. ProcInv(p)'
  BY DEF TypeOK, ProcInv, LockAgrees, InOrder, CacheAgrees, Commits, At, Section,
         Unlocking, NoTrans, NoCache, Writing, Using
<1> QED  BY <1>1, <1>2, <1>3 DEF Kept

(* One lemma per action.                                                   *)

LEMMA Keeps_handle_lock_fd ==
  ASSUME FrontEndsOnly, NEW p \in Procs, TypeOK, ProcInv(p), handle_lock_fd(p) PROVE Kept(p)
<1> USE ConstAssumption
    DEF Goto, shared, work, bounds, At, Section, NoLock, Unlocking, NoTrans,
        NoCache, Writing, Using, States, FrontEndsOnly
<1>1. TypeOK' /\ OthersSame(p) /\ SharedStep(p)
  BY SMTT(30) DEF handle_lock_fd, Locked, TypeOK, Labels, States, AllOps, OthersSame, SharedStep
<1>2. LockAgrees(p)' /\ CacheAgrees(p)'
  BY SMTT(30) DEF handle_lock_fd, Locked, TypeOK, ProcInv, LockAgrees, InOrder, CacheAgrees
<1>3. InOrder(p)'
  BY SMTT(30) DEF handle_lock_fd, Locked, TypeOK, ProcInv, LockAgrees, InOrder, Commits
<1>4. Commits(p)'
  BY SMTT(30) DEF handle_lock_fd, Locked, TypeOK, ProcInv, InOrder, Commits
<1> QED  BY <1>1, <1>2, <1>3, <1>4 DEF Kept, ProcInv

LEMMA Keeps_klpm_unlock ==
  ASSUME FrontEndsOnly, NEW p \in Procs, TypeOK, ProcInv(p), klpm_unlock(p) PROVE Kept(p)
<1> USE ConstAssumption
    DEF Goto, shared, work, bounds, At, Section, NoLock, Unlocking, NoTrans,
        NoCache, Writing, Using, States, FrontEndsOnly
<1>1. TypeOK' /\ OthersSame(p) /\ SharedStep(p)
  BY SMTT(30) DEF klpm_unlock, UnlockNext, TypeOK, Labels, States, AllOps, OthersSame, SharedStep
<1>2. LockAgrees(p)' /\ CacheAgrees(p)'
  BY SMTT(30) DEF klpm_unlock, UnlockNext, TypeOK, ProcInv, LockAgrees, InOrder, CacheAgrees
<1>3. InOrder(p)'
  BY SMTT(30) DEF klpm_unlock, UnlockNext, TypeOK, ProcInv, LockAgrees, InOrder, Commits
<1>4. Commits(p)'
  BY SMTT(30) DEF klpm_unlock, UnlockNext, TypeOK, ProcInv, InOrder, Commits
<1> QED  BY <1>1, <1>2, <1>3, <1>4 DEF Kept, ProcInv

LEMMA Keeps_klpm_unlock_reset ==
  ASSUME FrontEndsOnly, NEW p \in Procs, TypeOK, ProcInv(p), klpm_unlock_reset(p) PROVE Kept(p)
<1> USE ConstAssumption
    DEF Goto, shared, work, bounds, At, Section, NoLock, Unlocking, NoTrans,
        NoCache, Writing, Using, States, FrontEndsOnly
<1>1. TypeOK' /\ OthersSame(p) /\ SharedStep(p)
  BY SMTT(30) DEF klpm_unlock_reset, TypeOK, Labels, States, AllOps, OthersSame, SharedStep
<1>2. LockAgrees(p)' /\ CacheAgrees(p)'
  BY SMTT(30) DEF klpm_unlock_reset, TypeOK, ProcInv, LockAgrees, InOrder, CacheAgrees
<1>3. InOrder(p)'
  BY SMTT(30) DEF klpm_unlock_reset, TypeOK, ProcInv, LockAgrees, InOrder, Commits
<1>4. Commits(p)'
  BY SMTT(30) DEF klpm_unlock_reset, TypeOK, ProcInv, InOrder, Commits
<1> QED  BY <1>1, <1>2, <1>3, <1>4 DEF Kept, ProcInv

LEMMA Keeps_klpm_unlock_unlink ==
  ASSUME FrontEndsOnly, NEW p \in Procs, TypeOK, ProcInv(p), klpm_unlock_unlink(p) PROVE Kept(p)
<1> USE ConstAssumption
    DEF Goto, shared, work, bounds, At, Section, NoLock, Unlocking, NoTrans,
        NoCache, Writing, Using, States, FrontEndsOnly
<1>1. TypeOK' /\ OthersSame(p) /\ SharedStep(p)
  BY SMTT(30) DEF klpm_unlock_unlink, TypeOK, Labels, States, AllOps, OthersSame, SharedStep, ProcInv,
         LockAgrees, InOrder, Commits
<1>2. LockAgrees(p)' /\ CacheAgrees(p)'
  BY SMTT(30) DEF klpm_unlock_unlink, TypeOK, ProcInv, LockAgrees, InOrder, CacheAgrees
<1>3. InOrder(p)'
  BY SMTT(30) DEF klpm_unlock_unlink, TypeOK, ProcInv, LockAgrees, InOrder, Commits
<1>4. Commits(p)'
  BY SMTT(30) DEF klpm_unlock_unlink, TypeOK, ProcInv, InOrder, Commits
<1> QED  BY <1>1, <1>2, <1>3, <1>4 DEF Kept, ProcInv

LEMMA Keeps_klpm_db_update ==
  ASSUME FrontEndsOnly, NEW p \in Procs, TypeOK, ProcInv(p), klpm_db_update(p) PROVE Kept(p)
<1> USE ConstAssumption
    DEF Goto, shared, work, bounds, At, Section, NoLock, Unlocking, NoTrans,
        NoCache, Writing, Using, States, FrontEndsOnly
<1>1. TypeOK' /\ OthersSame(p) /\ SharedStep(p)
  BY SMTT(30) DEF klpm_db_update, TypeOK, Labels, States, AllOps, OthersSame, SharedStep
<1>2. LockAgrees(p)' /\ CacheAgrees(p)'
  BY SMTT(30) DEF klpm_db_update, TypeOK, ProcInv, LockAgrees, InOrder, CacheAgrees
<1>3. InOrder(p)'
  BY SMTT(30) DEF klpm_db_update, TypeOK, ProcInv, LockAgrees, InOrder, Commits
<1>4. Commits(p)'
  BY SMTT(30) DEF klpm_db_update, TypeOK, ProcInv, InOrder, Commits
<1> QED  BY <1>1, <1>2, <1>3, <1>4 DEF Kept, ProcInv

LEMMA Keeps_klpm_trans_init ==
  ASSUME FrontEndsOnly, NEW p \in Procs, TypeOK, ProcInv(p), klpm_trans_init(p) PROVE Kept(p)
<1> USE ConstAssumption
    DEF Goto, shared, work, bounds, At, Section, NoLock, Unlocking, NoTrans,
        NoCache, Writing, Using, States, FrontEndsOnly
<1>1. TypeOK' /\ OthersSame(p) /\ SharedStep(p)
  BY SMTT(30) DEF klpm_trans_init, TakesLock, TypeOK, Labels, States, AllOps, OthersSame, SharedStep
<1>2. LockAgrees(p)' /\ CacheAgrees(p)'
  BY SMTT(30) DEF klpm_trans_init, TakesLock, TypeOK, ProcInv, LockAgrees, InOrder, CacheAgrees
<1>3. InOrder(p)'
  BY SMTT(30) DEF klpm_trans_init, TakesLock, TypeOK, ProcInv, LockAgrees, InOrder, Commits
<1>4. Commits(p)'
  BY SMTT(30) DEF klpm_trans_init, TakesLock, TypeOK, ProcInv, InOrder, Commits
<1> QED  BY <1>1, <1>2, <1>3, <1>4 DEF Kept, ProcInv

LEMMA Keeps_trans_alloc ==
  ASSUME FrontEndsOnly, NEW p \in Procs, TypeOK, ProcInv(p), trans_alloc(p) PROVE Kept(p)
<1> USE ConstAssumption
    DEF Goto, shared, work, bounds, At, Section, NoLock, Unlocking, NoTrans,
        NoCache, Writing, Using, States, FrontEndsOnly
<1>1. TypeOK' /\ OthersSame(p) /\ SharedStep(p)
  BY SMTT(30) DEF trans_alloc, SetState, TypeOK, Labels, States, AllOps, OthersSame, SharedStep
<1>2. LockAgrees(p)' /\ CacheAgrees(p)'
  BY SMTT(30) DEF trans_alloc, SetState, TypeOK, ProcInv, LockAgrees, InOrder, CacheAgrees
<1>3. InOrder(p)'
  BY SMTT(30) DEF trans_alloc, SetState, TypeOK, ProcInv, LockAgrees, InOrder, Commits
<1>4. Commits(p)'
  BY SMTT(30) DEF trans_alloc, SetState, TypeOK, ProcInv, InOrder, Commits
<1> QED  BY <1>1, <1>2, <1>3, <1>4 DEF Kept, ProcInv

LEMMA Keeps_targets ==
  ASSUME FrontEndsOnly, NEW p \in Procs, TypeOK, ProcInv(p), targets(p) PROVE Kept(p)
<1> USE ConstAssumption
    DEF Goto, shared, work, bounds, At, Section, NoLock, Unlocking, NoTrans,
        NoCache, Writing, Using, States, FrontEndsOnly
<1>1. TypeOK' /\ OthersSame(p) /\ SharedStep(p)
  BY SMTT(30) DEF targets, LoadCache, AfterTargets, Installs, TypeOK, Labels, States, AllOps, OthersSame, SharedStep
<1>2. LockAgrees(p)' /\ CacheAgrees(p)'
  BY SMTT(30) DEF targets, LoadCache, AfterTargets, Installs, TypeOK, ProcInv, LockAgrees, InOrder, CacheAgrees
<1>3. InOrder(p)'
  BY SMTT(30) DEF targets, LoadCache, AfterTargets, Installs, TypeOK, ProcInv, LockAgrees, InOrder, Commits
<1>4. Commits(p)'
  BY SMTT(30) DEF targets, LoadCache, AfterTargets, Installs, TypeOK, ProcInv, InOrder, Commits
<1> QED  BY <1>1, <1>2, <1>3, <1>4 DEF Kept, ProcInv

LEMMA Keeps_set_reason ==
  ASSUME FrontEndsOnly, NEW p \in Procs, TypeOK, ProcInv(p), set_reason(p) PROVE Kept(p)
<1> USE ConstAssumption
    DEF Goto, shared, work, bounds, At, Section, NoLock, Unlocking, NoTrans,
        NoCache, Writing, Using, States, FrontEndsOnly
<1>1. TypeOK' /\ OthersSame(p) /\ SharedStep(p)
  BY SMTT(30) DEF set_reason, MoreTargets, TypeOK, Labels, States, AllOps, OthersSame, SharedStep, ProcInv,
         LockAgrees, InOrder, Commits
<1>2. LockAgrees(p)' /\ CacheAgrees(p)'
  BY SMTT(30) DEF set_reason, MoreTargets, TypeOK, ProcInv, LockAgrees, InOrder, CacheAgrees
<1>3. InOrder(p)'
  BY SMTT(30) DEF set_reason, MoreTargets, TypeOK, ProcInv, LockAgrees, InOrder, Commits
<1>4. Commits(p)'
  BY SMTT(30) DEF set_reason, MoreTargets, TypeOK, ProcInv, InOrder, Commits
<1> QED  BY <1>1, <1>2, <1>3, <1>4 DEF Kept, ProcInv

LEMMA Keeps_klpm_trans_prepare ==
  ASSUME FrontEndsOnly, NEW p \in Procs, TypeOK, ProcInv(p), klpm_trans_prepare(p) PROVE Kept(p)
<1> USE ConstAssumption
    DEF Goto, shared, work, bounds, At, Section, NoLock, Unlocking, NoTrans,
        NoCache, Writing, Using, States, FrontEndsOnly
<1>1. TypeOK' /\ OthersSame(p) /\ SharedStep(p)
  BY SMTT(30) DEF klpm_trans_prepare, SetState, TypeOK, Labels, OthersSame, SharedStep
<1>2. LockAgrees(p)' /\ CacheAgrees(p)'
  BY SMTT(30) DEF klpm_trans_prepare, TypeOK, ProcInv, LockAgrees, CacheAgrees
<1>3. InOrder(p)'
  BY SMTT(30) DEF klpm_trans_prepare, SetState, TypeOK, ProcInv, InOrder
<1>4. Commits(p)'
  BY SMTT(30) DEF klpm_trans_prepare, TypeOK, ProcInv, Commits
<1> QED  BY <1>1, <1>2, <1>3, <1>4 DEF Kept, ProcInv

LEMMA Keeps_confirm ==
  ASSUME FrontEndsOnly, NEW p \in Procs, TypeOK, ProcInv(p), confirm(p) PROVE Kept(p)
<1> USE ConstAssumption
    DEF Goto, shared, work, bounds, At, Section, NoLock, Unlocking, NoTrans,
        NoCache, Writing, Using, States, FrontEndsOnly
<1>1. TypeOK' /\ OthersSame(p) /\ SharedStep(p)
  BY SMTT(30) DEF confirm, Something, TypeOK, Labels, States, AllOps, OthersSame, SharedStep
<1>2. LockAgrees(p)' /\ CacheAgrees(p)'
  BY SMTT(30) DEF confirm, Something, TypeOK, ProcInv, LockAgrees, InOrder, CacheAgrees
<1>3. InOrder(p)'
  BY SMTT(30) DEF confirm, Something, TypeOK, ProcInv, LockAgrees, InOrder, Commits
<1>4. Commits(p)'
  BY SMTT(30) DEF confirm, Something, TypeOK, ProcInv, InOrder, Commits
<1> QED  BY <1>1, <1>2, <1>3, <1>4 DEF Kept, ProcInv

LEMMA Keeps_klpm_trans_commit ==
  ASSUME FrontEndsOnly, NEW p \in Procs, TypeOK, ProcInv(p), klpm_trans_commit(p) PROVE Kept(p)
<1> USE ConstAssumption
    DEF Goto, shared, work, bounds, At, Section, NoLock, Unlocking, NoTrans,
        NoCache, Writing, Using, States, FrontEndsOnly
<1>1. TypeOK' /\ OthersSame(p) /\ SharedStep(p)
  BY SMTT(30) DEF klpm_trans_commit, TypeOK, Labels, States, AllOps, OthersSame, SharedStep
<1>2. LockAgrees(p)' /\ CacheAgrees(p)'
  BY SMTT(30) DEF klpm_trans_commit, TypeOK, ProcInv, LockAgrees, InOrder, CacheAgrees
<1>3. InOrder(p)'
  BY SMTT(30) DEF klpm_trans_commit, TypeOK, ProcInv, LockAgrees, InOrder, Commits
<1>4. Commits(p)'
  BY SMTT(30) DEF klpm_trans_commit, TypeOK, ProcInv, InOrder, Commits
<1> QED  BY <1>1, <1>2, <1>3, <1>4 DEF Kept, ProcInv

LEMMA Keeps_sync_load ==
  ASSUME FrontEndsOnly, NEW p \in Procs, TypeOK, ProcInv(p), sync_load(p) PROVE Kept(p)
<1> USE ConstAssumption
    DEF Goto, shared, work, bounds, At, Section, NoLock, Unlocking, NoTrans,
        NoCache, Writing, Using, States, FrontEndsOnly
<1>1. TypeOK' /\ OthersSame(p) /\ SharedStep(p)
  BY SMTT(30) DEF sync_load, SetState, TypeOK, Labels, States, AllOps, OthersSame, SharedStep
<1>2. LockAgrees(p)' /\ CacheAgrees(p)'
  BY SMTT(30) DEF sync_load, SetState, TypeOK, ProcInv, LockAgrees, InOrder, CacheAgrees
<1>3. InOrder(p)'
  BY SMTT(30) DEF sync_load, SetState, TypeOK, ProcInv, LockAgrees, InOrder, Commits
<1>4. Commits(p)'
  BY SMTT(30) DEF sync_load, SetState, TypeOK, ProcInv, InOrder, Commits
<1> QED  BY <1>1, <1>2, <1>3, <1>4 DEF Kept, ProcInv

LEMMA Keeps_sync_check ==
  ASSUME FrontEndsOnly, NEW p \in Procs, TypeOK, ProcInv(p), sync_check(p) PROVE Kept(p)
<1> USE ConstAssumption
    DEF Goto, shared, work, bounds, At, Section, NoLock, Unlocking, NoTrans,
        NoCache, Writing, Using, States, FrontEndsOnly
<1>1. TypeOK' /\ OthersSame(p) /\ SharedStep(p)
  BY SMTT(30) DEF sync_check, TypeOK, Labels, States, AllOps, OthersSame, SharedStep
<1>2. LockAgrees(p)' /\ CacheAgrees(p)'
  BY SMTT(30) DEF sync_check, TypeOK, ProcInv, LockAgrees, InOrder, CacheAgrees
<1>3. InOrder(p)'
  BY SMTT(30) DEF sync_check, TypeOK, ProcInv, LockAgrees, InOrder, Commits
<1>4. Commits(p)'
  BY SMTT(30) DEF sync_check, TypeOK, ProcInv, InOrder, Commits
<1> QED  BY <1>1, <1>2, <1>3, <1>4 DEF Kept, ProcInv

LEMMA Keeps_hook_pre ==
  ASSUME FrontEndsOnly, NEW p \in Procs, TypeOK, ProcInv(p), hook_pre(p) PROVE Kept(p)
<1> USE ConstAssumption
    DEF Goto, shared, work, bounds, At, Section, NoLock, Unlocking, NoTrans,
        NoCache, Writing, Using, States, FrontEndsOnly
<1>1. TypeOK' /\ OthersSame(p) /\ SharedStep(p)
  BY SMTT(30) DEF hook_pre, SetState, TypeOK, Labels, States, AllOps, OthersSame, SharedStep
<1>2. LockAgrees(p)' /\ CacheAgrees(p)'
  BY SMTT(30) DEF hook_pre, SetState, TypeOK, ProcInv, LockAgrees, InOrder, CacheAgrees
<1>3. InOrder(p)'
  BY SMTT(30) DEF hook_pre, SetState, TypeOK, ProcInv, LockAgrees, InOrder, Commits
<1>4. Commits(p)'
  BY SMTT(30) DEF hook_pre, SetState, TypeOK, ProcInv, InOrder, Commits
<1> QED  BY <1>1, <1>2, <1>3, <1>4 DEF Kept, ProcInv

LEMMA Keeps_commit_loop ==
  ASSUME FrontEndsOnly, NEW p \in Procs, TypeOK, ProcInv(p), commit_loop(p) PROVE Kept(p)
<1> USE ConstAssumption
    DEF Goto, shared, work, bounds, At, Section, NoLock, Unlocking, NoTrans,
        NoCache, Writing, Using, States, FrontEndsOnly
<1>1. TypeOK' /\ OthersSame(p) /\ SharedStep(p)
  BY SMTT(30) DEF commit_loop, StopsHere, TypeOK, Labels, States, AllOps, OthersSame, SharedStep
<1>2. LockAgrees(p)' /\ CacheAgrees(p)'
  BY SMTT(30) DEF commit_loop, StopsHere, TypeOK, ProcInv, LockAgrees, InOrder, CacheAgrees
<1>3. InOrder(p)'
  BY SMTT(30) DEF commit_loop, StopsHere, TypeOK, ProcInv, LockAgrees, InOrder, Commits
<1>4. Commits(p)'
  BY SMTT(30) DEF commit_loop, StopsHere, TypeOK, ProcInv, InOrder, Commits
<1> QED  BY <1>1, <1>2, <1>3, <1>4 DEF Kept, ProcInv

LEMMA Keeps_remove_package ==
  ASSUME FrontEndsOnly, NEW p \in Procs, TypeOK, ProcInv(p), remove_package(p) PROVE Kept(p)
<1> USE ConstAssumption
    DEF Goto, shared, work, bounds, At, Section, NoLock, Unlocking, NoTrans,
        NoCache, Writing, Using, States, FrontEndsOnly
<1>1. TypeOK' /\ OthersSame(p) /\ SharedStep(p)
  BY SMTT(30) DEF remove_package, WriteDb, TypeOK, Labels, States, AllOps, OthersSame, SharedStep, ProcInv,
         LockAgrees, InOrder, Commits
<1>2. LockAgrees(p)' /\ CacheAgrees(p)'
  BY SMTT(30) DEF remove_package, WriteDb, TypeOK, ProcInv, LockAgrees, InOrder, CacheAgrees
<1>3. InOrder(p)'
  BY SMTT(30) DEF remove_package, WriteDb, TypeOK, ProcInv, LockAgrees, InOrder, Commits
<1>4. Commits(p)'
  BY SMTT(30) DEF remove_package, WriteDb, TypeOK, ProcInv, InOrder, Commits
<1> QED  BY <1>1, <1>2, <1>3, <1>4 DEF Kept, ProcInv

LEMMA Keeps_commit_package ==
  ASSUME FrontEndsOnly, NEW p \in Procs, TypeOK, ProcInv(p), commit_package(p) PROVE Kept(p)
<1> USE ConstAssumption
    DEF Goto, shared, work, bounds, At, Section, NoLock, Unlocking, NoTrans,
        NoCache, Writing, Using, States, FrontEndsOnly
<1>a. failed' \in [Procs -> BOOLEAN]  BY Zenon DEF commit_package, TypeOK
<1>b. after' \in [Procs -> Nat] /\ cache' \in [Procs -> Int] /\ localdb' \in Nat
  BY DEF commit_package, WriteDb, TypeOK
<1>1. TypeOK' /\ OthersSame(p) /\ SharedStep(p)
  BY SMTT(30), <1>a, <1>b DEF commit_package, WriteDb, SetState, TypeOK, Labels, States, AllOps, OthersSame, SharedStep, ProcInv,
         LockAgrees, InOrder, Commits
<1>2. LockAgrees(p)' /\ CacheAgrees(p)'
  BY SMTT(30) DEF commit_package, WriteDb, SetState, TypeOK, ProcInv, LockAgrees, InOrder, CacheAgrees
<1>3. InOrder(p)'
  BY SMTT(30) DEF commit_package, WriteDb, SetState, TypeOK, ProcInv, LockAgrees, InOrder, Commits
<1>4. Commits(p)'
  BY SMTT(30) DEF commit_package, WriteDb, SetState, TypeOK, ProcInv, InOrder, Commits
<1> QED  BY <1>1, <1>2, <1>3, <1>4 DEF Kept, ProcInv

LEMMA Keeps_commit_end ==
  ASSUME FrontEndsOnly, NEW p \in Procs, TypeOK, ProcInv(p), commit_end(p) PROVE Kept(p)
<1> USE ConstAssumption
    DEF Goto, shared, work, bounds, At, Section, NoLock, Unlocking, NoTrans,
        NoCache, Writing, Using, States, FrontEndsOnly
<1>1. TypeOK' /\ OthersSame(p) /\ SharedStep(p)
  BY SMTT(30) DEF commit_end, AfterLoops, TypeOK, Labels, States, AllOps, OthersSame, SharedStep
<1>2. LockAgrees(p)' /\ CacheAgrees(p)'
  BY SMTT(30) DEF commit_end, AfterLoops, TypeOK, ProcInv, LockAgrees, InOrder, CacheAgrees
<1>3. InOrder(p)'
  BY SMTT(30) DEF commit_end, AfterLoops, TypeOK, ProcInv, LockAgrees, InOrder, Commits
<1>4. Commits(p)'
  BY SMTT(30) DEF commit_end, AfterLoops, TypeOK, ProcInv, InOrder, Commits
<1> QED  BY <1>1, <1>2, <1>3, <1>4 DEF Kept, ProcInv

LEMMA Keeps_hook_post ==
  ASSUME FrontEndsOnly, NEW p \in Procs, TypeOK, ProcInv(p), hook_post(p) PROVE Kept(p)
<1> USE ConstAssumption
    DEF Goto, shared, work, bounds, At, Section, NoLock, Unlocking, NoTrans,
        NoCache, Writing, Using, States, FrontEndsOnly
<1>1. TypeOK' /\ OthersSame(p) /\ SharedStep(p)
  BY SMTT(30) DEF hook_post, TypeOK, Labels, States, AllOps, OthersSame, SharedStep
<1>2. LockAgrees(p)' /\ CacheAgrees(p)'
  BY SMTT(30) DEF hook_post, TypeOK, ProcInv, LockAgrees, InOrder, CacheAgrees
<1>3. InOrder(p)'
  BY SMTT(30) DEF hook_post, TypeOK, ProcInv, LockAgrees, InOrder, Commits
<1>4. Commits(p)'
  BY SMTT(30) DEF hook_post, TypeOK, ProcInv, InOrder, Commits
<1> QED  BY <1>1, <1>2, <1>3, <1>4 DEF Kept, ProcInv

LEMMA Keeps_committed ==
  ASSUME FrontEndsOnly, NEW p \in Procs, TypeOK, ProcInv(p), committed(p) PROVE Kept(p)
<1> USE ConstAssumption
    DEF Goto, shared, work, bounds, At, Section, NoLock, Unlocking, NoTrans,
        NoCache, Writing, Using, States, FrontEndsOnly
<1>1. TypeOK' /\ OthersSame(p) /\ SharedStep(p)
  BY SMTT(30) DEF committed, SetState, TypeOK, Labels, States, AllOps, OthersSame, SharedStep
<1>2. LockAgrees(p)' /\ CacheAgrees(p)'
  BY SMTT(30) DEF committed, SetState, TypeOK, ProcInv, LockAgrees, InOrder, CacheAgrees
<1>3. InOrder(p)'
  BY SMTT(30) DEF committed, SetState, TypeOK, ProcInv, LockAgrees, InOrder, Commits
<1>4. Commits(p)'
  BY SMTT(30) DEF committed, SetState, TypeOK, ProcInv, InOrder, Commits
<1> QED  BY <1>1, <1>2, <1>3, <1>4 DEF Kept, ProcInv

LEMMA Keeps_klpm_trans_release ==
  ASSUME FrontEndsOnly, NEW p \in Procs, TypeOK, ProcInv(p), klpm_trans_release(p) PROVE Kept(p)
<1> USE ConstAssumption
    DEF Goto, shared, work, bounds, At, Section, NoLock, Unlocking, NoTrans,
        NoCache, Writing, Using, States, FrontEndsOnly
<1>1. TypeOK' /\ OthersSame(p) /\ SharedStep(p)
  BY SMTT(30) DEF klpm_trans_release, SetState, TypeOK, Labels, States, AllOps, OthersSame, SharedStep
<1>2. LockAgrees(p)' /\ CacheAgrees(p)'
  BY SMTT(30) DEF klpm_trans_release, SetState, TypeOK, ProcInv, LockAgrees, InOrder, CacheAgrees
<1>3. InOrder(p)'
  BY SMTT(30) DEF klpm_trans_release, SetState, TypeOK, ProcInv, LockAgrees, InOrder, Commits
<1>4. Commits(p)'
  BY SMTT(30) DEF klpm_trans_release, SetState, TypeOK, ProcInv, InOrder, Commits
<1> QED  BY <1>1, <1>2, <1>3, <1>4 DEF Kept, ProcInv

LEMMA Keeps_trans_freed ==
  ASSUME FrontEndsOnly, NEW p \in Procs, TypeOK, ProcInv(p), trans_freed(p) PROVE Kept(p)
<1> USE ConstAssumption
    DEF Goto, shared, work, bounds, At, Section, NoLock, Unlocking, NoTrans,
        NoCache, Writing, Using, States, FrontEndsOnly
<1>1. TypeOK' /\ OthersSame(p) /\ SharedStep(p)
  BY SMTT(30) DEF trans_freed, SetState, AfterFree, TypeOK, Labels, States, AllOps, OthersSame, SharedStep
<1>2. LockAgrees(p)' /\ CacheAgrees(p)'
  BY SMTT(30) DEF trans_freed, SetState, AfterFree, TypeOK, ProcInv, LockAgrees, InOrder, CacheAgrees
<1>3. InOrder(p)'
  BY SMTT(30) DEF trans_freed, SetState, AfterFree, TypeOK, ProcInv, LockAgrees, InOrder, Commits
<1>4. Commits(p)'
  BY SMTT(30) DEF trans_freed, SetState, AfterFree, TypeOK, ProcInv, InOrder, Commits
<1> QED  BY <1>1, <1>2, <1>3, <1>4 DEF Kept, ProcInv

LEMMA Keeps_cleanup ==
  ASSUME FrontEndsOnly, NEW p \in Procs, TypeOK, ProcInv(p), cleanup(p) PROVE Kept(p)
<1> USE ConstAssumption
    DEF Goto, shared, work, bounds, At, Section, NoLock, Unlocking, NoTrans,
        NoCache, Writing, Using, States, FrontEndsOnly
<1>1. TypeOK' /\ OthersSame(p) /\ SharedStep(p)
  BY SMTT(30) DEF cleanup, ReleaseNext, TypeOK, Labels, States, AllOps, OthersSame, SharedStep
<1>2. LockAgrees(p)' /\ CacheAgrees(p)'
  BY SMTT(30) DEF cleanup, ReleaseNext, TypeOK, ProcInv, LockAgrees, InOrder, CacheAgrees
<1>3. InOrder(p)'
  BY SMTT(30) DEF cleanup, ReleaseNext, TypeOK, ProcInv, LockAgrees, InOrder, Commits
<1>4. Commits(p)'
  BY SMTT(30) DEF cleanup, ReleaseNext, TypeOK, ProcInv, InOrder, Commits
<1> QED  BY <1>1, <1>2, <1>3, <1>4 DEF Kept, ProcInv

LEMMA Keeps_soft_interrupt_handler ==
  ASSUME FrontEndsOnly, NEW p \in Procs, TypeOK, ProcInv(p), soft_interrupt_handler(p) PROVE Kept(p)
<1> USE ConstAssumption
    DEF Goto, shared, work, bounds, At, Section, NoLock, Unlocking, NoTrans,
        NoCache, Writing, Using, States, FrontEndsOnly
<1>1. TypeOK' /\ OthersSame(p) /\ SharedStep(p)
  BY SMTT(30) DEF soft_interrupt_handler, SetState, Interruptible, TypeOK, Labels, States, AllOps, OthersSame, SharedStep
<1>2. LockAgrees(p)' /\ CacheAgrees(p)'
  BY SMTT(30) DEF soft_interrupt_handler, SetState, Interruptible, TypeOK, ProcInv, LockAgrees, InOrder, CacheAgrees
<1>3. InOrder(p)'
  BY SMTT(30) DEF soft_interrupt_handler, SetState, Interruptible, TypeOK, ProcInv, LockAgrees, InOrder, Commits
<1>4. Commits(p)'
  BY SMTT(30) DEF soft_interrupt_handler, SetState, Interruptible, TypeOK, ProcInv, InOrder, Commits
<1> QED  BY <1>1, <1>2, <1>3, <1>4 DEF Kept, ProcInv

LEMMA Keeps_Start ==
  ASSUME FrontEndsOnly, NEW p \in Procs, TypeOK, ProcInv(p), Start(p) PROVE Kept(p)
<1> USE ConstAssumption
    DEF Goto, shared, work, bounds, At, Section, NoLock, Unlocking, NoTrans,
        NoCache, Writing, Using, States, FrontEndsOnly
<1>1. TypeOK' /\ OthersSame(p) /\ SharedStep(p)
  BY SMTT(30) DEF Start, Refreshes, TypeOK, Labels, States, AllOps, OthersSame, SharedStep
<1>2. LockAgrees(p)' /\ CacheAgrees(p)'
  BY SMTT(30) DEF Start, Refreshes, TypeOK, ProcInv, LockAgrees, InOrder, CacheAgrees
<1>3. InOrder(p)'
  BY SMTT(30) DEF Start, Refreshes, TypeOK, ProcInv, LockAgrees, InOrder, Commits
<1>4. Commits(p)'
  BY SMTT(30) DEF Start, Refreshes, TypeOK, ProcInv, InOrder, Commits
<1> QED  BY <1>1, <1>2, <1>3, <1>4 DEF Kept, ProcInv

LEMMA Keeps_handle_lock ==
  ASSUME FrontEndsOnly, NEW p \in Procs, TypeOK, ProcInv(p), handle_lock(p) PROVE Kept(p)
<1> USE ConstAssumption
    DEF Goto, shared, work, bounds, At, Section, NoLock, Unlocking, NoTrans,
        NoCache, Writing, Using, States, FrontEndsOnly
<1>1. CASE lockfd[p]
  <2>1. TypeOK' /\ OthersSame(p) /\ SharedStep(p)
    BY SMTT(30), <1>1 DEF handle_lock, Locked, TypeOK, Labels, States, AllOps, OthersSame, SharedStep
  <2>2. LockAgrees(p)' /\ CacheAgrees(p)'
    BY SMTT(30), <1>1 DEF handle_lock, Locked, TypeOK, ProcInv, LockAgrees, InOrder, CacheAgrees
  <2>3. InOrder(p)'
    BY SMTT(30), <1>1 DEF handle_lock, Locked, TypeOK, ProcInv, LockAgrees, InOrder, Commits
  <2>4. Commits(p)'
    BY SMTT(30), <1>1 DEF handle_lock, Locked, TypeOK, ProcInv, InOrder, Commits
  <2> QED  BY <2>1, <2>2, <2>3, <2>4 DEF Kept, ProcInv
<1>2. CASE ~lockfd[p] /\ CanCreate /\ lockfile' = p /\ Goto(p, "lockfd") /\ UNCHANGED failed
  <2>1. TypeOK' /\ OthersSame(p) /\ SharedStep(p)
    BY SMTT(30), <1>2 DEF handle_lock, CanCreate, TypeOK, Labels, States, AllOps, OthersSame, SharedStep
  <2>2. LockAgrees(p)' /\ CacheAgrees(p)'
    BY SMTT(30), <1>2 DEF handle_lock, CanCreate, TypeOK, ProcInv, LockAgrees, InOrder, CacheAgrees
  <2>3. InOrder(p)'
    BY SMTT(30), <1>2 DEF handle_lock, CanCreate, TypeOK, ProcInv, LockAgrees, InOrder, Commits
  <2>4. Commits(p)'
    BY SMTT(30), <1>2 DEF handle_lock, CanCreate, TypeOK, ProcInv, InOrder, Commits
  <2> QED  BY <2>1, <2>2, <2>3, <2>4 DEF Kept, ProcInv
<1>3. CASE /\ ~lockfd[p] /\ failed' = [failed EXCEPT ![p] = TRUE]
          /\ Goto(p, LockFailed(caller[p])) /\ UNCHANGED lockfile
  <2>a. failed' \in [Procs -> BOOLEAN]  BY <1>3, Zenon DEF TypeOK
  <2>1. TypeOK' /\ OthersSame(p) /\ SharedStep(p)
    BY SMTT(30), <1>3, <2>a DEF handle_lock, LockFailed, TypeOK, Labels, States, AllOps, OthersSame, SharedStep
  <2>2. LockAgrees(p)' /\ CacheAgrees(p)'
    BY SMTT(30), <1>3 DEF handle_lock, LockFailed, TypeOK, ProcInv, LockAgrees, InOrder, CacheAgrees
  <2>3. InOrder(p)'
    BY SMTT(30), <1>3 DEF handle_lock, LockFailed, TypeOK, ProcInv, LockAgrees, InOrder, Commits
  <2>4. Commits(p)'
    BY SMTT(30), <1>3 DEF handle_lock, LockFailed, TypeOK, ProcInv, InOrder, Commits
  <2> QED  BY <2>1, <2>2, <2>3, <2>4 DEF Kept, ProcInv
<1> QED  BY <1>1, <1>2, <1>3, Zenon DEF handle_lock

LEMMA Keeps_unlocked ==
  ASSUME FrontEndsOnly, NEW p \in Procs, TypeOK, ProcInv(p), unlocked(p) PROVE Kept(p)
<1> USE ConstAssumption
    DEF Goto, shared, work, bounds, At, Section, NoLock, Unlocking, NoTrans,
        NoCache, Writing, Using, States, FrontEndsOnly
<1>1. CASE caller[p] \in {"klpm_release", "handler"}
  <2>1. Stop(p) /\ starts' = starts /\ signals' \in Nat /\ kills' \in Nat
    BY <1>1 DEF unlocked, TypeOK
  <2> QED  BY <2>1, StopKeeps
<1>2. CASE caller[p] = "db_update"
  <2>a. failed' \in [Procs -> BOOLEAN]  BY <1>2, Zenon DEF unlocked, TypeOK
  <2>b. PICK l \in {"cleanup", "trans_init"} : pc' = [pc EXCEPT ![p] = l]
    BY <1>2 DEF unlocked, TypeOK, ProcInv, InOrder
  <2>1. TypeOK' /\ OthersSame(p) /\ SharedStep(p)
    BY SMTT(30), <1>2, <2>b, <2>a DEF unlocked, TypeOK, Labels, States, AllOps, OthersSame, SharedStep
  <2>2. LockAgrees(p)' /\ CacheAgrees(p)'
    BY SMTT(30), <1>2, <2>b DEF unlocked, TypeOK, ProcInv, LockAgrees, InOrder, CacheAgrees
  <2>3. InOrder(p)'
    BY SMTT(30), <1>2, <2>b DEF unlocked, TypeOK, ProcInv, LockAgrees, InOrder, Commits
  <2>4. Commits(p)'
    BY SMTT(30), <1>2, <2>b DEF unlocked, TypeOK, ProcInv, InOrder, Commits
  <2> QED  BY <2>1, <2>2, <2>3, <2>4 DEF Kept, ProcInv
<1>3. CASE caller[p] = "trans_release"
  <2>1. TypeOK' /\ OthersSame(p) /\ SharedStep(p)
    BY SMTT(30), <1>3 DEF unlocked, TypeOK, Labels, States, AllOps, OthersSame, SharedStep
  <2>2. LockAgrees(p)' /\ CacheAgrees(p)'
    BY SMTT(30), <1>3 DEF unlocked, TypeOK, ProcInv, LockAgrees, InOrder, CacheAgrees
  <2>3. InOrder(p)'
    BY SMTT(30), <1>3 DEF unlocked, TypeOK, ProcInv, LockAgrees, InOrder, Commits
  <2>4. Commits(p)'
    BY SMTT(30), <1>3 DEF unlocked, TypeOK, ProcInv, InOrder, Commits
  <2> QED  BY <2>1, <2>2, <2>3, <2>4 DEF Kept, ProcInv
<1> QED  BY <1>1, <1>2, <1>3, Zenon DEF unlocked

LEMMA Keeps_Signal ==
  ASSUME FrontEndsOnly, NEW p \in Procs, TypeOK, ProcInv(p), Signal(p) PROVE Kept(p)
<1> USE ConstAssumption
    DEF Goto, shared, work, bounds, At, Section, NoLock, Unlocking, NoTrans,
        NoCache, Writing, Using, States, FrontEndsOnly
<1>1. CASE caller[p] = "klpm_release"
  <2>1. Stop(p) /\ starts' = starts /\ signals' \in Nat /\ kills' \in Nat
    BY <1>1 DEF Signal, TypeOK
  <2> QED  BY <2>1, StopKeeps
<1>2. CASE caller[p] # "klpm_release"
  <2>1. TypeOK' /\ OthersSame(p) /\ SharedStep(p)
    BY SMTT(30), <1>2 DEF Signal, TypeOK, Labels, OthersSame, SharedStep
  <2>2. pc[p] # "handler" /\ pc[p] # "down" /\ caller[p] # "handler"
    BY DEF Signal
  <2>3. saved'[p] = pc[p] /\ pc'[p] = "handler"
    BY <1>2 DEF Signal, TypeOK
  <2>4. UNCHANGED <<lockfile, localdb, lockfd, caller, op, trans, cache, add, remove, failed, after>>
    BY <1>2, Zenon DEF Signal
  <2>5. ProcInv(p)'
    <3> HIDE DEF Section, NoLock, Unlocking, NoTrans, NoCache, Writing, Using
    <3>2. LockAgrees(p)'  BY <2>2, <2>3, <2>4, ZenonT(60) DEF ProcInv, LockAgrees
    <3>3. InOrder(p)'  BY <2>2, <2>3, <2>4, ZenonT(60) DEF ProcInv, InOrder
    <3>4. CacheAgrees(p)'  BY <2>2, <2>3, <2>4, ZenonT(60) DEF ProcInv, CacheAgrees
    <3>5. Commits(p)'  BY <2>2, <2>3, <2>4, ZenonT(60) DEF ProcInv, Commits
    <3> QED  BY <3>2, <3>3, <3>4, <3>5 DEF ProcInv
  <2> QED  BY <2>1, <2>5 DEF Kept
<1> QED  BY <1>1, <1>2

LEMMA Keeps_Kill ==
  ASSUME FrontEndsOnly, NEW p \in Procs, TypeOK, ProcInv(p), Kill(p) PROVE Kept(p)
<1> USE ConstAssumption
    DEF Goto, shared, work, bounds, At, Section, NoLock, Unlocking, NoTrans,
        NoCache, Writing, Using, States, FrontEndsOnly
<1>1. Stop(p) /\ starts' = starts /\ signals' \in Nat /\ kills' \in Nat
  BY DEF Kill, TypeOK
<1> QED  BY <1>1, StopKeeps

-----------------------------------------------------------------------------
(* The invariant.                                                          *)

\* Every step a process takes, or suffers, keeps its invariant.
LEMMA StepKeeps ==
  ASSUME FrontEndsOnly, NEW p \in Procs, TypeOK, ProcInv(p),
         Run(p) \/ Start(p) \/ Signal(p) \/ Kill(p)
  PROVE  Kept(p)
BY Zenon,
     Keeps_handle_lock_fd, Keeps_klpm_unlock, Keeps_klpm_unlock_reset,
     Keeps_klpm_unlock_unlink, Keeps_klpm_db_update, Keeps_klpm_trans_init,
     Keeps_trans_alloc, Keeps_targets, Keeps_set_reason,
     Keeps_klpm_trans_prepare, Keeps_confirm, Keeps_klpm_trans_commit,
     Keeps_sync_load, Keeps_sync_check, Keeps_hook_pre, Keeps_commit_loop,
     Keeps_remove_package, Keeps_commit_package, Keeps_commit_end,
     Keeps_hook_post, Keeps_committed, Keeps_klpm_trans_release,
     Keeps_trans_freed, Keeps_cleanup, Keeps_soft_interrupt_handler,
     Keeps_Start, Keeps_handle_lock, Keeps_unlocked, Keeps_Signal, Keeps_Kill
   DEF Run

LEMMA InitIInv == Init => IInv
<1> SUFFICES ASSUME Init PROVE IInv  OBVIOUS
<1>1. TypeOK  BY DEF Init, TypeOK, Labels
<1>2. ASSUME NEW p \in Procs PROVE ProcInv(p)
  BY ConstAssumption
     DEF Init, ProcInv, LockAgrees, InOrder, CacheAgrees, Commits, At, Section,
         Unlocking, NoTrans, NoCache, Writing, Using
<1> QED  BY <1>1, <1>2 DEF IInv

\* A step of nobody that only removes a stale lock file disturbs no process.
LEMMA ClearKeeps == ASSUME IInv, ClearStaleLock PROVE IInv'
<1>1. TypeOK'  BY DEF IInv, TypeOK, ClearStaleLock, work, bounds
<1>2. ASSUME NEW p \in Procs PROVE ProcInv(p)'
  <2>1. ProcInv(p) /\ lockfile # p /\ lockfile' # p
    BY ConstAssumption DEF IInv, ClearStaleLock
  <2>2. UNCHANGED <<localdb, pc, saved, caller, lockfd, trans, op, add, remove,
                    cache, failed, after>>
    BY Zenon DEF ClearStaleLock, work
  <2>3. LockAgrees(p)'  BY <2>1, <2>2, ZenonT(60) DEF ProcInv, LockAgrees, At
  <2>4. InOrder(p)'  BY <2>1, <2>2, ZenonT(60) DEF ProcInv, InOrder, At
  <2>5. CacheAgrees(p)'  BY <2>1, <2>2, ZenonT(60) DEF ProcInv, CacheAgrees, At
  <2>6. Commits(p)'  BY <2>1, <2>2, ZenonT(60) DEF ProcInv, Commits, At
  <2> QED  BY <2>3, <2>4, <2>5, <2>6 DEF ProcInv
<1> QED  BY <1>1, <1>2 DEF IInv

LEMMA StutterKeeps == ASSUME IInv, UNCHANGED vars PROVE IInv'
<1>1. TypeOK'  BY DEF IInv, TypeOK, vars, shared, work, bounds
<1>2. ASSUME NEW p \in Procs PROVE ProcInv(p)'
  <2>1. ProcInv(p)  BY DEF IInv
  <2>2. UNCHANGED <<lockfile, localdb, pc, saved, caller, lockfd, trans, op, add,
                    remove, cache, failed, after>>
    BY Zenon DEF vars, shared, work
  <2>3. LockAgrees(p)'  BY <2>1, <2>2, ZenonT(60) DEF ProcInv, LockAgrees, At
  <2>4. InOrder(p)'  BY <2>1, <2>2, ZenonT(60) DEF ProcInv, InOrder, At
  <2>5. CacheAgrees(p)'  BY <2>1, <2>2, ZenonT(60) DEF ProcInv, CacheAgrees, At
  <2>6. Commits(p)'  BY <2>1, <2>2, ZenonT(60) DEF ProcInv, Commits, At
  <2> QED  BY <2>3, <2>4, <2>5, <2>6 DEF ProcInv
<1> QED  BY <1>1, <1>2 DEF IInv

\* Next, by who takes the step.
LEMMA NextCases ==
  ASSUME [Next]_vars
  PROVE  \/ \E p \in Procs : Run(p) \/ Start(p) \/ Signal(p) \/ Kill(p)
         \/ ClearStaleLock
         \/ UNCHANGED vars
BY Zenon DEF Next, Finished

LEMMA NextIInv == ASSUME FrontEndsOnly, IInv, [Next]_vars PROVE IInv'
<1>1. ASSUME NEW p \in Procs, Run(p) \/ Start(p) \/ Signal(p) \/ Kill(p)
      PROVE  IInv'
  <2>1. TypeOK /\ ProcInv(p)  BY DEF IInv
  <2>2. Kept(p)  BY <1>1, <2>1, StepKeeps, Zenon
  <2> QED  BY <2>2, StepOfOne, Zenon DEF Kept
<1> QED  BY <1>1, NextCases, ClearKeeps, StutterKeeps, Zenon

\* The lock file, the descriptor, the place of the main thread, the transaction
\* state, the cache and the package loops of every process agree, always.
THEOREM Invariance == ASSUME FrontEndsOnly PROVE Spec => []IInv
<1>1. IInv /\ [Next]_vars => IInv'  BY NextIInv, Zenon
<1> QED  BY <1>1, InitIInv, PTL DEF Spec

-----------------------------------------------------------------------------
(* What follows from it.                                                   *)

\* Two processes are never both between taking the lock and giving it back
\* (_klpm_handle_lock, klpm_unlock), whatever signals and deaths come between.
THEOREM Exclusion ==
  ASSUME FrontEndsOnly PROVE Spec => [](TypeOK /\ MutualExclusion)
<1>1. ASSUME IInv, NEW p \in Procs, InSection(p) PROVE lockfile = p
  <2>1. LockAgrees(p)  BY <1>1, Zenon DEF IInv, ProcInv
  <2>2. At(p) = pc[p]  BY <1>1 DEF At, InSection, Section
  <2> QED  BY <1>1, <2>1, <2>2, Zenon DEF LockAgrees, InSection
<1>2. IInv => TypeOK /\ MutualExclusion
  BY <1>1, Zenon DEF IInv, MutualExclusion
<1> QED  BY <1>2, Invariance, PTL

\* The package cache of a process in a transaction mirrors the database on disk
\* (klpm_trans_init takes the lock before the first target is looked up).
THEOREM CacheFresh == ASSUME FrontEndsOnly PROVE Spec => []CacheMirrorsDisk
<1>1. ASSUME IInv, NEW p \in Procs, InSection(p), cache[p] # -1
      PROVE  cache[p] = localdb
  <2>1. CacheAgrees(p)  BY <1>1, Zenon DEF IInv, ProcInv
  <2>2. At(p) = pc[p]  BY <1>1 DEF At, InSection, Section
  <2> QED  BY <1>1, <2>1, <2>2, Zenon DEF CacheAgrees, InSection
<1>2. IInv => CacheMirrorsDisk  BY <1>1, Zenon DEF CacheMirrorsDisk
<1> QED  BY <1>2, Invariance, PTL

\* A process that exits through cleanup() leaves no lock file of its own, also
\* when klpm_trans_init failed after it had taken the lock (klpm_release).
THEOREM CleanExit == ASSUME FrontEndsOnly PROVE Spec => []ExitUnlocks
<1>1. IInv => ExitUnlocks
  BY ZenonT(60) DEF IInv, ProcInv, LockAgrees, At, ExitUnlocks
<1> QED  BY <1>1, Invariance, PTL

\* The front ends never trip an assertion of the library (klpm_trans_prepare,
\* klpm_trans_commit, klpm_trans_release, klpm_release).
THEOREM OrderOfCalls == ASSUME FrontEndsOnly PROVE Spec => []CallsInOrder
<1>1. ASSUME IInv, NEW p \in Procs
      PROVE  /\ pc[p] \in {"trans_init", "cleanup"} => trans[p] = "NULL"
             /\ pc[p] = "prepare" => trans[p] = "INITIALIZED"
             /\ pc[p] = "commit" => trans[p] = "PREPARED" /\ ~NoLock(op[p])
             /\ pc[p] = "release" => trans[p] \in States
  <2>1. InOrder(p)  BY <1>1, Zenon DEF IInv, ProcInv
  <2>2. pc[p] # "handler" => At(p) = pc[p]  BY DEF At
  <2>3. pc[p] \in {"trans_init", "cleanup"} => trans[p] = "NULL"
    BY <2>1, <2>2 DEF InOrder, NoTrans
  <2>4. pc[p] = "prepare" => trans[p] = "INITIALIZED"  BY <2>1, <2>2 DEF InOrder
  <2>5. pc[p] = "commit" => trans[p] = "PREPARED" /\ ~NoLock(op[p])
    BY <2>1, <2>2 DEF InOrder, Writing, Using
  <2>6. pc[p] = "release" => trans[p] \in States
    BY <2>1, <2>2 DEF InOrder, Section, NoTrans
  <2> QED  BY <2>3, <2>4, <2>5, <2>6
<1>2. IInv => CallsInOrder  BY <1>1, Zenon DEF CallsInOrder
<1> QED  BY <1>2, Invariance, PTL

\* After an interrupt at most one package is committed, and the post-transaction
\* hooks run only for a transaction that was carried out completely.
THEOREM CommitLoops ==
  ASSUME FrontEndsOnly PROVE Spec => []InterruptStopsLoops
<1>1. ASSUME IInv, NEW p \in Procs
      PROVE  /\ after[p] <= 1
             /\ pc[p] = "post" => add[p] = 0 /\ remove[p] = 0 /\ ~failed[p]
  <2>1. Commits(p)  BY <1>1 DEF IInv, ProcInv
  <2>2. after[p] <= 1  BY <2>1 DEF Commits
  <2>3. pc[p] = "post" => At(p) = "post"  BY DEF At
  <2>4. pc[p] = "post" => add[p] = 0 /\ remove[p] = 0 /\ ~failed[p]
    BY <2>1, <2>3, Zenon DEF Commits
  <2> QED  BY <2>2, <2>4
<1>2. IInv => InterruptStopsLoops  BY <1>1, Zenon DEF InterruptStopsLoops
<1> QED  BY <1>2, Invariance, PTL

\* No process unlinks the lock file of another (klpm_unlock, handle.c:154).
THEOREM OwnLock == ASSUME FrontEndsOnly PROVE Spec => OnlyOwnLockRemoved
<1> DEFINE Own == lockfile # NoFile /\ lockfile' = NoFile
                    => IF lockfile = Stale THEN \A p \in Procs : pc[p] = "down"
                                           ELSE pc[lockfile] = "unlink"
<1>1. ASSUME IInv, [Next]_vars PROVE [Own]_vars
  <2>1. ASSUME NEW p \in Procs, Run(p) \/ Start(p) \/ Signal(p) \/ Kill(p) PROVE Own
    <3>1. TypeOK /\ ProcInv(p)  BY <1>1 DEF IInv
    <3>2. SharedStep(p)  BY <2>1, <3>1, StepKeeps, Zenon DEF Kept
    <3> QED  BY <3>2, ConstAssumption DEF SharedStep, shared
  <2>2. CASE ClearStaleLock  BY <2>2 DEF ClearStaleLock
  <2> QED  BY <2>1, <2>2, <1>1, NextCases, Zenon
<1>2. Spec => [][Own]_vars  BY <1>1, Invariance, PTL DEF Spec
<1> QED  BY <1>2 DEF OnlyOwnLockRemoved

\* The processes implement the abstract lock of DbLock: one holder, and every
\* write of the local database is made under it.
THEOREM Refinement == ASSUME FrontEndsOnly PROVE Spec => ImplementsDbLock
<1>1. Init => Abs!AInit  BY DEF Init, Abs!AInit
<1>2. ASSUME IInv, [Next]_vars PROVE [Abs!ANext]_(Abs!avars)
  <2>1. ASSUME NEW p \in Procs, Run(p) \/ Start(p) \/ Signal(p) \/ Kill(p)
        PROVE  [Abs!ANext]_(Abs!avars)
    <3>1. TypeOK /\ ProcInv(p)  BY <1>2 DEF IInv
    <3>2. SharedStep(p)  BY <2>1, <3>1, StepKeeps, Zenon DEF Kept
    <3> QED  BY <3>2, ConstAssumption
             DEF SharedStep, shared, Abs!ANext, Abs!avars, Abs!Acquire, Abs!Write,
                 Abs!Abandon, Abs!Drop
  <2>2. CASE ClearStaleLock
    BY <2>2, ConstAssumption DEF ClearStaleLock, Abs!ANext, Abs!Drop
  <2>3. CASE UNCHANGED vars  BY <2>3 DEF vars, shared, Abs!avars
  <2> QED  BY <2>1, <2>2, <2>3, <1>2, NextCases, Zenon
<1> QED  BY <1>1, <1>2, Invariance, PTL DEF Spec, ImplementsDbLock, Abs!ASpec
=============================================================================
