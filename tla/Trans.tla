-------------------------------- MODULE Trans --------------------------------
(***************************************************************************)
(* The life of a kuzpkg process as far as the database lock, the           *)
(* transaction state and the interrupt handler are concerned:              *)
(*   lib/libkuzpkg/trans.c      klpm_trans_{init,prepare,commit,interrupt, *)
(*                              release}                                   *)
(*   lib/libkuzpkg/handle.c     _klpm_handle_lock, klpm_unlock             *)
(*   lib/libkuzpkg/be_sync.c    klpm_db_update (its use of the lock)       *)
(*   src/kuzpkg/*.c             the order in which the front ends call them*)
(*   src/kuzpkg/sighandler.c    soft_interrupt_handler                     *)
(* Several processes share one file system: the lock file and the local    *)
(* database.  A step is what no signal and no other process can split: a   *)
(* system call, or an assignment to a field that the handler reads.        *)
(***************************************************************************)
EXTENDS Integers

CONSTANTS
  Procs,       \* the processes
  NoFile,      \* the value of lockfile when db.lck does not exist
  Stale,       \* its value when no process is left that will unlink db.lck
  Ops,         \* the operations they may be asked for
  MaxStarts,   \* bound: how often a process is started
  MaxPkgs,     \* bound: packages in trans->add and in trans->remove
  MaxSignals,  \* bound: SIGINT and SIGHUP sent, all processes together
  MaxKills     \* bound: processes that die without running any code of theirs

\* -R, -Rp, -S/-U, -Sw, -Sp, -Syu, -Sy/-Fy, -D --asdeps, -Sc; the last is no
\* front end but a client of the library that refreshes inside a transaction
AllOps == {"remove", "remove_print", "sync", "sync_download", "sync_print",
           "sync_refresh", "refresh", "reason", "clean", "update_in_trans"}

ASSUME ConstAssumption ==
  /\ NoFile \notin Procs /\ Stale \notin Procs /\ NoFile # Stale
  /\ Ops \subseteq AllOps
  /\ MaxStarts \in Nat /\ MaxPkgs \in Nat
  /\ MaxSignals \in Nat /\ MaxKills \in Nat

VARIABLES
  lockfile,    \* db.lck: NoFile, or the process that created it, or Stale
  localdb,     \* the version of the local database: writes made to it
  pc,          \* where each process is; "down" when it does not run
  saved,       \* the pc the signal handler interrupted
  caller,      \* who called _klpm_handle_lock or klpm_unlock
  op,          \* the operation asked for
  lockfd,      \* handle->lockfd >= 0
  trans,       \* handle->trans: "NULL", "FREED" (dangling) or trans->state
  add, remove, \* packages still to be committed of trans->add, trans->remove
  cache,       \* the localdb version the package cache mirrors; -1: not loaded
  failed,      \* the call in progress will return -1
  after,       \* history: packages committed after the interrupt was accepted
  starts, signals, kills

shared == <<lockfile, localdb>>
work   == <<op, add, remove, cache, failed, after>>
bounds == <<starts, signals, kills>>
vars   == <<shared, pc, saved, caller, lockfd, trans, work, bounds>>

Labels == {"down", "lock", "lockfd", "update", "unlock", "reset", "unlink",
           "return", "trans_init", "alloc", "targets", "maintain", "prepare", "confirm",
           "commit", "load", "loading", "hooks", "loop", "remove", "upgrade",
           "commit_end", "post", "committed", "release", "freed", "cleanup",
           "handler"}

States == {"INITIALIZED", "PREPARED", "DOWNLOADING", "COMMITTING",
           "COMMITTED", "INTERRUPTED"}

Refreshes(o) == o \in {"sync_refresh", "refresh"}
NoLock(o)    == o \in {"remove_print", "sync_print"}
Installs(o)  == o \in {"sync", "sync_download", "sync_print", "sync_refresh",
                       "update_in_trans"}

TypeOK ==
  /\ lockfile \in Procs \cup {NoFile, Stale}
  /\ localdb \in Nat
  /\ pc \in [Procs -> Labels] /\ saved \in [Procs -> Labels]
  /\ caller \in [Procs -> {"none", "db_update", "trans_init", "trans_release",
                           "klpm_release", "handler"}]
  /\ op \in [Procs -> AllOps \cup {"none"}]
  /\ lockfd \in [Procs -> BOOLEAN]
  /\ trans \in [Procs -> States \cup {"NULL", "FREED"}]
  /\ add \in [Procs -> Nat] /\ remove \in [Procs -> Nat]
  /\ cache \in [Procs -> Int]
  /\ failed \in [Procs -> BOOLEAN]
  /\ after \in [Procs -> Nat]
  /\ starts \in [Procs -> Nat] /\ signals \in Nat /\ kills \in Nat

Init ==
  /\ lockfile = NoFile
  /\ localdb = 0
  /\ pc = [p \in Procs |-> "down"] /\ saved = [p \in Procs |-> "down"]
  /\ caller = [p \in Procs |-> "none"]
  /\ op = [p \in Procs |-> "none"]
  /\ lockfd = [p \in Procs |-> FALSE]
  /\ trans = [p \in Procs |-> "NULL"]
  /\ add = [p \in Procs |-> 0] /\ remove = [p \in Procs |-> 0]
  /\ cache = [p \in Procs |-> -1]
  /\ failed = [p \in Procs |-> FALSE]
  /\ after = [p \in Procs |-> 0]
  /\ starts = [p \in Procs |-> 0] /\ signals = 0 /\ kills = 0

Goto(p, l) == pc' = [pc EXCEPT ![p] = l]

SetState(p, s) == trans' = [trans EXCEPT ![p] = s]

\* The process ceases to exist, and its memory with it; the files stay.
Stop(p) ==
  /\ Goto(p, "down")
  /\ saved' = [saved EXCEPT ![p] = "down"]
  /\ caller' = [caller EXCEPT ![p] = "none"]
  /\ op' = [op EXCEPT ![p] = "none"]
  /\ lockfd' = [lockfd EXCEPT ![p] = FALSE]
  /\ SetState(p, "NULL")
  /\ add' = [add EXCEPT ![p] = 0] /\ remove' = [remove EXCEPT ![p] = 0]
  /\ cache' = [cache EXCEPT ![p] = -1]
  /\ failed' = [failed EXCEPT ![p] = FALSE]
  /\ after' = [after EXCEPT ![p] = 0]
  /\ lockfile' = IF lockfile = p THEN Stale ELSE lockfile
  /\ UNCHANGED localdb

-----------------------------------------------------------------------------
(* main: the handler is installed, the arguments and the configuration are *)
(* read, and the front end of the operation is entered.                    *)

Start(p) ==
  /\ pc[p] = "down" /\ starts[p] < MaxStarts
  /\ \E o \in Ops :
       /\ op' = [op EXCEPT ![p] = o]
       /\ Goto(p, IF Refreshes(o) THEN "lock" ELSE "trans_init")
  /\ caller' = [caller EXCEPT ![p] = "db_update"]
  /\ starts' = [starts EXCEPT ![p] = @ + 1]
  /\ UNCHANGED <<shared, saved, lockfd, trans, add, remove, cache, failed,
                 after, signals, kills>>

-----------------------------------------------------------------------------
(* handle.c: the lock.  open() creates the file and the assignment to      *)
(* lockfd is a step of its own; so are the reset of lockfd and the unlink. *)

Locked(c) == IF c = "db_update" THEN "update" ELSE "alloc"

\* Mutant: the error return ignored.
LockFailedIgnored(c) == Locked(c)
\* Mutant: tries again for ever.
LockFailedRetried(c) == "lock"
\* open() failed: klpm_db_update goes to its cleanup, klpm_trans_init gives up.
LockFailed(c) == IF c = "db_update" THEN "unlock" ELSE "cleanup"

\* Mutant: open without O_EXCL.
CanCreateShared == TRUE
\* What open() needs to succeed: O_EXCL, no file of that name.
CanCreate == lockfile = NoFile

handle_lock(p) ==
  /\ pc[p] = "lock"
  /\ IF lockfd[p]
       THEN /\ Goto(p, Locked(caller[p]))
            /\ UNCHANGED <<lockfile, failed>>
       ELSE \/ /\ CanCreate
               /\ lockfile' = p
               /\ Goto(p, "lockfd")
               /\ UNCHANGED failed
            \/ /\ failed' = [failed EXCEPT ![p] = TRUE]
               /\ Goto(p, LockFailed(caller[p]))
               /\ UNCHANGED lockfile
  /\ UNCHANGED <<localdb, saved, caller, lockfd, trans, op, add, remove, cache,
                 after, bounds>>

handle_lock_fd(p) ==
  /\ pc[p] = "lockfd"
  /\ lockfd' = [lockfd EXCEPT ![p] = TRUE]
  /\ Goto(p, Locked(caller[p]))
  /\ UNCHANGED <<shared, saved, caller, trans, work, bounds>>

\* klpm_unlock asks for an open descriptor, and closes it.
UnlockNext(p) == IF lockfd[p] THEN "reset" ELSE "return"

klpm_unlock(p) ==
  /\ pc[p] = "unlock"
  /\ Goto(p, UnlockNext(p))
  /\ UNCHANGED <<shared, saved, caller, lockfd, trans, work, bounds>>

klpm_unlock_reset(p) ==
  /\ pc[p] = "reset"
  /\ lockfd' = [lockfd EXCEPT ![p] = FALSE]
  /\ Goto(p, "unlink")
  /\ UNCHANGED <<shared, saved, caller, trans, work, bounds>>

\* unlink() is by name: whoever created the file, it is gone (ENOENT is a
\* warning).  When it fails the file stays, with nobody left to remove it.
klpm_unlock_unlink(p) ==
  /\ pc[p] = "unlink"
  /\ \/ lockfile' = NoFile
     \/ lockfile' = IF lockfile = p THEN Stale ELSE lockfile
  /\ Goto(p, "return")
  /\ UNCHANGED <<localdb, saved, caller, lockfd, trans, work, bounds>>

\* klpm_unlock returns: to the front end after klpm_db_update, to cleanup()
\* after klpm_trans_release, to exit() after klpm_release, to _Exit() in the
\* handler.
unlocked(p) ==
  /\ pc[p] = "return"
  /\ \/ /\ caller[p] = "db_update"
        /\ Goto(p, IF trans[p] # "NULL" THEN "prepare"
                   ELSE IF failed[p] \/ op[p] = "refresh" THEN "cleanup"
                   ELSE "trans_init")
        /\ failed' = [failed EXCEPT ![p] = FALSE]
        /\ UNCHANGED <<shared, saved, caller, lockfd, trans, op, add, remove,
                       cache, after>>
     \/ /\ caller[p] = "trans_release"
        /\ Goto(p, "cleanup")
        /\ UNCHANGED <<shared, saved, caller, lockfd, trans, work>>
     \/ caller[p] \in {"klpm_release", "handler"} /\ Stop(p)
  /\ UNCHANGED bounds

-----------------------------------------------------------------------------
(* be_sync.c: klpm_db_update downloads the sync databases under the lock.  *)

klpm_db_update(p) ==
  /\ pc[p] = "update"
  /\ \E ok \in BOOLEAN : failed' = [failed EXCEPT ![p] = ~ok]
  /\ Goto(p, "unlock")
  /\ UNCHANGED <<shared, saved, caller, lockfd, trans, op, add, remove, cache,
                 after, bounds>>
-----------------------------------------------------------------------------
(* trans.c and the front ends, in the order in which the front ends call.  *)

\* Mutant: -D without the lock.
TakesLockUnlessReason(p) == ~NoLock(op[p]) /\ op[p] # "reason"
\* Does klpm_trans_init take the lock?  Not with TRANS_FLAG_NOLOCK.
TakesLock(p) == ~NoLock(op[p])

klpm_trans_init(p) ==
  /\ pc[p] = "trans_init"
  /\ caller' = [caller EXCEPT ![p] = "trans_init"]
  /\ Goto(p, IF trans[p] # "NULL" THEN "cleanup"
             ELSE IF TakesLock(p) THEN "lock" ELSE "alloc")
  /\ UNCHANGED <<shared, saved, lockfd, trans, work, bounds>>

\* CALLOC; when it fails the error return leaves the lock to klpm_release.
trans_alloc(p) ==
  /\ pc[p] = "alloc"
  /\ \/ SetState(p, "INITIALIZED") /\ Goto(p, "targets")
     \/ Goto(p, "cleanup") /\ UNCHANGED trans
  /\ UNCHANGED <<shared, saved, caller, lockfd, work, bounds>>

\* The package cache of the local database is read on first use.
LoadCache(p) ==
  cache' = [cache EXCEPT ![p] = IF @ = -1 THEN localdb ELSE @]

AfterTargets(o) ==
  CASE o = "reason"          -> "maintain"
    [] o = "clean"           -> "release"
    [] o = "update_in_trans" -> "lock"
    [] OTHER                 -> "prepare"

\* remove_target, process_target, load_packages, sync_cleancache, ...: the
\* targets are looked up and put on a list of the transaction, or refused.
targets(p) ==
  /\ pc[p] = "targets"
  /\ LoadCache(p)
  /\ \/ /\ Goto(p, AfterTargets(op[p]))
        /\ \E n \in 0..MaxPkgs :
             IF Installs(op[p])
               THEN add' = [add EXCEPT ![p] = n] /\ UNCHANGED remove
               ELSE remove' = [remove EXCEPT ![p] = n] /\ UNCHANGED add
        /\ caller' = [caller EXCEPT ![p] =
                        IF op[p] = "update_in_trans" THEN "db_update" ELSE @]
     \/ Goto(p, "release") /\ UNCHANGED <<add, remove, caller>>
  /\ UNCHANGED <<shared, saved, lockfd, trans, op, failed, after, bounds>>

\* Targets left for klpm_pkg_set_reason.
MoreTargets(p) == remove[p] > 0

\* change_install_reason: klpm_pkg_set_reason rewrites the desc file of one
\* target after the other, and goes on after a failure.
set_reason(p) ==
  /\ pc[p] = "maintain"
  /\ \/ /\ MoreTargets(p)
        /\ remove' = [remove EXCEPT ![p] = @ - 1]
        /\ \/ localdb' = localdb + 1 /\ cache' = [cache EXCEPT ![p] = @ + 1]
           \/ UNCHANGED <<localdb, cache>>
        /\ UNCHANGED pc
     \/ /\ ~MoreTargets(p)
        /\ Goto(p, "release")
        /\ UNCHANGED <<localdb, cache, remove>>
  /\ UNCHANGED <<lockfile, saved, caller, lockfd, trans, op, add, failed, after,
                 bounds>>

\* klpm_trans_prepare: an empty transaction is left as it is; an error leaves
\* the state; otherwise the lists become what the resolver made of them.
klpm_trans_prepare(p) ==
  /\ pc[p] = "prepare"
  /\ \/ Goto(p, "release") /\ UNCHANGED <<trans, add, remove>>
     \/ /\ trans[p] = "INITIALIZED" /\ Goto(p, "confirm")
        /\ IF add[p] = 0 /\ remove[p] = 0
             THEN UNCHANGED <<trans, add, remove>>
             ELSE /\ SetState(p, "PREPARED")
                  /\ \E r, a \in 0..MaxPkgs :
                       /\ add[p] = 0 => a = 0
                       /\ add' = [add EXCEPT ![p] = a]
                       /\ remove' = [remove EXCEPT ![p] = r]
  /\ UNCHANGED <<shared, saved, caller, lockfd, op, cache, failed, after,
                 bounds>>

\* Mutant: commits an empty list.
SomethingUnchecked(p) == ~NoLock(op[p])
\* What the front end commits: nothing when its list is empty or --print is on.
Something(p) ==
  /\ ~NoLock(op[p])
  /\ IF Installs(op[p]) THEN add[p] > 0 ELSE remove[p] > 0

confirm(p) ==
  /\ pc[p] = "confirm"
  /\ \/ Something(p) /\ Goto(p, "commit")
     \/ Goto(p, "release")
  /\ UNCHANGED <<shared, saved, caller, lockfd, trans, work, bounds>>

klpm_trans_commit(p) ==
  /\ pc[p] = "commit"
  /\ Goto(p, IF \/ trans[p] # "PREPARED" \/ NoLock(op[p])
                \/ (add[p] = 0 /\ remove[p] = 0)
             THEN "release"
             ELSE IF add[p] > 0 THEN "load" ELSE "hooks")
  /\ UNCHANGED <<shared, saved, caller, lockfd, trans, work, bounds>>

\* download_files: without a download directory the state is not touched.
sync_load(p) ==
  /\ pc[p] = "load"
  /\ \/ SetState(p, "DOWNLOADING") /\ Goto(p, "loading")
     \/ Goto(p, "release") /\ UNCHANGED trans
  /\ UNCHANGED <<shared, saved, caller, lockfd, work, bounds>>

\* The downloads, the validation of the packages and _klpm_sync_check: any of
\* them may fail, and --downloadonly returns here.
sync_check(p) ==
  /\ pc[p] = "loading"
  /\ \/ op[p] # "sync_download" /\ Goto(p, "hooks")
     \/ Goto(p, "release")
  /\ UNCHANGED <<shared, saved, caller, lockfd, trans, work, bounds>>

hook_pre(p) ==
  /\ pc[p] = "hooks"
  /\ \/ SetState(p, "COMMITTING") /\ Goto(p, "loop")
     \/ Goto(p, "release") /\ UNCHANGED trans
  /\ UNCHANGED <<shared, saved, caller, lockfd, work, bounds>>
-----------------------------------------------------------------------------
(* The loops of _klpm_remove_packages and _klpm_upgrade_packages.  Each     *)
(* looks at the state before it takes the next package; a signal that comes *)
(* while a package is worked on is seen only at the next look.              *)

\* Mutant: no look at the state.
StopsNever(p) == FALSE
\* Does the loop stop before the next package?
StopsHere(p) == trans[p] = "INTERRUPTED"

commit_loop(p) ==
  /\ pc[p] = "loop"
  /\ Goto(p, IF StopsHere(p) \/ (add[p] = 0 /\ remove[p] = 0)
             THEN IF failed[p] THEN "release" ELSE "commit_end"
             ELSE IF remove[p] > 0 THEN "remove" ELSE "upgrade")
  /\ UNCHANGED <<shared, saved, caller, lockfd, trans, work, bounds>>

\* One package has changed the local database and the cache that mirrors it.
WriteDb(p) ==
  /\ localdb' = localdb + 1
  /\ cache' = [cache EXCEPT ![p] = @ + 1]
  /\ after' = [after EXCEPT ![p] = IF trans[p] = "INTERRUPTED" THEN @ + 1 ELSE @]

\* _klpm_remove_single_package always returns 0.
remove_package(p) ==
  /\ pc[p] = "remove"
  /\ WriteDb(p)
  /\ remove' = [remove EXCEPT ![p] = @ - 1]
  /\ Goto(p, "loop")
  /\ UNCHANGED <<lockfile, saved, caller, lockfd, trans, op, add, failed,
                 bounds>>

\* commit_single_pkg; a failure, with or without a database entry written,
\* interrupts the transaction from within.
commit_package(p) ==
  /\ pc[p] = "upgrade"
  /\ add' = [add EXCEPT ![p] = @ - 1]
  /\ Goto(p, "loop")
  /\ \/ WriteDb(p) /\ UNCHANGED <<trans, failed>>
     \/ /\ SetState(p, "INTERRUPTED")
        /\ failed' = [failed EXCEPT ![p] = TRUE]
        /\ WriteDb(p) \/ UNCHANGED <<localdb, cache, after>>
  /\ UNCHANGED <<lockfile, saved, caller, lockfd, op, remove, bounds>>

\* Back in klpm_trans_commit: the post-transaction hooks run unless the
\* transaction was interrupted.
AfterLoops(p) == IF trans[p] = "INTERRUPTED" THEN "committed" ELSE "post"

commit_end(p) ==
  /\ pc[p] = "commit_end"
  /\ Goto(p, AfterLoops(p))
  /\ UNCHANGED <<shared, saved, caller, lockfd, trans, work, bounds>>

hook_post(p) ==
  /\ pc[p] = "post"
  /\ Goto(p, "committed")
  /\ UNCHANGED <<shared, saved, caller, lockfd, trans, work, bounds>>

committed(p) ==
  /\ pc[p] = "committed"
  /\ SetState(p, "COMMITTED")
  /\ Goto(p, "release")
  /\ UNCHANGED <<shared, saved, caller, lockfd, work, bounds>>

\* klpm_trans_release: handle->trans dangles until it is set to NULL.
klpm_trans_release(p) ==
  /\ pc[p] = "release"
  /\ SetState(p, "FREED")
  /\ Goto(p, "freed")
  /\ UNCHANGED <<shared, saved, caller, lockfd, work, bounds>>

\* Where klpm_trans_release goes when the transaction is gone.
AfterFree(p) == IF NoLock(op[p]) THEN "cleanup" ELSE "unlock"

trans_freed(p) ==
  /\ pc[p] = "freed"
  /\ SetState(p, "NULL")
  /\ caller' = [caller EXCEPT ![p] = "trans_release"]
  /\ Goto(p, AfterFree(p))
  /\ UNCHANGED <<shared, saved, lockfd, work, bounds>>

\* Mutant: klpm_release keeps the lock.
ReleaseNextNoUnlock(p) == "return"
\* cleanup() removes the handler; klpm_release refuses to go on while a
\* transaction exists, and gives back a lock that is still held.
ReleaseNext(p) == IF trans[p] = "NULL" THEN "unlock" ELSE "return"

cleanup(p) ==
  /\ pc[p] = "cleanup"
  /\ caller' = [caller EXCEPT ![p] = "klpm_release"]
  /\ Goto(p, ReleaseNext(p))
  /\ UNCHANGED <<shared, saved, lockfd, trans, work, bounds>>

-----------------------------------------------------------------------------
(* The environment: signals, sudden death, and the person who removes the  *)
(* lock file "if you're sure a package manager is not already running".    *)

\* SIGINT or SIGHUP.  Both are masked in the handler; after cleanup() has
\* removed it they kill the process.
Signal(p) ==
  /\ pc[p] \notin {"down", "handler"} /\ caller[p] # "handler"
  /\ signals < MaxSignals
  /\ signals' = signals + 1
  /\ IF caller[p] = "klpm_release"
       THEN Stop(p)
       ELSE /\ saved' = [saved EXCEPT ![p] = pc[p]]
            /\ Goto(p, "handler")
            /\ UNCHANGED <<shared, caller, lockfd, trans, work>>
  /\ UNCHANGED <<starts, kills>>

Interruptible(p) == trans[p] \in {"COMMITTING", "INTERRUPTED"}

\* soft_interrupt_handler: a transaction that is being committed is told to
\* stop and the process goes on; otherwise it unlocks and exits.  A dangling
\* handle->trans may read as either.
soft_interrupt_handler(p) ==
  /\ pc[p] = "handler"
  /\ saved' = [saved EXCEPT ![p] = "down"]
  /\ \/ /\ Interruptible(p)
        /\ SetState(p, "INTERRUPTED")
        /\ Goto(p, saved[p])
        /\ UNCHANGED caller
     \/ /\ trans[p] = "FREED"
        /\ Goto(p, saved[p])
        /\ UNCHANGED <<trans, caller>>
     \/ /\ ~Interruptible(p)
        /\ Goto(p, "unlock")
        /\ caller' = [caller EXCEPT ![p] = "handler"]
        /\ UNCHANGED trans
  /\ UNCHANGED <<shared, lockfd, work, bounds>>

\* SIGKILL, a crash, loss of power.
Kill(p) ==
  /\ pc[p] # "down" /\ kills < MaxKills
  /\ kills' = kills + 1
  /\ Stop(p)
  /\ UNCHANGED <<starts, signals>>

ClearStaleLock ==
  /\ lockfile = Stale /\ \A p \in Procs : pc[p] = "down"
  /\ lockfile' = NoFile
  /\ UNCHANGED <<localdb, pc, saved, caller, lockfd, trans, work, bounds>>

\* Nothing runs and nothing will be started.
Finished ==
  /\ \A p \in Procs : pc[p] = "down" /\ starts[p] = MaxStarts
  /\ UNCHANGED vars
-----------------------------------------------------------------------------
\* The steps of the process itself, its main thread or its handler.
Run(p) ==
  \/ handle_lock(p) \/ handle_lock_fd(p)
  \/ klpm_unlock(p) \/ klpm_unlock_reset(p) \/ klpm_unlock_unlink(p) \/ unlocked(p)
  \/ klpm_db_update(p)
  \/ klpm_trans_init(p) \/ trans_alloc(p) \/ targets(p) \/ set_reason(p)
  \/ klpm_trans_prepare(p) \/ confirm(p)
  \/ klpm_trans_commit(p) \/ sync_load(p) \/ sync_check(p) \/ hook_pre(p)
  \/ commit_loop(p) \/ remove_package(p) \/ commit_package(p)
  \/ commit_end(p) \/ hook_post(p) \/ committed(p)
  \/ klpm_trans_release(p) \/ trans_freed(p) \/ cleanup(p)
  \/ soft_interrupt_handler(p)

Next ==
  \/ \E p \in Procs : Run(p) \/ Start(p) \/ Signal(p) \/ Kill(p)
  \/ ClearStaleLock
  \/ Finished

Spec == Init /\ [][Next]_vars

\* The operating system schedules every process that can run.  Nothing is
\* assumed of starts, signals, kills, or of anyone clearing a stale lock.
FairSpec == Spec /\ \A p \in Procs : WF_vars(Run(p))

-----------------------------------------------------------------------------
(* Properties.                                                             *)

\* Between lock and unlock.  With --print there is no lock and no commit.
Section == {"update", "alloc", "targets", "maintain", "prepare", "confirm",
            "commit", "load", "loading", "hooks", "loop", "remove", "upgrade",
            "commit_end", "post", "committed", "release", "freed"}

InSection(p) == pc[p] \in Section /\ ~NoLock(op[p])

\* Two processes are never both between taking the lock and giving it back,
\* whatever signals, deaths, failed allocations and cleared stale locks come
\* between: the promise of db.lck (_klpm_handle_lock, klpm_unlock).
MutualExclusion ==
  \A p, q \in Procs : InSection(p) /\ InSection(q) => p = q

\* The package cache that targets are looked up in, and that the commit loops
\* rely on, mirrors the database on disk for as long as the transaction lasts:
\* it is loaded lazily, hence under the lock (klpm_trans_init before targets).
CacheMirrorsDisk ==
  \A p \in Procs : InSection(p) /\ cache[p] # -1 => cache[p] = localdb

\* A lock file goes away only by the unlink of the process that created it, or
\* by hand when nothing runs: no process removes the lock of another, although
\* klpm_unlock unlinks by name, after it has reset lockfd.
OnlyOwnLockRemoved ==
  [][lockfile # NoFile /\ lockfile' = NoFile
       => IF lockfile = Stale THEN \A p \in Procs : pc[p] = "down"
                              ELSE pc[lockfile] = "unlink"]_vars

\* Once an interrupt is accepted (klpm_trans_interrupt returned 0), or a
\* package has failed, at most the package being worked on is still committed;
\* and the post-transaction hooks run only when every package of both lists has
\* been committed and none has failed (klpm_trans_commit, line 230).
InterruptStopsLoops ==
  \A p \in Procs :
    /\ after[p] <= 1
    /\ pc[p] = "post" => add[p] = 0 /\ remove[p] = 0 /\ ~failed[p]

\* When cleanup() is about to exit the process has no lock file left, also when
\* klpm_trans_init failed after it had taken the lock ("free all resources
\* including storage locks", klpm.c:102).
ExitUnlocks ==
  \A p \in Procs : pc[p] = "return" /\ caller[p] = "klpm_release" => lockfile # p

\* The front ends never trip the state assertions of the library, and so never
\* get TRANS_NOT_NULL, TRANS_NOT_INITIALIZED, TRANS_NOT_PREPARED, TRANS_NULL or
\* TRANS_NOT_LOCKED: an empty transaction stays INITIALIZED after
\* klpm_trans_prepare and must not be committed.
CallsInOrder ==
  \A p \in Procs :
    /\ pc[p] \in {"trans_init", "cleanup"} => trans[p] = "NULL"
    /\ pc[p] = "prepare" => trans[p] = "INITIALIZED"
    /\ pc[p] = "commit" => trans[p] = "PREPARED" /\ ~NoLock(op[p])
    /\ pc[p] = "release" => trans[p] \in States

\* What the lock is for: seen from outside, the local database is written only
\* by the process that holds the lock (DbLock.tla).
Abs == INSTANCE DbLock WITH holder <- lockfile, db <- localdb
ImplementsDbLock == Abs!ASpec

\* Every process that is started ends: no loop of the front ends or of the
\* handler can hold the process, and with it the lock, for ever.
Termination == \A p \in Procs : pc[p] # "down" ~> pc[p] = "down"

\* klpm.h:2967 says klpm_unlock is "Safe to call from inside signal handlers",
\* and sighandler.c:48 that the handler "Performs necessary cleanup to ensure
\* database is in a consistent state": when the handler is about to call
\* _Exit the process has no lock file left.
SignalExitUnlocks ==
  \A p \in Procs : pc[p] = "return" /\ caller[p] = "handler" => lockfile # p
=============================================================================
