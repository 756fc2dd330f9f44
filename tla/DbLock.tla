------------------------------- MODULE DbLock -------------------------------
(***************************************************************************)
(* What the lock file of libkuzpkg promises (klpm.h, "Accessors to the     *)
(* lockfile"): two instances of the library never write to the database at *)
(* the same time.  Abstractly, a single holder, and every write of the     *)
(* database is made by the holder of that moment.  Trans.tla implements it.*)
(***************************************************************************)
EXTENDS Naturals

CONSTANTS Procs,    \* the processes that link libkuzpkg
          NoFile,   \* nobody: there is no lock file
          Stale     \* nobody: the lock file was left by a process that ended

VARIABLES holder,   \* the process whose lock file exists, NoFile or Stale
          db        \* the number of writes made to the local database

avars == <<holder, db>>

AInit == holder = NoFile /\ db = 0

Acquire(p) ==
  /\ holder = NoFile
  /\ holder' = p
  /\ UNCHANGED db

Write(p) ==
  /\ holder = p
  /\ db' = db + 1
  /\ UNCHANGED holder

\* The holder ends without giving the lock back.
Abandon(p) ==
  /\ holder = p
  /\ holder' = Stale
  /\ UNCHANGED db

\* The holder gives the lock back, or an abandoned lock is cleared.
Drop ==
  /\ holder # NoFile
  /\ holder' = NoFile
  /\ UNCHANGED db

ANext == Drop \/ \E p \in Procs : Acquire(p) \/ Write(p) \/ Abandon(p)

ASpec == AInit /\ [][ANext]_avars
=============================================================================
