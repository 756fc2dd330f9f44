------------------------------- MODULE Commit -------------------------------
(***************************************************************************)
(* Committing a transaction: the file system, the entries of the local     *)
(* database and the package cache while packages are removed, installed    *)
(* and upgraded one after the other.                                       *)
(*   lib/libkuzpkg/add.c       _klpm_upgrade_packages, commit_single_pkg   *)
(*   lib/libkuzpkg/remove.c    _klpm_remove_packages, remove_package_files *)
(*   lib/libkuzpkg/be_local.c  the database entry: prepare, write, remove, *)
(*                             populate                                    *)
(*   lib/libkuzpkg/conflict.c  _klpm_db_find_fileconflicts (skip_remove)   *)
(* One process at a time (Trans.tla shows that the lock sees to that), but *)
(* it may be interrupted, fail at any system call, or die between any two; *)
(* the next process starts from the files it left.  A file is a path that  *)
(* is no directory and that no package marks as backup and no pattern      *)
(* protects.                                                               *)
(***************************************************************************)
EXTENDS Naturals, FiniteSets

CONSTANTS
  Names,          \* package names
  Paths,          \* the files packages contain
  Files,          \* Files[n][v]: the files of version v of package n
  Installed,      \* the packages installed at first, in their old version
  Nothing,        \* no file, no database entry, no package
  Faults,         \* system calls that may fail: "unlink", "dbremove", "mkdir",
                  \* "open", "extract", "write"
  MaxRuns,        \* bound: transactions
  MaxFaults,      \* bound: failed system calls
  MaxInterrupts,  \* bound: accepted interrupts
  MaxCrashes      \* bound: processes that die

Versions == {"old", "new"}
Progress == {"absent", "partial", "complete"}
EntryRec == [desc : Progress, files : Progress]

\* The packages installed at first share no file: installing the second of two
\* that do would have been a file conflict.
ASSUME ConstAssumption ==
  /\ Files \in [Names -> [Versions -> SUBSET Paths]]
  /\ Installed \subseteq Names
  /\ \A n, m \in Installed : n # m => Files[n]["old"] \cap Files[m]["old"] = {}
  /\ Nothing \notin Names \cup Versions \cup EntryRec \cup (Names \X Versions)
  /\ Faults \subseteq {"unlink", "dbremove", "mkdir", "open", "extract", "write"}
  /\ {MaxRuns, MaxFaults, MaxInterrupts, MaxCrashes} \subseteq Nat

VARIABLES
  fs,           \* for each path, the package (name and version) whose file is there
  entry,        \* for each name and version, its directory in the local database
  pkgcache,     \* db->pkgcache: for each name, the version, or Nothing
  listed,       \* the file lists of the cached packages, as read from the entries
  add, remove,  \* what is left of trans->add and trans->remove; their order is open
  skip_remove,  \* trans->skip_remove
  state,        \* trans->state
  ret,          \* what klpm_trans_commit will return
  pc,           \* the next step of the process; "down" when there is none
  cur,          \* the package worked on
  todo,         \* its files still to be unlinked or extracted
  errors,       \* commit_single_pkg's count of extraction errors, as a Boolean
  \* history: the targets, whether the run began in a sound state, the packages
  \* for which a system call failed, and how the run ended
  targets, soundstart, hurt, ended,
  runs, faults, interrupts, crashes

disk   == <<fs, entry>>
memory == <<pkgcache, listed, add, remove, skip_remove>>
local  == <<cur, todo, errors>>
past   == <<targets, soundstart, ended, runs>>
vars   == <<disk, memory, state, ret, pc, local, past, hurt, faults,
            interrupts, crashes>>

Whole    == [desc |-> "complete", files |-> "complete"]
Empty    == [desc |-> "absent", files |-> "absent"]

Labels == {"down", "prepare", "check", "loop", "can_remove", "unlink", "db_remove",
           "rmdir", "mkdir", "open", "extract", "desc", "files", "cache"}

TypeOK ==
  /\ fs \in [Paths -> (Names \X Versions) \cup {Nothing}]
  /\ entry \in [Names -> [Versions -> EntryRec \cup {Nothing}]]
  /\ pkgcache \in [Names -> Versions \cup {Nothing}]
  /\ listed \in [Names -> SUBSET Paths]
  /\ add \in SUBSET Names /\ remove \in SUBSET Names
  /\ skip_remove \in SUBSET Paths
  /\ state \in {"PREPARED", "COMMITTING", "INTERRUPTED"} /\ ret \in {0, 1}
  /\ pc \in Labels /\ cur \in Names \cup {Nothing} /\ todo \in SUBSET Paths
  /\ errors \in BOOLEAN
  /\ pc \in {"can_remove", "unlink", "db_remove", "rmdir"} =>
       cur \in Names /\ pkgcache[cur] \in Versions
  /\ targets \in [add : SUBSET Names, remove : SUBSET Names]
  /\ soundstart \in BOOLEAN /\ hurt \in SUBSET Names
  /\ ended \in {"no", "refused", "ok", "interrupted", "error", "crash"}
  /\ runs \in 0..MaxRuns /\ faults \in 0..MaxFaults
  /\ interrupts \in 0..MaxInterrupts /\ crashes \in 0..MaxCrashes

\* The package is recorded, and recorded once, with all its metadata, and every
\* file it lists is on disk: its own, or that of one of the packages in owners.
Recorded(n)  == {v \in Versions : entry[n][v] # Nothing}
WholeBut(n, owners) ==
  /\ Cardinality(Recorded(n)) <= 1
  /\ \A v \in Recorded(n) :
       /\ entry[n][v] = Whole
       /\ \A f \in Files[n][v] :
            fs[f] = <<n, v>> \/ \E m \in owners : fs[f] = <<m, "new">>

\* Database and file system agree: every package is whole, no file is an orphan.
Sound ==
  /\ \A n \in Names : WholeBut(n, {})
  /\ \A f \in Paths : fs[f] = Nothing \/ fs[f][2] \in Recorded(fs[f][1])

Init ==
  /\ fs = [f \in Paths |-> IF \E n \in Installed : f \in Files[n]["old"]
                             THEN CHOOSE x \in Installed \X {"old"} :
                                    f \in Files[x[1]]["old"]
                             ELSE Nothing]
  /\ entry = [n \in Names |-> [v \in Versions |->
                IF n \in Installed /\ v = "old" THEN Whole ELSE Nothing]]
  /\ pkgcache = [n \in Names |-> Nothing] /\ listed = [n \in Names |-> {}]
  /\ add = {} /\ remove = {} /\ skip_remove = {}
  /\ state = "PREPARED" /\ ret = 0
  /\ pc = "down" /\ cur = Nothing /\ todo = {} /\ errors = FALSE
  /\ targets = [add |-> {}, remove |-> {}]
  /\ soundstart = TRUE /\ hurt = {} /\ ended = "no"
  /\ runs = 0 /\ faults = 0 /\ interrupts = 0 /\ crashes = 0

\* System call c fails, in the work on cur.
Fault(c) ==
  /\ c \in Faults /\ faults < MaxFaults
  /\ faults' = faults + 1
  /\ hurt' = hurt \cup {cur}

Works == UNCHANGED <<faults, hurt>>

-----------------------------------------------------------------------------
(* A process starts: local_db_populate takes every directory of the        *)
(* database for a package, and of two with one name the first it reads.    *)
(* The lists of the targets are read when they are first asked for.        *)

Populated == {c \in [Names -> Versions \cup {Nothing}] :
                \A n \in Names : IF Recorded(n) = {} THEN c[n] = Nothing
                                                     ELSE c[n] \in Recorded(n)}

\* What local_db_read gets out of a files file: all, a part, or nothing.
Readable(n, v) ==
  IF v = Nothing THEN {{}}
  ELSE CASE entry[n][v].files = "complete" -> {Files[n][v]}
         [] entry[n][v].files = "partial"  -> SUBSET Files[n][v]
         [] OTHER                          -> {{}}

Begin ==
  /\ pc = "down" /\ runs < MaxRuns
  /\ runs' = runs + 1
  /\ pkgcache' \in Populated
  /\ listed' \in {l \in [Names -> SUBSET Paths] :
                    \A n \in Names : l[n] \in Readable(n, pkgcache'[n])}
  /\ add' \in SUBSET Names
  /\ remove' \in SUBSET {n \in Names \ add' : pkgcache'[n] # Nothing}
  /\ add' \cup remove' # {}
  /\ targets' = [add |-> add', remove |-> remove']
  /\ skip_remove' = {} /\ state' = "PREPARED" /\ ret' = 0
  /\ pc' = "prepare" /\ cur' = Nothing /\ todo' = {} /\ errors' = FALSE
  /\ soundstart' = Sound /\ hurt' = {} /\ ended' = "no"
  /\ UNCHANGED <<disk, faults, interrupts, crashes>>

\* The process ends, and what it had in memory is gone.
End(how) ==
  /\ pc' = "down" /\ ended' = how
  /\ pkgcache' = [n \in Names |-> Nothing] /\ listed' = [n \in Names |-> {}]
  /\ add' = {} /\ remove' = {} /\ skip_remove' = {} /\ todo' = {}
  /\ errors' = FALSE /\ state' = "PREPARED" /\ ret' = 0
  /\ UNCHANGED <<disk, cur, targets, soundstart, runs>>

\* _klpm_sync_prepare copies the installed version of every package to be added;
\* one that cannot be read in full is an error.
CanCopy(n) ==
  \/ pkgcache[n] = Nothing
  \/ LET e == entry[n][pkgcache[n]] IN e.desc # "absent" /\ e.files # "absent"

sync_prepare ==
  /\ pc = "prepare"
  /\ IF \A n \in add : CanCopy(n)
       THEN pc' = "check" /\ UNCHANGED <<disk, memory, state, ret, local, past>>
       ELSE End("refused")
  /\ Works /\ UNCHANGED <<interrupts, crashes>>

\* _klpm_db_find_fileconflicts.  A file that is new in n and exists already is
\* no conflict when its owner is removed, or upgraded: then skip_remove keeps
\* the old owner from removing it after the new one has installed it.
Found(n)        == {f \in Files[n]["new"] \ listed[n] : fs[f] # Nothing}
LeavesWith(f)   == \E m \in remove : f \in listed[m]
ChangesHands(n, f) == ~LeavesWith(f) /\ \E m \in add \ {n} : f \in listed[m]
TargetConflicts == \E n, m \in add : n # m /\ Files[n]["new"] \cap Files[m]["new"] # {}
FileConflicts   == \E n \in add : \E f \in Found(n) :
                     ~LeavesWith(f) /\ ~ChangesHands(n, f)
\* Mutant: skip_remove never filled.
SkipRemoveNone  == {}
SkipRemove      == UNION {{f \in Found(n) : ChangesHands(n, f)} : n \in add}

sync_check ==
  /\ pc = "check"
  /\ IF add # {} /\ (TargetConflicts \/ FileConflicts)
       THEN End("refused")
       ELSE /\ pc' = "loop" /\ state' = "COMMITTING"
            /\ skip_remove' = SkipRemove
            /\ UNCHANGED <<disk, pkgcache, listed, add, remove, ret, local, past>>
  /\ Works /\ UNCHANGED <<interrupts, crashes>>

-----------------------------------------------------------------------------
(* The loops of _klpm_remove_packages and _klpm_upgrade_packages.          *)

\* Is the next package taken up?
TakesNext == state # "INTERRUPTED"

\* Is the package an old version that makes room for a new one?
Upgrading == cur \in add

\* Is there a version to remove first?
HasOld(n) == pkgcache[n] # Nothing

take_package ==
  /\ pc = "loop" /\ TakesNext
  /\ \E n \in IF remove # {} THEN remove ELSE add :
       /\ cur' = n
       /\ pc' = IF HasOld(n) THEN "can_remove" ELSE "mkdir"
  /\ UNCHANGED <<disk, memory, state, ret, todo, errors, past, interrupts, crashes>>
  /\ Works

loops_done ==
  /\ pc = "loop" /\ (~TakesNext \/ (add = {} /\ remove = {}))
  /\ End(IF ret # 0 THEN "error"
         ELSE IF state = "INTERRUPTED" THEN "interrupted" ELSE "ok")
  /\ Works /\ UNCHANGED <<interrupts, crashes>>

\* klpm_trans_interrupt from the signal handler, at any time of the commit.
trans_interrupt ==
  /\ state = "COMMITTING" /\ interrupts < MaxInterrupts
  /\ state' = "INTERRUPTED" /\ interrupts' = interrupts + 1
  /\ UNCHANGED <<disk, memory, ret, pc, local, past, crashes>> /\ Works

\* A step inside the work on one package.
Inside == UNCHANGED <<add, remove, listed, skip_remove, cur, past, interrupts, crashes>>

-----------------------------------------------------------------------------
(* _klpm_remove_single_package: the files, then the database entry, then   *)
(* the cache.  No failure of it is reported to its callers.                *)

Old == pkgcache[cur]

\* should_skip_file, of the files the database lists.
Removable == listed[cur] \ skip_remove

\* can_remove_file: one file on a read-only file system, and none is removed.
can_remove_file ==
  /\ pc = "can_remove"
  /\ \/ todo' = Removable /\ Works
     \/ todo' = {} /\ Fault("unlink")
  /\ pc' = "unlink"
  /\ UNCHANGED <<disk, pkgcache, state, ret, errors>> /\ Inside

\* unlink() is by path, whatever file is there now.
unlink_file ==
  /\ pc = "unlink"
  /\ \E f \in todo :
       /\ todo' = todo \ {f}
       /\ \/ fs' = [fs EXCEPT ![f] = Nothing] /\ Works
          \/ fs' = fs /\ Fault("unlink")
  /\ UNCHANGED <<entry, pkgcache, state, ret, errors, pc>> /\ Inside

\* Mutant: the entry not emptied.
AfterFilesKeepEntry == "rmdir"
\* The order of the two steps that follow the files.
AfterFiles == "db_remove"

files_removed ==
  /\ pc = "unlink" /\ todo = {}
  /\ pc' = AfterFiles
  /\ UNCHANGED <<disk, pkgcache, state, ret, todo, errors>> /\ Inside /\ Works

\* _klpm_local_db_remove: the files of the entry, in the order of readdir; one
\* that cannot be unlinked stays, the other goes.
db_unlink ==
  /\ pc = "db_remove" /\ entry[cur][Old] # Empty
  /\ \E part \in {q \in {"desc", "files"} : entry[cur][Old][q] # "absent"} :
       \/ /\ entry' = [entry EXCEPT ![cur][Old][part] = "absent"]
          /\ pc' = pc /\ Works
       \/ /\ entry' = [entry EXCEPT ![cur][Old] = [Empty EXCEPT ![part] = entry[cur][Old][part]]]
          /\ pc' = "rmdir" /\ Fault("dbremove")
  /\ UNCHANGED <<fs, pkgcache, state, ret, todo, errors>> /\ Inside

\* Mutant: not removed from the cache.
CacheKept == pkgcache
CacheWithoutCur == [pkgcache EXCEPT ![cur] = Nothing]

\* The directory itself goes when it is empty; then the package leaves the
\* cache, whatever became of the directory.
db_rmdir ==
  /\ \/ pc = "db_remove" /\ entry[cur][Old] = Empty
     \/ pc = "rmdir"
  /\ \/ /\ entry[cur][Old] = Empty /\ Works
        /\ entry' = [entry EXCEPT ![cur][Old] = Nothing]
     \/ entry[cur][Old] = Empty /\ entry' = entry /\ Fault("dbremove")
     \/ entry[cur][Old] # Empty /\ entry' = entry /\ Works
  /\ pkgcache' = CacheWithoutCur
  /\ IF Upgrading THEN pc' = "mkdir" /\ UNCHANGED remove
                  ELSE pc' = "loop" /\ remove' = remove \ {cur}
  /\ UNCHANGED <<fs, add, listed, skip_remove, state, ret, local, past, interrupts,
                 crashes>>

-----------------------------------------------------------------------------
(* commit_single_pkg, after the old version has gone.                      *)

\* It returns: an error interrupts the transaction.
Return(failed) ==
  /\ pc' = "loop" /\ add' = add \ {cur} /\ todo' = {} /\ errors' = FALSE
  /\ IF failed THEN state' = "INTERRUPTED" /\ ret' = 1 ELSE UNCHANGED <<state, ret>>
  /\ UNCHANGED <<fs, remove, listed, skip_remove, cur, past, interrupts, crashes>>

\* mkdir() fails when the directory exists.
local_db_prepare ==
  /\ pc = "mkdir"
  /\ \/ /\ entry[cur]["new"] = Nothing /\ Works
        /\ entry' = [entry EXCEPT ![cur]["new"] = Empty]
        /\ pc' = "open"
        /\ UNCHANGED <<fs, pkgcache, state, ret, todo, errors>> /\ Inside
     \/ /\ IF entry[cur]["new"] = Nothing THEN Fault("mkdir") ELSE Works
        /\ UNCHANGED <<entry, pkgcache>> /\ Return(TRUE)

open_archive ==
  /\ pc = "open"
  /\ \/ /\ pc' = "extract" /\ todo' = Files[cur]["new"] /\ Works
        /\ UNCHANGED <<disk, pkgcache, state, ret, errors>> /\ Inside
     \/ UNCHANGED <<entry, pkgcache>> /\ Return(TRUE) /\ Fault("open")

extract_single_file ==
  /\ pc = "extract"
  /\ \E f \in todo :
       /\ todo' = todo \ {f}
       /\ \/ fs' = [fs EXCEPT ![f] = <<cur, "new">>] /\ UNCHANGED errors /\ Works
          \/ fs' = fs /\ errors' = TRUE /\ Fault("extract")
  /\ UNCHANGED <<entry, pkgcache, state, ret, pc>> /\ Inside

extracted ==
  /\ pc = "extract" /\ todo = {}
  /\ pc' = "desc"
  /\ UNCHANGED <<disk, pkgcache, state, ret, todo, errors>> /\ Inside /\ Works

\* _klpm_local_db_write: fopen truncates or creates the file, fclose completes it.
WriteFile(part, next) ==
  \/ /\ entry[cur]["new"][part] = "absent" /\ Works
     /\ entry' = [entry EXCEPT ![cur]["new"][part] = "partial"]
     /\ UNCHANGED <<fs, pkgcache, state, ret, pc, todo, errors>> /\ Inside
  \/ /\ entry[cur]["new"][part] = "absent" /\ Fault("write")
     /\ UNCHANGED <<entry, pkgcache>> /\ Return(TRUE)
  \/ /\ entry[cur]["new"][part] = "partial" /\ Works
     /\ entry' = [entry EXCEPT ![cur]["new"][part] = "complete"]
     /\ pc' = next
     /\ UNCHANGED <<fs, pkgcache, state, ret, todo, errors>> /\ Inside

\* Mutant: the files file not written.
AfterDescOnly == "cache"
\* What is written after the desc file.
AfterDesc == "files"

db_write_desc  == pc = "desc" /\ WriteFile("desc", AfterDesc)
db_write_files == pc = "files" /\ WriteFile("files", "cache")

\* _klpm_db_add_pkgincache; extraction errors are reported only now.
add_pkgincache ==
  /\ pc = "cache"
  /\ pkgcache' = [pkgcache EXCEPT ![cur] = "new"]
  /\ UNCHANGED entry /\ Return(errors) /\ Works

-----------------------------------------------------------------------------
\* SIGKILL, a crash of the program, loss of power.
Crash ==
  /\ pc # "down" /\ crashes < MaxCrashes
  /\ crashes' = crashes + 1
  /\ End("crash")
  /\ Works /\ UNCHANGED interrupts

\* No process runs and none will be started.
Finished == pc = "down" /\ runs = MaxRuns /\ UNCHANGED vars

Next ==
  \/ Begin \/ sync_prepare \/ sync_check \/ take_package \/ loops_done
  \/ can_remove_file \/ unlink_file \/ files_removed \/ db_unlink \/ db_rmdir
  \/ local_db_prepare \/ open_archive \/ extract_single_file \/ extracted
  \/ db_write_desc \/ db_write_files \/ add_pkgincache
  \/ trans_interrupt \/ Crash \/ Finished

Spec == Init /\ [][Next]_vars

-----------------------------------------------------------------------------
(* Properties.                                                             *)

\* Whatever is interrupted, fails or dies: as long as the run began in a sound
\* state, a package is damaged only if it is the one being worked on or one of
\* its own system calls failed.  All the others are recorded once, in full, and
\* their files are on disk, also those that change hands between packages in
\* this transaction (skip_remove) and in whatever order they are committed.
DamageIsLocal ==
  soundstart => \A n \in Names \ (hurt \cup {cur}) : WholeBut(n, targets.add)

\* A transaction that began in a sound state and committed without a failed call
\* ends in a sound state: no file missing, no orphan, no stale entry.
SuccessMeansSound ==
  soundstart /\ ended = "ok" /\ hurt = {} => Sound

\* When klpm_trans_commit succeeds every package it added is recorded in full, also
\* when an earlier process died or failed and left parts of the entries behind,
\* or two entries of one name (commit_single_pkg, _klpm_local_db_write).
SuccessMeansRecorded ==
  ended = "ok" => \A n \in targets.add \ hurt : entry[n]["new"] = Whole

\* Between packages, what the cache holds is what the next process would read:
\* the later packages are checked against it.
CacheIsOnDisk ==
  pc = "loop" => \A n \in Names \ hurt : pkgcache[n] = Nothing
                                           \/ pkgcache[n] \in Recorded(n)
=============================================================================
