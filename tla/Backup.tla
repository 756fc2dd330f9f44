------------------------------- MODULE Backup -------------------------------
(***************************************************************************)
(* The life of one configuration file: packages that contain it are        *)
(* installed, upgraded and removed, the user edits it, and the copies      *)
(* FILE.pacnew, FILE.pacsave and FILE.pacsave.N come and go.               *)
(*   lib/libkuzpkg/add.c     extract_single_file                           *)
(*   lib/libkuzpkg/remove.c  unlink_file, shift_pacsave, should_skip_file  *)
(*   lib/libkuzpkg/backup.c  _klpm_needbackup                              *)
(* A content stands for its MD5 sum.  The file is a regular file in every   *)
(* package.  The process may die between any two system calls.             *)
(***************************************************************************)
EXTENDS Naturals, FiniteSetsExt

CONSTANTS
  Packaged,     \* contents that packages ship
  Edited,       \* contents only the user writes
  Partial,      \* what a failed or interrupted unpacking leaves of a file
  Nothing,      \* no file, no record, no hash
  PlainName,    \* the file's name, as a regular expression, matches itself
  Kinds,        \* what is done: "install" (also upgrade), "move", "remove", "purge"
  Faults,       \* the calls that may fail, of AllFaults
  MaxSave,      \* bound: the number of the last .pacsave.N
  MaxOps        \* bound: transactions

Contents == Packaged \cup Edited \cup {Partial}
Null     == "(null)"     \* what _klpm_local_db_write writes for a missing hash

\* Hashing the file (while removing, while installing), reading the directory in
\* shift_pacsave (or compiling its expression), the renames there and elsewhere,
\* unlinking, unpacking.
AllFaults == {"md5_remove", "md5", "scan", "rename_shift", "rename", "unlink", "extract"}

\* What a package says of FILE: whether it contains it, with which content, and
\* (for an installed one) the hash in its backup list, Nothing if not listed.
NewSays == [content : Packaged, backup : BOOLEAN]
OldSays == Contents \cup {Null, Nothing}

ASSUME ConstAssumption ==
  /\ Packaged \cap Edited = {} /\ Partial \notin Packaged \cup Edited
  /\ Nothing \notin Contents /\ Null \notin Contents
  /\ Nothing # Null /\ Nothing \notin NewSays \cup [backup : OldSays]
  /\ Faults \subseteq AllFaults /\ PlainName \in BOOLEAN
  /\ MaxSave \in Nat \ {0} /\ MaxOps \in Nat

VARIABLES
  NoUpgrade,      \* the file matches a NoUpgrade pattern of the configuration
  file, pacnew,   \* the contents of FILE and FILE.pacnew
  saves,          \* saves[0] is FILE.pacsave, saves[n] is FILE.pacsave.n
  db,             \* what the installed package says of FILE, or Nothing
  pc,             \* the next step of the transaction, or "idle"
  kind, old, new, \* what is done, and the two packages' words on FILE
  isnewfile,      \* no FILE.pacnew existed
  hash,           \* backup->hash of the new package
  shift,          \* the loop variable of shift_pacsave
  start,          \* history: FILE when the transaction began
  edits,          \* history: the user's contents that must not be lost
  failed,         \* history: the calls that failed in this transaction
  lossy,          \* history: a call failed whose failure may cost a copy
  ops

copies == <<file, pacnew, saves>>
job    == <<kind, old, new, isnewfile, hash, shift>>
past   == <<start, edits, failed, lossy, ops>>
vars   == <<copies, db, pc, job, past, NoUpgrade>>

Labels  == {"idle", "unlink_file", "shift", "save", "entry", "extract", "merge",
            "record"}

TypeOK ==
  /\ file \in Contents \cup {Nothing} /\ pacnew \in Packaged \cup {Partial, Nothing}
  /\ saves \in [0..MaxSave -> Contents \cup {Nothing}]
  /\ db \in {Nothing} \cup [backup : OldSays]
  /\ pc \in Labels /\ kind \in {"install", "move", "remove", "purge"}
  /\ old \in {Nothing} \cup [backup : OldSays]
  /\ new \in {Nothing} \cup NewSays
  /\ isnewfile \in BOOLEAN /\ hash \in Packaged \cup {Nothing}
  /\ shift \in 0..MaxSave
  /\ start \in Contents \cup {Nothing} /\ edits \subseteq Edited
  /\ failed \subseteq Faults /\ lossy \in BOOLEAN /\ NoUpgrade \in BOOLEAN
  /\ ops \in 0..MaxOps

Init ==
  /\ file = Nothing /\ pacnew = Nothing
  /\ saves = [n \in 0..MaxSave |-> Nothing] /\ db = Nothing
  /\ pc = "idle" /\ kind = "install" /\ old = Nothing /\ new = Nothing
  /\ isnewfile = FALSE /\ hash = Nothing /\ shift = 0
  /\ start = Nothing /\ edits = {} /\ failed = {} /\ ops = 0
  /\ lossy = FALSE /\ NoUpgrade \in BOOLEAN

-----------------------------------------------------------------------------
(* The user, between transactions.                                         *)

\* What the user overwrites or deletes is no loss.
edit ==
  /\ pc = "idle"
  /\ \E c \in (Packaged \cup Edited \cup {Nothing}) \ {file} :
       file' = c /\ edits' = (edits \ {file}) \cup ({c} \cap Edited)
  /\ UNCHANGED <<pacnew, saves, db, pc, job, start, failed, lossy, ops, NoUpgrade>>

delete_copy ==
  /\ pc = "idle"
  /\ \/ pacnew # Nothing /\ pacnew' = Nothing /\ UNCHANGED <<saves, edits>>
     \/ \E n \in 0..MaxSave :
          /\ saves[n] # Nothing
          /\ saves' = [saves EXCEPT ![n] = Nothing]
          /\ edits' = edits \ {saves[n]}
          /\ UNCHANGED pacnew
  /\ UNCHANGED <<file, db, pc, job, start, failed, lossy, ops, NoUpgrade>>

-----------------------------------------------------------------------------
(* A transaction begins.                                                   *)

Listed(r) == r # Nothing

\* _klpm_needbackup for the installed package.
OldBackup == Listed(old) /\ old.backup # Nothing

\* Is the content of FILE one that the packages promise to keep?  It is not when
\* the user asked for --nosave, when it is what the package had installed, or
\* when neither package marks FILE as backup.  (A package that gives FILE away does
\* not keep it: extract_single_file looks at the backup list of the new owner only.)
Promised(k, r, w) ==
  /\ k # "purge"
  /\ \/ NoUpgrade
     \/ w # Nothing /\ w.backup
     \/ k # "move" /\ r # Nothing /\ r.backup \notin {Nothing, file}

begin(k, r, w) ==
  /\ pc = "idle" /\ ops < MaxOps /\ saves[MaxSave] = Nothing
  /\ kind' = k /\ old' = r /\ new' = w /\ ops' = ops + 1
  /\ start' = file /\ failed' = {} /\ hash' = Nothing /\ isnewfile' = FALSE
  /\ edits' = IF Promised(k, r, w) THEN edits ELSE edits \ {file}
  /\ UNCHANGED <<copies, db, shift, lossy, NoUpgrade>>

\* should_skip_file.
Skips(k, w) == NoUpgrade \/ k = "move" \/ (w # Nothing /\ w.backup)

\* _klpm_db_find_fileconflicts: an existing file is a conflict unless it belongs
\* to the old version, to a package upgraded too, or the new one has it as backup.
Conflict(r, w) == r = Nothing /\ w # Nothing /\ ~w.backup /\ file # Nothing

install ==
  /\ "install" \in Kinds
  /\ \E w \in NewSays \cup {Nothing} :
       /\ ~Conflict(db, w) /\ (w = Nothing => Listed(db))
       /\ begin("install", db, w)
       /\ pc' = IF Listed(db) THEN IF Skips("install", w) THEN "entry" ELSE "unlink_file"
                ELSE "extract"

\* The package with FILE is upgraded to one without it, and another package of the
\* same transaction brings it: skip_remove holds, and the other package's own old
\* version says nothing of FILE.
move ==
  /\ "move" \in Kinds /\ Listed(db) /\ file # Nothing
  /\ \E w \in NewSays : begin("move", db, w)
  /\ pc' = "entry"

remove ==
  /\ Listed(db)
  /\ \E k \in {"remove", "purge"} \cap Kinds : begin(k, db, Nothing)
  /\ pc' = IF NoUpgrade THEN "entry" ELSE "unlink_file"

\* A call fails.
Fault(c) ==
  /\ c \in Faults /\ failed' = failed \cup {c}
  /\ lossy' = (lossy \/ c \in {"md5_remove", "scan", "rename_shift"})
Works == UNCHANGED <<failed, lossy>>
-----------------------------------------------------------------------------
(* unlink_file: a backup file that was changed becomes FILE.pacsave, after *)
(* shift_pacsave has made room; any other is unlinked.                     *)

\* Does FILE differ from what was installed?
Modified == file # old.backup

\* The numbers readdir finds.  The name is used as a regular expression as it is.
Numbers == IF PlainName THEN {n \in 1..MaxSave : saves[n] # Nothing} ELSE {}

\* Mutant: the loop begins one too low.
LogMaxShort == IF Numbers = {} THEN 0 ELSE Max(Numbers) - 1
LogMax == IF Numbers = {} THEN 0 ELSE Max(Numbers)

\* A hash that cannot be computed counts as unmodified.  When shift_pacsave cannot
\* read the directory it shifts nothing, and the file is renamed all the same.
unlink_file ==
  /\ pc = "unlink_file"
  /\ \/ file = Nothing /\ pc' = "entry" /\ UNCHANGED file /\ Works
     \/ /\ file # Nothing /\ OldBackup /\ kind # "purge" /\ Modified
        /\ \/ pc' = "shift" /\ Works /\ UNCHANGED file
           \/ pc' = "save" /\ Fault("scan") /\ UNCHANGED file
           \/ pc' = "entry" /\ Fault("md5_remove") /\ file' = Nothing
     \/ /\ file # Nothing /\ ~(OldBackup /\ kind # "purge" /\ Modified)
        /\ pc' = "entry"
        /\ \/ file' = Nothing /\ Works
           \/ UNCHANGED file /\ Fault("unlink")
  /\ shift' = LogMax
  /\ UNCHANGED <<pacnew, saves, db, kind, old, new, isnewfile, hash, start, edits, ops, NoUpgrade>>

\* One turn of the loop renames FILE.pacsave.N to FILE.pacsave.(N+1), if it is
\* there; the last renames FILE.pacsave to FILE.pacsave.1.
shift_pacsave ==
  /\ pc = "shift"
  /\ \/ /\ saves' = IF saves[shift] = Nothing THEN saves
                    ELSE [saves EXCEPT ![shift + 1] = saves[shift], ![shift] = Nothing]
        /\ Works
     \/ UNCHANGED saves /\ Fault("rename_shift")
  /\ IF shift = 0 THEN pc' = "save" /\ UNCHANGED shift
                  ELSE pc' = pc /\ shift' = shift - 1
  /\ UNCHANGED <<file, pacnew, db, kind, old, new, isnewfile, hash, start, edits, ops, NoUpgrade>>

save ==
  /\ pc = "save"
  /\ \/ saves' = [saves EXCEPT ![0] = file] /\ file' = Nothing /\ Works
     \/ UNCHANGED <<saves, file>> /\ Fault("rename")
  /\ pc' = "entry"
  /\ UNCHANGED <<pacnew, db, job, start, edits, ops, NoUpgrade>>

\* The entry of the old package goes; a transaction that brings no FILE ends.
entry_removed ==
  /\ pc = "entry"
  /\ db' = Nothing
  /\ pc' = IF new = Nothing THEN "idle" ELSE "extract"
  /\ UNCHANGED <<copies, job, past, NoUpgrade>>
-----------------------------------------------------------------------------
(* extract_single_file.                                                    *)

\* oldbackup->hash: that of the new package's own old version.
Orig == IF kind # "move" /\ OldBackup THEN old.backup ELSE Nothing

needbackup == file # Nothing /\ ~NoUpgrade /\ (Orig # Nothing \/ new.backup)

\* Is the file unpacked beside the existing one?
ToPacnew == needbackup \/ (NoUpgrade /\ file # Nothing)

\* perform_extraction unlinks what is there before it writes: a failure or a crash
\* leaves the target as it was, missing or incomplete.
Unfinished ==
  IF ToPacnew THEN pacnew' \in {pacnew, Nothing, Partial} /\ UNCHANGED file
              ELSE file' \in {file, Nothing, Partial} /\ UNCHANGED pacnew

\* What is hashed for the new package's backup list: the file as unpacked.
Md5Unpacked == new.content

extract ==
  /\ pc = "extract"
  /\ isnewfile' = (pacnew = Nothing)
  /\ \/ /\ IF ToPacnew THEN pacnew' = new.content /\ UNCHANGED file
                       ELSE file' = new.content /\ UNCHANGED pacnew
        /\ pc' = IF needbackup THEN "merge" ELSE "record"
        /\ \/ hash' = (IF new.backup THEN Md5Unpacked ELSE Nothing) /\ Works
           \/ new.backup /\ hash' = Nothing /\ Fault("md5")
     \/ Unfinished /\ Fault("extract") /\ pc' = "record" /\ UNCHANGED hash
  /\ UNCHANGED <<saves, db, kind, old, new, shift, start, edits, ops, NoUpgrade>>

\* Mutant: a version like the original is installed over what the user wrote.
ActionTwoWay(local, pkg) ==
  CASE pkg # Nothing /\ Orig = pkg    -> "install"
    [] local # Nothing /\ Orig = local -> "install"
    [] OTHER                          -> "keep"
\* What the hashes of the local, the new and the original file decide.
Action(local, pkg) ==
  CASE local # Nothing /\ local = pkg  -> "install"
    [] pkg # Nothing /\ Orig = pkg     -> "leave"
    [] local # Nothing /\ Orig = local -> "install"
    [] OTHER                           -> "keep"

\* klpm_compute_md5sum of a file that exists.
Md5(c) == {c} \cup {x \in {Nothing} : "md5" \in Faults}

\* try_rename.
Renamed == file' = pacnew /\ pacnew' = Nothing

merge ==
  /\ pc = "merge"
  /\ pc' = "record"
  /\ \E local \in Md5(file), pkg \in IF new.backup THEN {hash} ELSE Md5(pacnew) :
       LET act == Action(local, pkg) IN
       \/ /\ IF Nothing \in {local, pkg} THEN Fault("md5") ELSE Works
          /\ \/ act = "install" /\ Renamed
             \/ /\ act = "leave" /\ UNCHANGED file
                /\ pacnew' = IF isnewfile THEN Nothing ELSE pacnew
             \/ act = "keep" /\ UNCHANGED <<file, pacnew>>
       \/ act = "install" /\ Fault("rename") /\ UNCHANGED <<file, pacnew>>
  /\ UNCHANGED <<saves, db, job, start, edits, ops, NoUpgrade>>

\* _klpm_local_db_write.
recorded ==
  /\ pc = "record"
  /\ db' = [backup |-> IF ~new.backup THEN Nothing
                       ELSE IF hash = Nothing THEN Null ELSE hash]
  /\ pc' = "idle"
  /\ UNCHANGED <<copies, job, past, NoUpgrade>>

Crash ==
  /\ pc # "idle" /\ pc' = "idle"
  /\ IF pc = "extract" THEN Unfinished ELSE UNCHANGED <<file, pacnew>>
  /\ UNCHANGED <<saves, db, job, past, NoUpgrade>>

Next ==
  \/ edit \/ delete_copy \/ install \/ move \/ remove
  \/ unlink_file \/ shift_pacsave \/ save \/ entry_removed
  \/ extract \/ merge \/ recorded \/ Crash

Spec == Init /\ [][Next]_vars

-----------------------------------------------------------------------------
(* Properties.                                                             *)

\* What the user wrote into a configuration file is still there, in the file or in
\* a .pacsave, whatever is upgraded or removed, wherever the process dies, and
\* whichever call fails outside the shifting of copies, unless the user has
\* replaced or deleted it (unlink_file, shift_pacsave, extract_single_file).  Even
\* where the directory cannot be read or a rename fails, the content that the
\* transaction found is still there; only older copies may be lost.
EditsKept ==
  LET Kept(u) == file = u \/ \E n \in 0..MaxSave : saves[n] = u
  IN  /\ ~lossy => \A u \in edits : Kept(u)
      /\ pc # "idle" /\ start \in edits /\ "md5_remove" \notin failed => Kept(start)

\* The table "Handling Config Files" of doc/kuzpkg.8.asciidoc, and, for a file that
\* the new version no longer marks as backup, the .pacsave of a changed one.  And
\* kuzpkg.conf(5): NoUpgrade files "will never be touched during a package
\* install/upgrade".
DocumentedOutcome ==
  /\ pc = "record" /\ failed = {} /\ kind = "install" /\ ~NoUpgrade =>
       CASE start = Nothing -> file = new.content
         [] start # Nothing /\ new.backup ->
              IF Orig = start \/ start = new.content THEN file = new.content
              ELSE IF Orig = new.content THEN file = start
              ELSE file = start /\ pacnew = new.content
         [] OTHER -> /\ file = new.content
                     /\ Orig \notin {Nothing, start} => saves[0] = start
  /\ pc # "idle" /\ NoUpgrade /\ start # Nothing => file = start
=============================================================================
