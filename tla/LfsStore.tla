------------------------------ MODULE LfsStore ------------------------------
(***************************************************************************)
(* The package store of packinstall-lfs (src/src/util/packinstall-lfs.c):  *)
(* `create-legacy` archives a stage directory, `install` extracts an       *)
(* archive over the root and records a manifest in                         *)
(* /var/lib/packinstall-lfs/NAME/VERSION/ABI, `remove` deletes what the    *)
(* manifest lists.  There is no lock, no ownership check between packages  *)
(* and no transaction: every command is a sequence of steps, each of which *)
(* may fail, and the process may be killed between two of them.            *)
(*                                                                         *)
(* A path is the sequence of its components under the root, a package is   *)
(* its key (name, version and ABI).                                        *)
(***************************************************************************)
EXTENDS Naturals, Sequences, Functions

CONSTANTS
    Pkgs,       \* the package keys
    Builds,     \* a package is archived from a stage as one of these builds
    Listing,    \* Listing[p][b]: the members of build b of p, as tar lists them
    Dirs,       \* the paths that are directories, in every archive
    Base,       \* what lies under the root before the first command
    MaxCmds,    \* bound: commands run one after the other
    MaxFaults   \* bound: failing system calls, failing children and kills

\* The path q lies below the directory d.
Below(q, d) == Len(q) > Len(d) /\ SubSeq(q, 1, Len(d)) = d

VARIABLES
    archive,    \* the package files: none, torn (tar failed) or whole
    staged,     \* packages whose stage directory still holds a PKGINFO
    root,       \* the paths that exist under the root
    db,         \* none, dir (the directory without a manifest) or manifest
    manifest,   \* what the file "files" of a package lists
    cmd,        \* the running command
    exit,       \* how the last command of a package ended
    cut,        \* history: packages with a kill, a failed step or a rebuild
    partial,    \* history: recorded packages whose removal was killed
    cmds, faults

storeVars == <<archive, staged, root, db, manifest, cmd, exit, cut,
              partial, cmds, faults>>

NoArchive == [state |-> "none", dot |-> FALSE, build |-> CHOOSE b \in Builds : TRUE]
Idle == [op |-> "idle", pkg |-> CHOOSE p \in Pkgs : TRUE,
         build |-> CHOOSE b \in Builds : TRUE, step |-> "none", todo |-> <<>>]

\* safe_member(): not absolute, not starting with "..", no ".." and no "."
\* between two slashes; "." and "./" are fine.
safe_member(m) ==
    /\ m # <<>> /\ m[1] # ""
    /\ \/ m \in {<<".">>, <<".", "">>}
       \/ /\ m[1] # ".."
          /\ \A i \in 2..Len(m) - 1 : m[i] \notin {".", ".."}

\* The path below the root that a member of a "./"-prefixed archive names.
Target(m) == SelectSeq(m, LAMBDA c : c \notin {".", ""})

PKGINFO == <<".", "PKGINFO">>

\* What tar -C STAGE -c . archives and lists, and what a file system is: a directory
\* comes before what lies below it.
ASSUME ListingAssumption ==
    /\ \A p \in Pkgs : \A b \in DOMAIN Listing[p] :
         LET L == Listing[p][b] IN
           /\ L \in Seq(Range(L))
           /\ \A i \in DOMAIN L : \A d \in Dirs :
                Below(L[i], d) => \E j \in 1..(i - 1) : L[j] = d
    /\ \A f \in Base : \A d \in Dirs : Below(f, d) => d \in Base
    /\ Target(PKGINFO) \notin Dirs /\ Builds # {}

\* What tar -tf prints for an archive: create-legacy archives ".", so its
\* members start with "./"; makepkg archives the names themselves.
Members(a, p) ==
    [i \in DOMAIN Listing[p][a.build] |->
        IF a.dot THEN <<".">> \o Listing[p][a.build][i] ELSE Listing[p][a.build][i]]

validate_archive(a, p) ==
    /\ a.state = "whole"
    /\ \A i \in DOMAIN Members(a, p) : safe_member(Members(a, p)[i])

\* tar -xOf PACKAGE ./PKGINFO finds the member by that very name.
HasPkginfo(a) == a.dot

\* package_info(): the command `info` prints PKGINFO, or dies.
package_info(p) == archive[p].state = "whole" /\ HasPkginfo(archive[p])

\* find -mindepth 3 -maxdepth 3 -type d: a package is listed by its directory.
list_packages == {p \in Pkgs : db[p] # "none"}

Children(d) == {q \in root : Below(q, d)}
Busy(p) == cmd # Idle /\ cmd.pkg = p
Listed(p) == IF db[p] = "manifest" THEN Range(manifest[p]) ELSE {}

-----------------------------------------------------------------------------
StoreInit ==
    /\ archive = [p \in Pkgs |-> NoArchive]
    /\ staged = {}
    /\ root = Base
    /\ db = [p \in Pkgs |-> "none"]
    /\ manifest = [p \in Pkgs |-> <<>>]
    /\ cmd = Idle
    /\ exit = [p \in Pkgs |-> "none"]
    /\ cut = {} /\ partial = {}
    /\ cmds = 0 /\ faults = 0

Begin(op, p, b, step, todo) ==
    /\ cmd = Idle /\ cmds < MaxCmds
    /\ cmds' = cmds + 1
    /\ cmd' = [op |-> op, pkg |-> p, build |-> b, step |-> step, todo |-> todo]

Ends(p, how) == cmd' = Idle /\ exit' = [exit EXCEPT ![p] = how]
Fault == faults < MaxFaults /\ faults' = faults + 1

\* create_legacy(): PKGINFO is written into the stage, tar archives the stage
\* and PKGINFO is unlinked again, whether tar succeeded or not.  A tar that
\* fails leaves what it has written under the output name.
LegacyBegin(p, b) ==
    /\ Begin("legacy", p, b, "tar", <<>>)
    /\ staged' = staged \cup {p}
    /\ UNCHANGED <<archive, root, db, manifest, exit, cut, faults, partial>>

LegacyTar ==
    /\ cmd.op = "legacy"
    /\ staged' = staged \ {cmd.pkg}
    /\ \/ /\ archive' = [archive EXCEPT ![cmd.pkg] =
                            [state |-> "whole", dot |-> TRUE, build |-> cmd.build]]
          /\ Ends(cmd.pkg, "ok")
          /\ UNCHANGED faults
       \/ /\ Fault
          /\ archive' = [archive EXCEPT ![cmd.pkg] =
                            [state |-> "torn", dot |-> TRUE, build |-> cmd.build]]
          /\ Ends(cmd.pkg, "fail")
    /\ UNCHANGED <<root, db, manifest, cut, cmds, partial>>

\* install_package() up to ensure_dir(): an archive that tar cannot list, an
\* unsafe member or a missing "./PKGINFO" ends the command before anything is
\* changed under the root.  PKGINFO always has a name and a version here.
InstallRefused(p) ==
    /\ archive[p].state # "none"
    /\ ~(validate_archive(archive[p], p) /\ HasPkginfo(archive[p]))
    /\ cmd = Idle /\ cmds < MaxCmds
    /\ cmds' = cmds + 1
    /\ Ends(p, "fail")
    /\ UNCHANGED <<archive, staged, root, db, manifest, cut, faults, partial>>

InstallBegin(p) ==
    /\ validate_archive(archive[p], p) /\ HasPkginfo(archive[p])
    /\ Begin("install", p, archive[p].build, "extract", Listing[p][archive[p].build])
    /\ db' = [db EXCEPT ![p] = IF @ = "none" THEN "dir" ELSE @]
    /\ UNCHANGED <<archive, staged, root, manifest, exit, cut, faults, partial>>

\* tar -xpf extracts one member after the other and leaves PKGINFO out.
InstallExtract ==
    /\ cmd.op = "install" /\ cmd.todo # <<>>
    /\ root' = IF Head(cmd.todo) = Target(PKGINFO)
               THEN root ELSE root \cup {Head(cmd.todo)}
    /\ cmd' = [cmd EXCEPT !.todo = Tail(@)]
    /\ UNCHANGED <<archive, staged, db, manifest, exit, cut, cmds, faults, partial>>

\* A tar that fails ends the command; what it has extracted stays.
InstallFails ==
    /\ cmd.op = "install" /\ cmd.todo # <<>>
    /\ Fault
    /\ Ends(cmd.pkg, "fail")
    /\ cut' = cut \cup {cmd.pkg}
    /\ UNCHANGED <<archive, staged, root, db, manifest, cmds, partial>>

\* The manifest is the archive's listing, "PKGINFO" left out: the sed pattern
\* is anchored and does not match "./PKGINFO".  It is written to /tmp and
\* renamed into the database.
ManifestOf(p, b) == Listing[p][b]

Replaced(p, new) == Listed(p) \ (Dirs \cup Range(new))

InstallRecord ==
    /\ cmd.op = "install" /\ cmd.todo = <<>>
    /\ manifest' = [manifest EXCEPT ![cmd.pkg] = ManifestOf(cmd.pkg, cmd.build)]
    /\ db' = [db EXCEPT ![cmd.pkg] = "manifest"]
    /\ partial' = partial \ {cmd.pkg}
    /\ cut' = cut \cup {p \in {cmd.pkg} : Replaced(p, ManifestOf(p, cmd.build)) # {}}
    /\ Ends(cmd.pkg, "ok")
    /\ UNCHANGED <<archive, staged, root, cmds, faults>>

\* A listing or a rename that fails (/tmp on another file system) costs the
\* manifest, at most with a warning: the command still succeeds.
InstallUnrecorded ==
    /\ cmd.op = "install" /\ cmd.todo = <<>>
    /\ Fault
    /\ cut' = cut \cup {cmd.pkg}
    /\ Ends(cmd.pkg, "ok")
    /\ UNCHANGED <<archive, staged, root, db, manifest, cmds, partial>>

\* remove_package(): without a manifest the package is "not installed".
RemoveRefused(p) ==
    /\ db[p] # "manifest"
    /\ cmd = Idle /\ cmds < MaxCmds
    /\ cmds' = cmds + 1
    /\ Ends(p, "fail")
    /\ UNCHANGED <<archive, staged, root, db, manifest, cut, faults, partial>>

RemoveBegin(p) ==
    /\ db[p] = "manifest"
    /\ Begin("remove", p, CHOOSE b \in Builds : TRUE, "entry", manifest[p])
    /\ UNCHANGED <<archive, staged, root, db, manifest, exit, cut, faults, partial>>

\* One line of the manifest: rmdir() for a directory, which an entry below it
\* prevents, unlink() for anything else.
RemoveEntry ==
    /\ cmd.op = "remove" /\ cmd.step = "entry" /\ cmd.todo # <<>>
    /\ LET m == Head(cmd.todo) IN
         root' = IF m \in Dirs /\ Children(m) # {} THEN root ELSE root \ {m}
    /\ cmd' = [cmd EXCEPT !.todo = Tail(@)]
    /\ UNCHANGED <<archive, staged, db, manifest, exit, cut, cmds, faults, partial>>

\* An unlink() that fails is reported and forgotten.
RemoveEntryFails ==
    /\ cmd.op = "remove" /\ cmd.step = "entry" /\ cmd.todo # <<>>
    /\ Head(cmd.todo) \in root \ Dirs
    /\ Fault
    /\ cut' = cut \cup {cmd.pkg}
    /\ cmd' = [cmd EXCEPT !.todo = Tail(@)]
    /\ UNCHANGED <<archive, staged, root, db, manifest, exit, cmds, partial>>

\* unlink(files) comes before rmdir(db).
RemoveUnlinkFirst ==
    /\ cmd.op = "remove" /\ cmd.step = "entry"
    /\ db' = [db EXCEPT ![cmd.pkg] = "dir"]
    /\ cmd' = [cmd EXCEPT !.step = "rmdir", !.todo = <<>>]
    /\ UNCHANGED <<archive, staged, root, manifest, exit, cut, cmds, faults, partial>>

RemoveUnlink ==
    /\ cmd.op = "remove" /\ cmd.step = "entry" /\ cmd.todo = <<>>
    /\ db' = [db EXCEPT ![cmd.pkg] = "dir"]
    /\ cmd' = [cmd EXCEPT !.step = "rmdir"]
    /\ UNCHANGED <<archive, staged, root, manifest, exit, cut, cmds, faults, partial>>

RemoveEnd ==
    /\ cmd.op = "remove" /\ cmd.step = "rmdir"
    /\ db' = [db EXCEPT ![cmd.pkg] = "none"]
    /\ Ends(cmd.pkg, "ok")
    /\ UNCHANGED <<archive, staged, root, manifest, cut, cmds, faults, partial>>

\* The process is killed between two steps.  A remove that is killed before
\* it has dropped the manifest can be run again.
Kill ==
    /\ cmd # Idle
    /\ Fault
    /\ cut' = IF cmd.op = "remove" /\ cmd.step = "entry" THEN cut ELSE cut \cup {cmd.pkg}
    /\ archive' = IF cmd.op = "legacy"
                  THEN [archive EXCEPT ![cmd.pkg] = [@ EXCEPT !.state = "torn"]]
                  ELSE archive
    /\ partial' = IF cmd.op = "remove" THEN partial \cup {cmd.pkg} ELSE partial
    /\ Ends(cmd.pkg, "killed")
    /\ UNCHANGED <<staged, root, db, manifest, cmds>>

StoreNext ==
    \/ \E p \in Pkgs :
        \/ \E b \in Builds : b \in DOMAIN Listing[p] /\ LegacyBegin(p, b)
        \/ InstallRefused(p) \/ InstallBegin(p)
        \/ RemoveRefused(p) \/ RemoveBegin(p)
    \/ LegacyTar
    \/ InstallExtract \/ InstallFails \/ InstallRecord \/ InstallUnrecorded
    \/ RemoveEntry \/ RemoveEntryFails \/ RemoveUnlink \/ RemoveEnd
    \/ Kill

-----------------------------------------------------------------------------
AllOf(p) == UNION {Range(Listing[p][b]) : b \in DOMAIN Listing[p]}
Paths == Base \cup UNION {AllOf(p) : p \in Pkgs}

\* Type invariant of the store.
StoreTypeOK ==
    /\ \A p \in Pkgs : archive[p].state \in {"none", "torn", "whole"}
    /\ staged \cup cut \cup partial \subseteq Pkgs
    /\ root \subseteq Paths
    /\ db \in [Pkgs -> {"none", "dir", "manifest"}]
    /\ \A p \in Pkgs : Range(manifest[p]) \subseteq Paths
    /\ cmd.op \in {"idle", "legacy", "install", "remove"}
    /\ exit \in [Pkgs -> {"none", "ok", "fail", "killed"}]
    /\ cmds \in 0..MaxCmds /\ faults \in 0..MaxFaults

\* Every file under the root that no package of the base system brought is
\* listed in a manifest, so that some `remove` can delete it: install records
\* what it extracts, and a remove that is killed while it deletes files has
\* still its manifest and can be run again.  Excepted are packages with an
\* accident (a killed or failed install, a manifest that was not saved, a file
\* that could not be unlinked, a rebuild installed over another) and the
\* package being installed.
NoOrphans ==
    \A f \in root \ (Base \cup Dirs) :
        \/ \E p \in Pkgs : f \in Listed(p)
        \/ \E p \in cut : f \in AllOf(p)
        \/ cmd.op = "install" /\ f \in AllOf(cmd.pkg)

\* A package that is recorded has all its files, whatever other packages were
\* installed and removed meanwhile, as long as no other package ships the same
\* path: removing one takes a directory that both have only when nothing is below it.
InstalledIntact ==
    \A p \in Pkgs \ cut :
        (db[p] = "manifest" /\ p \notin partial /\ ~Busy(p)) =>
            \A f \in Listed(p) \ {Target(PKGINFO)} :
                \/ f \in root
                \/ /\ \E q \in Pkgs \ {p} : f \in AllOf(q)
                   /\ f \in Dirs => Children(f) = {}

\* What `list` prints can be removed: the directory of a package that is not
\* being installed or removed has its manifest, unless a command on it was cut
\* short or could not save the manifest.
ListedIsRemovable ==
    \A p \in list_packages : db[p] = "manifest" \/ p \in cut \/ Busy(p)

\* Root and store agree whatever sequence of commands was run: no file without a
\* package, no package without a file, no package that cannot be removed.
StoreAgrees == NoOrphans /\ InstalledIntact /\ ListedIsRemovable
=============================================================================
