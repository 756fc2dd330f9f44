----------------------------- MODULE LfsCreate -----------------------------
(***************************************************************************)
(* `packinstall-lfs create` (src/src/util/packinstall-lfs.c): the source   *)
(* directory and the PKGBUILD are resolved from the command line, the      *)
(* build system and the metadata are detected, a wrapper PKGBUILD with     *)
(* generated build() and package() functions is written, and makepkg runs  *)
(* it.  For root the builder account is created first, the source tree is  *)
(* copied, makepkg runs as the builder and the package is copied back.     *)
(*                                                                         *)
(* A path is the sequence of its components; `src` below is the directory  *)
(* the user means.  Every helper dies on its first error, so the command   *)
(* is a chain of steps each of which may end it.                           *)
(***************************************************************************)
EXTENDS Naturals, Sequences, Functions

CONSTANTS
    Invocations,    \* command lines: dir, arg, script, system, abi, output, nobuild
    Trees,          \* the marker files of source trees
    Projects,       \* contents of a project file, as sequences of lines
    Machines,       \* what uname() may say
    MaxKills,       \* bound: kills of the process
    MaxCreates      \* bound: invocations one after the other

VARIABLES
    step,       \* where the command is: idle, a step, done or dead
    inv,        \* the command line
    tree,       \* the files of the source directory: markers and PKGBUILD
    art,        \* build products in the source directory, old or new
    pkgbuild,   \* main()'s buffer of that name
    abi,        \* the ABI profile's name
    wrapper,    \* the generated PKGBUILD
    work,       \* where makepkg builds: none, source or copy
    made,       \* what the package of the last makepkg holds
    place,      \* where that package lies: none, out, output or source
    passwd, group,  \* the builder's entries in /etc/passwd and /etc/group
    euid0,      \* the caller is root
    why,        \* the error the command died with
    kills, creates

createVars == <<step, inv, tree, art, pkgbuild, abi, wrapper, work, made,
                place, passwd, group, euid0, why, kills, creates>>

None == "none"
NoPath == <<>>
NoWrapper == [build |-> FALSE]
src == <<"src">>            \* the directory the user means
PKGBUILD == "PKGBUILD"

-----------------------------------------------------------------------------
(* Build systems: named after the file that marks them.                     *)

DetectOrder == <<"x.py", "meson.build", "CMakeLists.txt", "configure.ac",
    "configure.in", "autogen.sh", "bootstrap", "Makefile.am", "waf", "wscript",
    "SConstruct", "sconstruct", "pyproject.toml", "setup.py", "setup.cfg",
    "extconf.rb", "Makefile.PL", "go.mod", "Cargo.toml", "Makefile">>

\* The first element of a sequence that is in a set, or None.
FirstIn(seq, S) ==
    LET hits == SelectSeq(seq, LAMBDA x : x \in S)
    IN  IF hits = <<>> THEN None ELSE Head(hits)

detect_build_system(files) == FirstIn(DetectOrder, files)

Alias == [make |-> "Makefile", autotools |-> "configure.ac",
          meson |-> "meson.build", ninja |-> "meson.build",
          cmake |-> "CMakeLists.txt", ruby |-> "extconf.rb",
          perl |-> "Makefile.PL", go |-> "go.mod", cargo |-> "Cargo.toml",
          waf |-> "waf", scons |-> "SConstruct"]

\* normalize_build_system(): an unknown name is returned as it is, so the
\* caller's "unsupported build system" never happens.
normalize_build_system(system, files) ==
    CASE system \in {None, "auto"} -> detect_build_system(files)
      [] system = "python" ->
            FirstIn(<<"pyproject.toml", "setup.py", "setup.cfg", "pyproject.toml">>,
                    IF files \cap {"pyproject.toml", "setup.py", "setup.cfg"} = {}
                    THEN {"pyproject.toml"} ELSE files)
      [] system = "python-setup" -> "setup.py"
      [] system = "python-pyproject" -> "pyproject.toml"
      [] system = "python-cfg" -> "setup.cfg"
      [] system \in {"rust", "rustc"} -> IF "x.py" \in files THEN "x.py" ELSE "Cargo.toml"
      [] system \in DOMAIN Alias -> Alias[system]
      [] OTHER -> system

Autotools == {"configure.ac", "configure.in", "autogen.sh", "bootstrap", "Makefile.am"}
Make == Autotools \cup {"extconf.rb", "Makefile.PL"}

\* append_generated_build(): what the build() of a system leaves in the tree,
\* and whether it removes the product of an earlier build first.
BuildProduct(s) ==
    CASE s \in {"meson.build", "CMakeLists.txt"} -> ".packinstall-build"
      [] s \in Make -> "Makefile"
      [] s \in {"waf", "wscript", "SConstruct", "sconstruct", "setup.py", "x.py"} -> "build"
      [] s = "setup.cfg" -> "dist"
      [] s = "pyproject.toml" -> ".packinstall-wheels"
      [] s = "go.mod" -> ".packinstall-go"
      [] s = "Cargo.toml" -> "target"
      [] OTHER -> "objects"

BuildIsClean(s) == s \in {"meson.build", "CMakeLists.txt", "pyproject.toml", "go.mod"}

\* append_generated_package(): where package() looks for what it installs.
PackageInput(s) ==
    CASE s \in {"meson.build", "CMakeLists.txt"} -> ".packinstall-build"
      [] s \in Make -> "Makefile"
      [] s \in {"waf", "wscript", "SConstruct", "sconstruct", "setup.py", "x.py"} -> "build"
      [] s = "setup.cfg" -> "dist"
      [] s = "pyproject.toml" -> ".packinstall-wheels"
      [] s = "go.mod" -> ".packinstall-go"
      [] s = "Cargo.toml" -> "target"
      [] OTHER -> "objects"

Products == {".packinstall-build", "Makefile", "build", "dist", ".packinstall-wheels",
             ".packinstall-go", "target", "objects"}

\* package() loops over what it finds and is content with nothing.
PackageMayBeEmpty(s) == s \in {"setup.cfg", "pyproject.toml", "go.mod"}
\* package() builds what is missing itself.
PackageBuilds(s) == s \in {"Makefile", "setup.py", "SConstruct", "sconstruct"}
                    \/ s \notin Range(DetectOrder)

-----------------------------------------------------------------------------
(* Metadata.  A line of a project file: the name in "project(" or "name =", *)
(* or a value under a key that contains "version"; eq says whether the line *)
(* has a "=".                                                               *)

normalize_version(v) == [i \in DOMAIN v |-> IF v[i] = "-" THEN "_" ELSE v[i]]

FirstOf(lines, Test(_), field) ==
    LET hits == SelectSeq(lines, Test)
    IN  IF hits = <<>> THEN <<>> ELSE Head(hits)[field]

read_meson_project(lines) ==
    [name |-> FirstOf(lines, LAMBDA l : l.name # <<>>, "name"),
     version |-> FirstOf(lines, LAMBDA l : l.version # <<>>, "version")]

\* The version needs a "=" on its line, which project(NAME VERSION 1.0) lacks.
read_cmake_project(lines) ==
    [name |-> FirstOf(lines, LAMBDA l : l.name # <<>>, "name"),
     version |-> FirstOf(lines, LAMBDA l : l.version # <<>> /\ l.eq, "version")]

read_python_project(lines) ==
    [name |-> FirstOf(lines, LAMBDA l : l.name # <<>> /\ l.eq, "name"),
     version |-> FirstOf(lines, LAMBDA l : l.version # <<>> /\ l.eq, "version")]

Fallback(dir) == [name |-> <<dir[Len(dir)]>>, version |-> <<"0">>]

detect_metadata(dir, system, lines) ==
    LET read == CASE system = "meson.build" -> read_meson_project(lines)
                  [] system = "CMakeLists.txt" -> read_cmake_project(lines)
                  [] system = "pyproject.toml" -> read_python_project(lines)
                  [] OTHER -> [name |-> <<>>, version |-> <<>>]
    IN  IF read.name = <<>> \/ read.version = <<>> THEN Fallback(dir)
        ELSE [read EXCEPT !.version = normalize_version(@)]

\* read_srcinfo() compares the text before "=" with the keys; makepkg prints
\* a blank before "=" and a tab before the keys of pkgbase.
SrcinfoKeys == {"pkgbase ", "\tpkgver ", "\tpkgrel ", "pkgname "}
read_srcinfo_finds == {"pkgname", "pkgver"} \subseteq SrcinfoKeys

-----------------------------------------------------------------------------
(* ABI profiles.                                                            *)

abi_profiles == [native |-> "/usr/lib", lib32 |-> "/usr/lib32",
                 libx32 |-> "/usr/libx32", libo32 |-> "/usr/libo32",
                 libm32 |-> "/usr/libm32", ppc32 |-> "/usr/lib32",
                 ppc64 |-> "/usr/lib64", ppc64le |-> "/usr/lib64"]

detect_default_abi(machine) == IF machine \in {"ppc64", "ppc64le"} THEN machine ELSE "native"

-----------------------------------------------------------------------------
(* The command.                                                             *)

\* main() resolves the source directory into the buffer `pkgbuild`, points
\* source_dir at that buffer and lets resolve_pkgbuild() overwrite it.
source_dir == pkgbuild

is_file(p) == \E f \in tree : p = Append(src, f)
is_directory(p) == p = src
FilesIn(p) == IF is_directory(p) THEN tree ELSE {}

\* resolve_pkgbuild() with `dir` and `output` the same buffer: snprintf() with
\* overlapping arguments is undefined; it reads the directory either before it
\* stores the result or after it has cleared the first byte.
resolve_pkgbuild(dir, script) ==
    LET name == IF script = None THEN PKGBUILD ELSE script
    IN  IF script = "absolute" THEN {src} ELSE {Append(dir, name), <<name>>}

Dies(reason) ==
    /\ step' = "dead" /\ why' = reason
    /\ UNCHANGED <<inv, tree, art, pkgbuild, abi, wrapper, work, made, place,
                   passwd, group, euid0, kills, creates>>

\* The builder's lines in /etc/passwd and /etc/group before the first run: a
\* line is named after what is special about its ids.
Accounts == {<< <<>>, <<>> >>, << <<>>, <<"plain">> >>, << <<>>, <<"gid0">> >>,
             << <<"user">>, <<"plain">> >>, << <<"uid0">>, <<"plain">> >>,
             << <<"gid0">>, <<"gid0">> >>}

CreateInit ==
    /\ step = "idle" /\ why = None /\ kills = 0 /\ creates = 0
    /\ inv = CHOOSE i \in Invocations : TRUE
    /\ tree = {} /\ art = [x \in Products |-> {}]
    /\ pkgbuild = NoPath /\ abi = "native" /\ wrapper = NoWrapper
    /\ work = None /\ made = {} /\ place = None
    /\ euid0 \in BOOLEAN
    /\ \E a \in Accounts : passwd = a[1] /\ group = a[2]

\* main(), resolve_source_dir(): --dir, else the argument, else "."; all name
\* the same directory here.
CreateBegin(i, t) ==
    /\ step = "idle" /\ creates < MaxCreates
    /\ step' = "resolved" /\ creates' = creates + 1
    /\ inv' = i /\ tree' = t
    /\ UNCHANGED art
    /\ pkgbuild' \in resolve_pkgbuild(src, i.script)
    /\ UNCHANGED <<abi, wrapper, work, made, place, why, passwd, group, euid0, kills>>

\* main(): the ABI, the directory check and, with --dir, the second resolution.
CreateCheck(machine) ==
    /\ step = "resolved"
    /\ IF inv.abi \notin DOMAIN abi_profiles \cup {None} THEN Dies("abi")
       ELSE IF ~is_directory(source_dir) THEN Dies("source directory does not exist")
       ELSE /\ abi' = IF inv.abi = None THEN detect_default_abi(machine) ELSE inv.abi
            /\ pkgbuild' \in IF inv.dir THEN resolve_pkgbuild(src, inv.script) ELSE {pkgbuild}
            /\ step' = IF euid0 THEN "builder" ELSE "metadata"
            /\ UNCHANGED <<inv, tree, art, wrapper, work, made, place, passwd, group,
                           euid0, why, kills, creates>>

\* ensure_builder(): an existing account must not have uid 0; useradd makes
\* one, with its group, unless the group exists already.
EnsureBuilder ==
    /\ step = "builder"
    /\ CASE passwd # <<>> /\ Head(passwd) = "uid0" -> Dies("builder account has UID 0")
         [] passwd # <<>> /\ Head(passwd) # "uid0" ->
                /\ step' = "metadata"
                /\ UNCHANGED <<passwd, group, why>>
         [] passwd = <<>> ->
                \/ /\ step' = "group"
                   /\ UNCHANGED <<passwd, group, why>>
                \/ /\ group = <<>>
                   /\ passwd' = <<"user">> /\ group' = <<"plain">>
                   /\ step' = "metadata" /\ UNCHANGED why
    /\ UNCHANGED <<inv, tree, art, pkgbuild, abi, wrapper, work, made, place, euid0,
                   kills, creates>>

\* create_builder_from_files(): the group line is appended before the passwd
\* line; a group that exists is used, unless its gid is 0.
AppendGroup ==
    /\ step = "group"
    /\ IF group # <<>> /\ Head(group) = "gid0" THEN Dies("refusing GID 0 for builder")
       ELSE /\ group' = IF group = <<>> THEN <<"plain">> ELSE group
            /\ step' = "passwd"
            /\ UNCHANGED <<inv, tree, art, pkgbuild, abi, wrapper, work, made, place,
                           passwd, euid0, why, kills, creates>>

AppendPasswd ==
    /\ step = "passwd"
    /\ passwd' = Append(passwd, "user")
    /\ step' = "metadata"
    /\ UNCHANGED <<inv, tree, art, pkgbuild, abi, wrapper, work, made, place, group,
                   euid0, why, kills, creates>>

\* create_generated_pkgbuid() without an original PKGBUILD: makepkg's pkgname
\* gets the ABI as a suffix, the PKGINFO of the package does not.
Generated(system, meta) ==
    [system |-> system, meta |-> meta, suffix |-> abi # "native",
     libdir |-> abi_profiles[abi], build |-> ~inv.nobuild]

\* modern_create() up to the source copy.
Metadata(lines) ==
    LET system == normalize_build_system(inv.system, FilesIn(source_dir))
    IN
    /\ step = "metadata"
    /\ IF is_file(pkgbuild) /\ ~(is_directory(source_dir) /\ read_srcinfo_finds)
         THEN Dies("makepkg could not read pkgname/pkgver")
       ELSE IF system = None THEN Dies("no supported build system found")
       ELSE /\ wrapper' = Generated(system, detect_metadata(source_dir, system, lines))
            /\ step' = "copy"
            /\ UNCHANGED <<inv, tree, art, pkgbuild, abi, work, made, place, passwd,
                           group, euid0, why, kills, creates>>

\* builder_gid(): a builder with gid 0 is refused.
BuilderAnyGid == passwd # <<>>
builder_gid_ok == passwd # <<>> /\ Head(passwd) # "gid0"
builder_uid_ok == passwd # <<>> /\ Head(passwd) # "uid0"

\* copy_source_tree(): root's copy is given to the builder.
CanCopy == euid0 => builder_gid_ok /\ builder_uid_ok

\* modern_create(): the copy, the temporary and the output directory.
\* realpath() of an output directory that does not exist fails.
PrepareTree ==
    /\ step = "copy"
    /\ \/ Dies("cannot prepare the source tree")
       \/ ~CanCopy /\ Dies("builder GID is 0")
       \/ inv.output = "missing" /\ Dies("cannot resolve output")
       \/ /\ is_directory(source_dir) /\ inv.output # "missing"
          /\ CanCopy
          /\ work' = IF euid0 THEN "copy" ELSE "source"
          /\ step' = "makepkg"
          /\ UNCHANGED <<inv, tree, art, pkgbuild, abi, wrapper, made, place, passwd,
                         group, euid0, why, kills, creates>>

\* What the tree holds once build() has run, and what package() then installs.
BuiltTree ==
    LET prod == BuildProduct(wrapper.system)
    IN  IF wrapper.build
        THEN [art EXCEPT ![prod] =
                {"new"} \cup (IF BuildIsClean(wrapper.system) THEN {} ELSE @)]
        ELSE art

Packaged(built) ==
    LET found == built[PackageInput(wrapper.system)]
    IN  IF found = {} /\ PackageBuilds(wrapper.system) THEN {"new"} ELSE found

PackageFails(built) ==
    Packaged(built) = {} /\ ~PackageMayBeEmpty(wrapper.system)

\* execute_makepkg(): as the caller, or through runuser, su or fork() and
\* setuid() as the builder.  The wrapper's functions run with errexit.
ExecuteMakepkg ==
    /\ step = "makepkg"
    /\ \/ Dies("makepkg failed")
       \/ /\ ~PackageFails(BuiltTree)
          /\ made' = Packaged(BuiltTree)
          /\ art' = IF work = "source" THEN BuiltTree ELSE art
          /\ place' = IF inv.output # None THEN "output"
                      ELSE IF euid0 THEN "out" ELSE "source"
          /\ step' = "finish"
          /\ UNCHANGED <<inv, tree, pkgbuild, abi, wrapper, work, passwd, group, euid0,
                         why, kills, creates>>

\* The end of modern_create(): for root without --output the package is copied
\* back; a copy that fails is a warning, and the builder's tree is removed with
\* the package in it.
FinishUncopied ==
    /\ step = "finish"
    /\ step' = "done" /\ work' = None
    /\ place' = IF place = "out" THEN None ELSE place
    /\ UNCHANGED <<why, inv, tree, art, pkgbuild, abi, wrapper, made, passwd, group,
                   euid0, kills, creates>>

CreateFinish ==
    /\ step = "finish"
    /\ step' = "done" /\ work' = None
    /\ \/ /\ place' = IF place = "out" THEN "source" ELSE place
          /\ UNCHANGED why
       \/ place = "out" /\ place' = None /\ why' = "could not copy"
    /\ UNCHANGED <<inv, tree, art, pkgbuild, abi, wrapper, made, passwd, group, euid0,
                   kills, creates>>

CreateKill ==
    /\ step \notin {"idle", "done", "dead"} /\ kills < MaxKills
    /\ kills' = kills + 1
    /\ step' = "dead" /\ why' = "killed"
    /\ UNCHANGED <<inv, tree, art, pkgbuild, abi, wrapper, work, made, place, passwd,
                   group, euid0, creates>>

\* The process is gone; what it has built is old for the next one.
CreateExit ==
    /\ step \in {"done", "dead"}
    /\ step' = "idle" /\ why' = None
    /\ inv' = (CHOOSE i \in Invocations : TRUE) /\ tree' = {}
    /\ pkgbuild' = NoPath /\ abi' = "native" /\ wrapper' = NoWrapper
    /\ work' = None /\ made' = {} /\ place' = None
    /\ art' = [x \in Products |-> IF art[x] = {} THEN {} ELSE {"old"}]
    /\ UNCHANGED <<passwd, group, euid0, kills, creates>>

CreateNext ==
    \/ \E i \in Invocations, t \in Trees : CreateBegin(i, t)
    \/ \E m \in Machines : CreateCheck(m)
    \/ EnsureBuilder \/ AppendGroup \/ AppendPasswd
    \/ \E lines \in Projects : Metadata(lines)
    \/ PrepareTree \/ ExecuteMakepkg \/ CreateFinish \/ CreateKill
    \/ CreateExit

-----------------------------------------------------------------------------
\* Type invariant of the create command.
CreateTypeOK ==
    /\ step \in {"idle", "resolved", "builder", "group", "passwd", "metadata", "copy",
                 "makepkg", "finish", "done", "dead"}
    /\ inv \in Invocations /\ tree \in Trees \cup {{}}
    /\ art \in [Products -> SUBSET {"old", "new"}]
    /\ abi \in DOMAIN abi_profiles
    /\ work \in {None, "source", "copy"} /\ made \subseteq {"old", "new"}
    /\ place \in {None, "out", "output", "source"}
    /\ euid0 \in BOOLEAN /\ kills \in 0..MaxKills /\ creates \in 0..MaxCreates

\* Root never builds as root: when makepkg has run for root, it ran with the
\* builder's uid and gid, neither of them 0, in a copy of the source tree,
\* however the account came about and whatever an earlier, killed run left; and
\* /etc/group and /etc/passwd get at most one builder line each, also when a run is
\* killed between the two appends and the command is run again.
PrivateBuild ==
    /\ (euid0 /\ step = "finish") => Head(passwd) = "user" /\ work = "copy"
    /\ Len(passwd) <= 1 /\ Len(group) <= 1

\* Success means that the package lies where the user looks for it: in the
\* output directory, or in the source directory when none was given (the one
\* exception is the copy that failed with a warning); and that a package made with
\* a build holds the products of that build: for every build system, package()
\* looks where build() puts them.
ExitMeansPackage ==
    step = "done" =>
        /\ \/ place = IF inv.output = None THEN "source" ELSE "output"
           \/ why = "could not copy"
        /\ wrapper.build => "new" \in made
=============================================================================
