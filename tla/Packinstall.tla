----------------------------- MODULE Packinstall -----------------------------
(***************************************************************************)
(* packinstall (src/src/util/packinstall.c): build a source tree into a    *)
(* staging directory, package what is there with makepkg, install it with  *)
(* kuzpkg.  Runs follow one another on the same source tree and the same   *)
(* staging directories; nothing but the file system is kept between them.  *)
(*                                                                         *)
(* A staged file is a record: the build system that installed it, whether  *)
(* that build went through, the run, and the target it was compiled for.   *)
(***************************************************************************)
EXTENDS PackinstallTargets, FiniteSets

CONSTANTS
    Sessions,      \* for each run: a command line, the machine it is typed on (what uname() says,
                   \* makepkg's CARCH, whether by root), and the source directory's
                   \* base name and Git repository
    Trees,         \* the sets of build files a source tree may have
    MaxRuns

VARIABLES
    step,      \* where main() is
    inv,       \* the command line
    host,      \* [machine, carch, root]
    project,   \* [base, git]
    files,     \* build files in the source directory
    gems,      \* .gem packages in the source directory
    arch,      \* arch_entry
    target,    \* resolved_target
    configure, \* the three triplets given to configure, or Null
    meta,      \* [name, version]
    cross,     \* configure_cross_environment() found the target's compiler
    at,        \* the next build system
    built,     \* the build system that went through
    stages,    \* contents of the staging directories
    pkg,       \* contents of the package, Null before makepkg made it
    exit,
    runs

mainVars == <<inv, host, project, arch, target, configure, meta, cross, at, built, pkg>>
diskVars == <<files, gems, stages>>
vars == <<step, mainVars, diskVars, exit, runs>>

\* "out" is absolute and elsewhere, "sub" relative, "source" the source
\* directory's own absolute name.
Stages == {"/", "out", "sub", "source"}

\* The build files in the order they are tried.
BuildOrder == <<"configure", "meson.build", "CMakeLists.txt", "build.ninja", "Cargo.toml",
    "gemspec", "Gemfile", "Rakefile", "python", "Build.PL", "Makefile.PL", "go.mod", "Makefile">>

\* configure and Makefile.PL write a Makefile.
WritesMakefile == {"configure", "Makefile.PL"}

PkInit ==
    /\ step = "idle"
    /\ inv = Null /\ host = Null /\ project = Null
    /\ files \in Trees
    /\ gems \in {{}, {"old"}}
    /\ arch = NoRow /\ target = <<>> /\ configure = Null /\ meta = Null
    /\ cross = FALSE /\ at = 1 /\ built = Null
    /\ stages = [s \in {"out", "sub"} |-> {}]
    /\ pkg = Null /\ exit = Null /\ runs = 0

Fail == step' = "idle" /\ exit' = 1

-----------------------------------------------------------------------------
(* The command line and the source directory.                               *)

\* A usage error, or a listing alone.
parse_command_line ==
    /\ step = "idle" /\ runs < MaxRuns
    /\ runs' = runs + 1
    /\ \E x \in Sessions[runs'] : LET i == x.inv IN
          /\ inv' = i /\ host' = x.host /\ project' = x.project
          /\ exit' = CASE i.bad -> 2
                       [] ~i.bad /\ i.src = Null -> IF i.list THEN 0 ELSE 2
                       [] OTHER -> Null
          /\ step' = IF exit' = Null THEN "enter" ELSE "idle"
    /\ arch' = NoRow /\ target' = <<>> /\ configure' = Null /\ meta' = Null
    /\ cross' = FALSE /\ at' = 1 /\ built' = Null /\ pkg' = Null
    /\ UNCHANGED diskVars

\* realpath(), is_dir(), getcwd() and chdir(): a source that is no directory.
enter_source ==
    /\ step = "enter"
    /\ IF inv.src = "missing" THEN Fail ELSE step' = "target" /\ UNCHANGED exit
    /\ UNCHANGED <<mainVars, diskVars, runs>>

\* Architecture, target, the three triplets, multilib.
HostTriplet == LET h == detect_host_architecture(host.machine)
               IN  IF h = NoRow THEN Unknown ELSE h.triplet

FindArch ==
    IF inv.arch = Null THEN detect_host_architecture(host.machine)
    ELSE LET byName == find_architecture(inv.arch)
         IN  IF byName # NoRow THEN byName ELSE find_architecture_triplet(inv.arch)

select_target ==
    /\ step = "target"
    /\ arch' = FindArch
    /\ target' = CASE inv.target # Null -> resolve_target_pattern(inv.target)
                   [] inv.target = Null /\ arch' # NoRow -> arch'.triplet
                   [] OTHER -> Unknown
    /\ LET hostTriplet == CASE inv.host # Null -> inv.host
                            [] inv.host = Null /\ inv.target # Null -> target'
                            [] OTHER -> Null
       IN  configure' = IF hostTriplet = Null THEN Null
                        ELSE [build |-> IF inv.build = Null THEN HostTriplet ELSE inv.build,
                              host |-> hostTriplet, target |-> target']
    /\ IF \/ inv.arch # Null /\ arch' = NoRow
          \/ inv.target # Null /\ target' = NoRow.triplet
          \/ ~parse_target(target')
          \/ inv.multilib # Null /\ inv.multilib \notin multilib_variants
       THEN Fail
       ELSE step' = "metadata" /\ UNCHANGED exit
    /\ UNCHANGED <<inv, host, project, meta, cross, at, built, pkg, runs, diskVars>>

\* Name and version, and the final validation of both.
read_metadata ==
    /\ step = "metadata"
    /\ meta' = [name |-> package_name(project.base, project.git),
                version |-> package_version(project.base, project.git)]
    /\ IF /\ \A i \in DOMAIN meta'.version : meta'.version[i] \in VersionChars
          /\ \A s \in {meta'.name, meta'.version} : s # <<>> /\ s[1] # "."
       THEN step' = "clean" /\ UNCHANGED exit
       ELSE Fail
    /\ UNCHANGED <<inv, host, project, arch, target, configure, cross, at, built, pkg, runs,
                   diskVars>>

-----------------------------------------------------------------------------
(* Staging and building.                                                    *)

Stage == inv.stage

\* mkdir alone.
CleanKeepsFiles ==
    /\ step = "clean"
    /\ IF Stage = "/" THEN Fail ELSE step' = "build" /\ UNCHANGED exit
    /\ cross' \in BOOLEAN
    /\ UNCHANGED <<inv, host, project, arch, target, configure, meta, at, built, pkg, runs,
                   diskVars>>

\* clean_stage() refuses "/", "." and ".." by their spelling; a staging
\* directory that is the source under its full name is removed with the
\* source.  configure_cross_environment() opens build_project().
clean_stage ==
    /\ step = "clean"
    /\ IF Stage = "/"
       THEN Fail /\ UNCHANGED <<diskVars, cross>>
       ELSE /\ step' = "build"
            /\ stages' = [s \in DOMAIN stages |->
                            IF Stage = s \/ (Stage = "source" /\ s = "sub") THEN {} ELSE stages[s]]
            /\ files' = IF Stage = "source" THEN {} ELSE files
            /\ gems' = IF Stage = "source" THEN {} ELSE gems
            /\ cross' \in BOOLEAN
            /\ UNCHANGED exit
    /\ UNCHANGED <<inv, host, project, arch, target, configure, meta, at, built, pkg, runs>>

\* What the build system that is tried compiles for: the cross compiler's
\* target, configure's host, or the machine packinstall runs on.
CompiledFor(system) ==
    CASE cross -> target
      [] ~cross /\ system = "configure" /\ configure # Null -> configure.host
      [] OTHER -> HostTriplet

StagedBy(system, whole) ==
    [by |-> system, whole |-> whole, run |-> runs, triplet |-> CompiledFor(system), gem |-> Null]

NextBuild(from) == FirstAt(BuildOrder, from, LAMBDA k : BuildOrder[k] \in files)

\* One build system goes through.  RubyGems builds a gem and installs the
\* first one that find(1) names.
build_succeeds ==
    /\ step = "build" /\ NextBuild(at) <= Len(BuildOrder)
    /\ LET s == BuildOrder[NextBuild(at)]
       IN  /\ built' = s
           /\ gems' = IF s = "gemspec" THEN gems \cup {"new"} ELSE gems
           /\ \E g \in IF s = "gemspec" THEN gems' ELSE {Null} :
                stages' = [stages EXCEPT ![Stage] = @ \cup {[StagedBy(s, TRUE) EXCEPT !.gem = g]}]
    /\ step' = "normalise"
    /\ UNCHANGED <<inv, host, project, arch, target, configure, meta, cross, at, pkg, runs, files,
                   exit>>

\* It fails, with or without files already installed and a Makefile written:
\* the next one is tried in the same directories.
build_fails ==
    /\ step = "build" /\ NextBuild(at) <= Len(BuildOrder)
    /\ LET s == BuildOrder[NextBuild(at)]
       IN  /\ \/ UNCHANGED stages
              \/ stages' = [stages EXCEPT ![Stage] = @ \cup {StagedBy(s, FALSE)}]
           /\ \/ UNCHANGED files
              \/ s \in WritesMakefile /\ files' = files \cup {"Makefile"}
           /\ \/ UNCHANGED gems
              \/ s = "gemspec" /\ gems' = gems \cup {"new"}
    /\ at' = NextBuild(at) + 1
    /\ UNCHANGED <<step, inv, host, project, arch, target, configure, meta, cross, built, pkg,
                   runs, exit>>

build_gives_up ==
    /\ step = "build" /\ NextBuild(at) > Len(BuildOrder)
    /\ Fail
    /\ UNCHANGED <<mainVars, diskVars, runs>>

-----------------------------------------------------------------------------
(* Packaging and installing.                                                *)

\* remove_info_dir() and normalize_multilib_layout(): a shell command each.
normalise ==
    /\ step = "normalise"
    /\ \/ /\ step' = "package"
          /\ stages' = IF inv.multilib = Null THEN stages
                       ELSE [stages EXCEPT ![Stage] = @ \cup
                                {[StagedBy("packinstall", TRUE) EXCEPT !.triplet = target]}]
          /\ UNCHANGED exit
       \/ Fail /\ UNCHANGED stages
    /\ UNCHANGED <<mainVars, files, gems, runs>>

Label == IF arch = NoRow THEN <<"any">> ELSE arch.name

\* makepkg refuses to run as root, a name or an architecture its lint does not
\* accept (it is "any" or CARCH) and, in package(), a relative directory: it is
\* not there below $srcdir.
makepkg_accepts ==
    /\ ~host.root
    /\ lint_one_pkgname(meta.name)
    /\ Label \in {<<"any">>, host.carch}
    /\ Stage = "out"

\* makepkg, then `kuzpkg -U`, which only root may run.
package_and_install ==
    /\ step = "package"
    /\ \/ /\ makepkg_accepts
          /\ pkg' = stages[Stage]
          /\ exit' = IF inv.install /\ ~host.root THEN 1 ELSE 0
       \/ /\ exit' = 1
          /\ UNCHANGED pkg
    /\ step' = "idle"
    /\ UNCHANGED <<inv, host, project, arch, target, configure, meta, cross, at, built, runs,
                   diskVars>>

PkNext ==
    \/ parse_command_line \/ enter_source \/ select_target \/ read_metadata
    \/ clean_stage \/ build_succeeds \/ build_fails \/ build_gives_up
    \/ normalise \/ package_and_install

PkSpec == PkInit /\ [][PkNext]_vars

-----------------------------------------------------------------------------
(* Properties.                                                              *)

Triplets == {architectures[i].triplet : i \in DOMAIN architectures}
Staged == [by : Range(BuildOrder) \cup {"packinstall"}, whole : BOOLEAN, run : 1..MaxRuns,
           triplet : Seq(STRING), gem : {Null, "old", "new"}]

\* The variables of main() and the directories it works in.
PkTypeOK ==
    /\ step \in {"idle", "enter", "target", "metadata", "clean", "build", "normalise", "package"}
    /\ files \subseteq Range(BuildOrder) /\ gems \subseteq {"old", "new"}
    /\ at \in 1..Len(BuildOrder) + 1
    /\ built \in Range(BuildOrder) \cup {Null}
    /\ \A s \in DOMAIN stages : stages[s] \subseteq Staged
    /\ exit \in {Null, 0, 1, 2}
    /\ runs \in 0..MaxRuns

\* A package holds what this run's builds installed and nothing of an earlier
\* run: clean_stage() empties the directory before build_project(), and the
\* build that went through is in it, with at most the leftovers of build
\* systems that were tried before it.
FreshPackage ==
    pkg # Null =>
        /\ \A f \in pkg : f.run = runs
        /\ \E f \in pkg : f.by = built /\ f.whole
        /\ \A f \in pkg : ~f.whole =>
              \E i, j \in DOMAIN BuildOrder : BuildOrder[i] = f.by /\ BuildOrder[j] = built /\ i < j

\* Status 0 after a build: makepkg made a package of a build that went through.
ExitMeansPackaged ==
    exit = 0 => (inv.src = Null \/ (pkg # Null /\ built # Null))

\* Without --target and --host, the files of a package are compiled for the
\* architecture the package is labelled with: a label that differs from the
\* machine that compiled is one that makepkg refuses.
LabelIsContents ==
    (pkg # Null /\ inv.target = Null /\ inv.host = Null /\ arch # NoRow)
        => \A f \in pkg : f.triplet = arch.triplet

\* What is packaged is what was built: by this run, to the end, for the machine that
\* the label names.
PackagedAsBuilt == FreshPackage /\ ExitMeansPackaged /\ LabelIsContents

\* On a Linux machine the table knows, detect_host_architecture() finds a Linux
\* row: the BSD and Darwin rows with the same uname() come later.
HostIsLinux ==
    (step = "metadata" /\ inv.arch = Null) =>
        \/ arch.os = "linux"
        \/ ~\E i \in DOMAIN LinuxRows : LinuxRows[i].uname = host.machine /\ ~LinuxRows[i].old

\* The operating system that is reported for a target of the table, which
\* detect_target_os() reads off the triplet, is the one of its row.
ReportedOS ==
    (step = "metadata" /\ target \in Triplets) =>
        detect_target_os(target) = find_architecture_triplet(target).os

\* A directory `name-version` outside Git, with a name of letters and a version
\* that starts with a digit and has no second separator before a digit or a
\* "v", is taken apart there: 6.2.0-alpha.2 becomes 6.2.0.alpha.2.
SplitAgrees ==
    (step = "clean" /\ ~project.git.work) =>
        \A k \in DOMAIN project.base :
            LET n == SubSeq(project.base, 1, k - 1)
                v == From(project.base, k + 1)
            IN  (/\ project.base[k] = "-" /\ n # <<>> /\ v # <<>>
                 /\ \A i \in DOMAIN n : n[i] \in {"a", "b", "g", "r"}
                 /\ v[1] \in Digits
                 /\ \A i \in DOMAIN v : v[i] \in Separators => ~StartsVersion(v, i + 1))
                => /\ meta.name = n
                   /\ meta.version = sanitize_package_version(
                        [i \in DOMAIN v |-> IF v[i] = "_" THEN "." ELSE v[i]])

\* Whatever directory or repository they are read from, the final validation of
\* name and version never refuses what the sanitizers return, and makepkg's lint
\* then refuses only a name that starts with a hyphen; and a directory `name-version`
\* is split as SplitAgrees says.
MetadataLegal ==
    [][/\ step = "metadata" => /\ step' = "clean"
                               /\ check_pkgver(meta'.version)
                               /\ lint_one_pkgname(meta'.name) \/ meta'.name[1] = "-"
       /\ SplitAgrees']_vars

\* A --target with wildcards stands for the first triplet of the table that the
\* pattern describes, else for the first row whose name it describes; when it
\* describes neither, packinstall stops.  HostIsLinux and ReportedOS hold of what is
\* selected.
TargetResolved ==
    [][/\ (step = "target" /\ inv.target # Null /\ HasWildcard(inv.target)) =>
            LET rows(Word(_)) == SelectSeq(architectures, LAMBDA r : Matches(inv.target, Word(r)))
                hits == rows(LAMBDA r : Hyphenated(r.triplet)) \o rows(LAMBDA r : r.name)
            IN  IF hits = <<>> THEN exit' = 1 ELSE target' = Head(hits).triplet
       /\ HostIsLinux' /\ ReportedOS']_vars
=============================================================================
