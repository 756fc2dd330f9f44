------------------------------- MODULE Hooks --------------------------------
(***************************************************************************)
(* What klpm_trans_commit() does around the changes to the packages: the   *)
(* disk space checks (Diskspace), the PreTransaction hooks (hook.c), a     *)
(* scriptlet (_klpm_runscriptlet() of trans.c) and the PostTransaction     *)
(* hooks, each command by RunChild.  Names and paths are strings as in     *)
(* Strings; the name of a hook is without its ".hook".  Whether a path     *)
(* matches a pattern is fnmatch()'s business: the targets of a trigger are *)
(* the names its patterns match.                                           *)
(***************************************************************************)
EXTENDS RunChild, Diskspace, FiniteSets, TLC

\* A world is one of Diskspace with dirs (handle->hookdirs, the last has priority: [open,
\* files]), noextract, local (the names installed before), root (the root can be entered),
\* forks (processes can be had), script (the scriptlet of the commit), checkspace (the
\* option) and where (the mount point each file is really on).
CONSTANT Worlds

VARIABLES
  w,
  when,      \* CHECK, PRE, COMMIT, POST, END
  stage,     \* load, match, next, running
  hooks,     \* the hooks loaded, [name, dir, hook]
  queue,     \* hooks_triggered, what is left of it, by name
  ret,       \* of _klpm_hook_run()
  ran,       \* history: the hooks run, with what became of their commands
  fed,       \* history: the targets of the hook that runs
  committed, \* the transaction changed the system
  tmpdir,    \* what is under $root/tmp/klpm_XXXXXX
  fetched,   \* the downloads are in the cache
  disk,      \* the size of every regular file of the packages on the disk
  todo       \* what the commit has still to do: [op, pkg]

hookvars == <<w, when, stage, hooks, queue, ret, ran, fed, committed, tmpdir, fetched, disk, todo>>
vars == <<hookvars, runvars>>

-----------------------------------------------------------------------------
(* Loading.                                                                 *)

\* A hook file is a sequence of sections [name, lines], a line a key and a value: a word,
\* a set of names (Target and Depends) or a command [ok, prog, status].
\* _klpm_hook_parse_cb() accepts a section and a line or refuses them and the file.
Accepted(section, l) ==
  CASE section = "Trigger" -> \/ l.key = "Operation" /\ l.word \in {"Install", "Upgrade", "Remove"}
                              \/ l.key = "Type" /\ l.word \in {"Package", "Path"}
                              \/ l.key = "Target"
    [] section = "Action" -> \/ l.key = "When" /\ l.word \in {"PRE", "POST"}
                             \/ l.key \in {"Description", "Depends", "AbortOnFail", "NeedsTargets"}
                             \/ l.key = "Exec" /\ l.cmd.ok

\* What it makes of the lines: a value given again replaces the first (Type, When, Exec)
\* or is added to it.
With(ls, key) == SelectSeq(ls, LAMBDA l : l.key = key)
Latest(ls, key) == LET s == With(ls, key) IN IF s = <<>> THEN "none" ELSE s[Len(s)].word
Among(ls, key) == UNION {l.names : l \in Range(With(ls, key))}

parse_trigger(ls) ==
  [type |-> Latest(ls, "Type"), ops |-> {l.word : l \in Range(With(ls, "Operation"))}, targets |-> Among(ls, "Target")]

hook_parse_cb(text) ==
  LET triggers == SelectSeq(text, LAMBDA s : s.name = "Trigger")
      actions == SelectSeq(text, LAMBDA s : s.name = "Action")
      ls == Joined([k \in DOMAIN actions |-> actions[k].lines])
      exec == With(ls, "Exec")
  IN  [ok |-> \A s \in Range(text) : s.name \in {"Trigger", "Action"} /\ \A l \in Range(s.lines) : Accepted(s.name, l),
       triggers |-> [k \in DOMAIN triggers |-> parse_trigger(triggers[k].lines)],
       when |-> Latest(ls, "When"),
       depends |-> Among(ls, "Depends"),
       abort |-> With(ls, "AbortOnFail") # <<>>,
       needs |-> With(ls, "NeedsTargets") # <<>>,
       cmd |-> IF exec = <<>> THEN <<>> ELSE <<exec[Len(exec)].cmd>>]

\* Its results, tabulated.
Texts == UNION {UNION {{f.text : f \in {dir.files[n] : n \in DOMAIN dir.files}} : dir \in Range(v.dirs)} : v \in Worlds}
Results == {<<t, hook_parse_cb(t)>> : t \in Texts}
Parsed(f) == (CHOOSE r \in Results : r[1] = f.text)[2]

trigger_validate(t) == t.targets # {} /\ t.type # "none" /\ t.ops # {}

\* A hook without triggers masks others and is always valid.
hook_validate(h) ==
  h.triggers = <<>> \/ (h.cmd # <<>> /\ h.when # "none" /\ \A k \in DOMAIN h.triggers : trigger_validate(h.triggers[k]))

\* What one entry of a hook directory is to the loop over the directories: skipped
\* without a word, an error, or a hook.
Entry(f) ==
  CASE f.stat = "fail" -> "error"
    [] f.stat = "dir" -> "skipped"
    [] OTHER -> IF Parsed(f).ok /\ hook_validate(Parsed(f)) THEN "hook" ELSE "error"

Readdir(d) == IF w.dirs[d].open = "ok" THEN DOMAIN w.dirs[d].files ELSE {}
DirOf(n, K) == {d \in DOMAIN w.dirs : n \in Readdir(d) /\ Entry(w.dirs[d].files[n]) \in K}
Highest(D) == CHOOSE d \in D : \A e \in D : e <= d
Names == UNION {Readdir(d) : d \in DOMAIN w.dirs}

\* The hooks the loop keeps: of one name the first that loads, the last directory
\* being read first.
\* Mutant: the directories are read from the first to the last.
Found(n, d) == [name |-> n, dir |-> d, hook |-> Parsed(w.dirs[d].files[n])]
PreferFirst(D) == CHOOSE d \in D : \A e \in D : d <= e
Prefer(D) == Highest(D)
Loaded == {Found(n, Prefer(DirOf(n, {"hook"}))) : n \in {m \in Names : DirOf(m, {"hook"}) # {}}}

\* An error of the loop: a directory that cannot be read, or an entry read before a
\* hook of its name was kept.
LoadFails ==
  \/ \E d \in DOMAIN w.dirs : w.dirs[d].open = "error"
  \/ \E n \in Names : \E d \in DirOf(n, {"error"}) : \A e \in DirOf(n, {"hook"}) : e < d

\* What a world is: strings are made of Chars and finite sets of them are given; a package
\* to install is given once (klpm_add_pkg()) and replaces an installed one of its name if
\* there is one, as when that is to be removed too (oldpkg); a command does something.
Given(v) == UNION {{p.name} \cup p.files \cup p.oldfiles : p \in Range(v.add) \cup v.remove}
HookFiles(v) == UNION {DOMAIN v.dirs[d].files : d \in DOMAIN v.dirs}
ASSUME WorldsAssumption ==
  \A v \in Worlds :
    /\ v.dirs \in Seq(Range(v.dirs)) /\ v.add \in Seq(Range(v.add))
    /\ Given(v) \subseteq Seq(Chars) /\ IsFiniteSet(Given(v))
    /\ HookFiles(v) \subseteq Seq(Chars) /\ IsFiniteSet(HookFiles(v))
    /\ \A p \in Range(v.add) :
         /\ p.isold \in BOOLEAN
         /\ \A q \in Range(v.add) : q.name = p.name => q = p
         /\ \A q \in v.remove : q.name = p.name => p.isold
    /\ \A d \in DOMAIN v.dirs : \A n \in DOMAIN v.dirs[d].files :
         LET cmd == Parsed(v.dirs[d].files[n]).cmd IN cmd # <<>> => cmd[1].prog \in Seq(STRING)
    /\ v.script.prog \in Seq(STRING)

-----------------------------------------------------------------------------
(* Matching.                                                                *)

match_file(t) ==
  LET install == ((UNION {p.files : p \in Range(w.add)}) \ w.noextract) \cap t.targets
      remove == ((UNION {p.oldfiles : p \in Range(w.add)}) \cup (UNION {p.files : p \in w.remove})) \cap t.targets
  IN  (IF "Install" \in t.ops THEN install \ remove ELSE {})
        \cup (IF "Upgrade" \in t.ops THEN install \cap remove ELSE {})
        \cup (IF "Remove" \in t.ops THEN remove \ install ELSE {})

match_pkg(t) ==
  LET add == {p.name : p \in {q \in Range(w.add) : q.isold = FALSE /\ "Install" \in t.ops}}
      upgrade == {p.name : p \in {q \in Range(w.add) : q.isold /\ "Upgrade" \in t.ops}}
      remove == IF "Remove" \in t.ops THEN {p.name : p \in w.remove} \ {p.name : p \in Range(w.add)} ELSE {}
  IN  (add \cup upgrade \cup remove) \cap t.targets

trigger_match(t) == IF t.type = "Package" THEN match_pkg(t) ELSE match_file(t)

\* _klpm_hook_triggered(): the matches of all the triggers.
matches(h) == UNION {trigger_match(h.triggers[k]) : k \in DOMAIN h.triggers}

Triggered(phase) == {h \in hooks : h.hook.when = phase /\ matches(h.hook) # {}}

\* A set of strings as a sorted list.
Sorted(S) ==
  CHOOSE s \in [1..Cardinality(S) -> S] : \A j, k \in 1..Cardinality(S) : j < k => strcmp(s[j], s[k]) < 0

\* _klpm_hook_cmp(): the hooks by their names, of which the suffix is no part.
InOrder(H) == Sorted({h.name : h \in H})

\* _klpm_hook_run_hook(): the targets sorted, each once, as lines.
Targets(h) == Sorted(matches(h))
TargetLines(names) == Joined([k \in DOMAIN names |-> Append(names[k], "nl")])

-----------------------------------------------------------------------------
(* Running.                                                                 *)

\* A list of the members of S.
Listed(S) == CHOOSE s \in Bijection(1..Cardinality(S), S) : TRUE

Init ==
  /\ w \in Worlds /\ when = "CHECK" /\ stage = "load" /\ hooks = {} /\ queue = <<>> /\ ret = 0
  /\ ran = <<>> /\ fed = <<>> /\ committed = FALSE /\ tmpdir = {}
  /\ fetched = FALSE /\ disk = w.stat
  /\ todo = [k \in 1..Cardinality(w.remove) |-> [op |-> "remove", pkg |-> Listed(w.remove)[k]]]
              \o [k \in DOMAIN w.add |-> [op |-> "add", pkg |-> w.add[k]]]
  /\ RunInit

\* The blocks a mount point has free, as statvfs() would say, the metadata aside.
Occupies(size, m) == CHOOSE n \in 0..size : n * m.bsize >= size /\ (n > 0 => (n - 1) * m.bsize < size)
Stored(files, m) == TotalOf({f \in DOMAIN files : f[1] # "." /\ w.where[f] = m.dir}, LAMBDA f : Occupies(files[f], m))
Cached(m) == IF fetched /\ w.wherecache = m.dir THEN TotalOf(DOMAIN w.fetch, LAMBDA k : Occupies(w.fetch[k], m)) ELSE 0
Free(m) == m.avail + Stored(w.stat, m) - Stored(disk, m) - Cached(m)

\* download_files(), which checks the space if it is to be checked, and the same of
\* _klpm_sync_check().
download ==
  /\ when = "CHECK" /\ stage = "load"
  /\ IF w.fetch # <<>> /\ w.checkspace /\ ~check_downloadspace(w)
     THEN when' = "END" /\ UNCHANGED <<stage, fetched>>
     ELSE when' = when /\ stage' = "next" /\ fetched' = TRUE
  /\ UNCHANGED <<w, hooks, queue, ret, ran, fed, committed, tmpdir, disk, todo, runvars>>

sync_check ==
  /\ when = "CHECK" /\ stage = "next"
  /\ when' = IF w.checkspace /\ ~check_diskspace([w EXCEPT !.mounts = {[m EXCEPT !.avail = Free(m)] : m \in w.mounts}])
             THEN "END" ELSE "PRE"
  /\ stage' = "load"
  /\ UNCHANGED <<w, hooks, queue, ret, ran, fed, committed, tmpdir, fetched, disk, todo, runvars>>

\* _klpm_hook_run(): the first loop, and the second.  A PreTransaction run stops at an
\* error.
Stops == ret' # 0 /\ when = "PRE"

hook_run_load ==
  /\ when \in {"PRE", "POST"} /\ stage = "load"
  /\ ret' = IF LoadFails THEN -1 ELSE 0
  /\ hooks' = IF Stops THEN {} ELSE Loaded
  /\ stage' = "match"
  /\ UNCHANGED <<w, when, queue, ran, fed, committed, tmpdir, fetched, disk, todo, runvars>>

hook_run_match ==
  /\ stage = "match"
  /\ queue' = InOrder(Triggered(when))
  /\ stage' = "next"
  /\ UNCHANGED <<w, when, hooks, ret, ran, fed, committed, tmpdir, fetched, disk, todo, runvars>>

Installed == IF committed THEN (w.local \ {p.name : p \in w.remove}) \cup {p.name : p \in Range(w.add)} ELSE w.local

\* What is kept of a hook that was run: how its command ended ("unmet" and "unrun"
\* when it was not started).
Record(h, end) == [name |-> h.name, dir |-> h.dir, when |-> when, abort |-> h.hook.abort, end |-> end]

\* A hook's run is over: its failure counts if AbortOnFail is set, and ends the
\* PreTransaction run.
Over(h, failed, end) ==
  /\ ret' = IF failed /\ h.hook.abort THEN -1 ELSE ret
  /\ ran' = Append(ran, Record(h, end))
  /\ queue' = IF Stops THEN <<>> ELSE Tail(queue)
  /\ stage' = "next"

Depends(h) == h.depends \subseteq Installed
First == CHOOSE h \in hooks : h.name = Head(queue)

hook_run_unmet ==
  /\ stage = "next" /\ queue # <<>> /\ when \in {"PRE", "POST"}
  /\ ~Depends(First.hook)
  /\ Over(First, TRUE, "unmet")
  /\ UNCHANGED <<w, hooks, when, fed, committed, tmpdir, fetched, disk, todo, runvars>>

\* The command cannot be started: the root cannot be entered, which counts as success,
\* or there is no process to be had.
hook_run_unrun ==
  /\ stage = "next" /\ queue # <<>> /\ when \in {"PRE", "POST"}
  /\ Depends(First.hook)
  /\ \/ ~w.root /\ run_nothing(0) /\ Over(First, FALSE, "unrun")
     \/ w.root /\ ~w.forks /\ run_nothing(1) /\ Over(First, TRUE, "unrun")
  /\ UNCHANGED <<w, hooks, when, fed, committed, tmpdir, fetched, disk, todo>>

hook_run_start ==
  /\ stage = "next" /\ queue # <<>> /\ when \in {"PRE", "POST"} /\ w.root /\ w.forks
  /\ LET h == First.hook
     IN  /\ Depends(h)
         /\ fed' = IF h.needs THEN TargetLines(Targets(h)) ELSE <<>>
         /\ run_chroot(h.cmd[1].prog, h.cmd[1].status, h.needs, fed')
  /\ stage' = "running"
  /\ UNCHANGED <<w, hooks, when, queue, ret, ran, committed, tmpdir, fetched, disk, todo>>

hook_run_done ==
  /\ stage = "running" /\ when \in {"PRE", "POST"} /\ parent = "idle"
  /\ Over(First, retval # 0, IF code = 0 THEN "ok" ELSE "failed")
  /\ UNCHANGED <<w, hooks, when, fed, committed, tmpdir, fetched, disk, todo, runvars>>

\* _klpm_hook_run() returns.  klpm_trans_commit() gives up when the PreTransaction
\* hooks failed and does not ask about the others.
GivesUp == ret # 0

hook_run_return ==
  /\ stage = "next" /\ queue = <<>> /\ when \in {"PRE", "POST"}
  /\ when' = IF when = "POST" \/ GivesUp THEN "END" ELSE "COMMIT"
  /\ stage' = "load"
  /\ UNCHANGED <<w, hooks, queue, ret, ran, fed, committed, tmpdir, fetched, disk, todo, runvars>>

-----------------------------------------------------------------------------
(* The commit, with one scriptlet.                                          *)

HasFunction == w.script.function

\* _klpm_runscriptlet() up to its command.
runscriptlet ==
  /\ when = "COMMIT" /\ stage = "load"
  /\ LET s == w.script
         skip == ~s.exists \/ (~s.archive /\ ~HasFunction) \/ s.copy = "nodir"
         unpacked == CASE s.copy = "none" -> {"dir"} [] OTHER -> {"dir", ".INSTALL"}
         run == s.copy = "ok" /\ HasFunction
     IN  \/ /\ skip
            /\ stage' = "next" /\ UNCHANGED <<tmpdir, runvars>>
         \/ /\ ~skip /\ ~run
            /\ tmpdir' = unpacked /\ stage' = "running" /\ UNCHANGED runvars
         \/ /\ ~skip /\ run
            /\ tmpdir' = unpacked /\ stage' = "running"
            /\ IF w.root /\ w.forks THEN run_chroot(s.prog, s.status, FALSE, <<>>)
               ELSE run_nothing(IF w.root THEN 1 ELSE 0)
  /\ UNCHANGED <<w, hooks, when, queue, ret, ran, fed, committed, fetched, disk, todo>>

\* Its clean up: the file, then the directory if it is empty.
Unlinked == tmpdir \ {".INSTALL"}

runscriptlet_cleanup ==
  /\ when = "COMMIT" /\ stage = "running" /\ parent = "idle"
  /\ tmpdir' = IF Unlinked = {"dir"} THEN {} ELSE Unlinked
  /\ stage' = "next"
  /\ UNCHANGED <<w, hooks, when, queue, ret, ran, fed, committed, fetched, disk, todo, runvars>>

\* _klpm_sync_commit(): the packages to remove, then those to install, whatever the
\* scriptlet returned.
Without(files) == [f \in DOMAIN disk \ files |-> disk[f]]
commit_package ==
  /\ when = "COMMIT" /\ stage = "next" /\ todo # <<>>
  /\ LET p == Head(todo).pkg
         new == (p.files \ w.noextract) \cap DOMAIN w.size
     IN  disk' = IF Head(todo).op = "remove" THEN Without(p.files)
                 ELSE [f \in new |-> w.size[f]] @@ Without(p.oldfiles)
  /\ todo' = Tail(todo)
  /\ UNCHANGED <<w, hooks, when, stage, queue, ret, ran, fed, committed, tmpdir, fetched, runvars>>

\* The end of the commit: it works, or it fails on the way.
trans_commit ==
  /\ when = "COMMIT" /\ stage = "next"
  /\ stage' = "load"
  /\ \/ todo = <<>> /\ when' = "POST" /\ committed' = TRUE
     \/ when' = "END" /\ UNCHANGED committed
  /\ UNCHANGED <<w, hooks, queue, ret, ran, fed, tmpdir, fetched, disk, todo, runvars>>

Idle == when = "END" /\ UNCHANGED vars

Library == download \/ sync_check \/ commit_package \/ hook_run_load \/ hook_run_match \/ hook_run_unmet \/ hook_run_unrun \/ hook_run_start \/ hook_run_done
             \/ hook_run_return \/ runscriptlet \/ runscriptlet_cleanup \/ trans_commit
Next == Library \/ ((Parent \/ Child) /\ UNCHANGED hookvars) \/ Idle

Spec == Init /\ [][Next]_vars
             /\ WF_vars(Library) /\ WF_vars(Parent /\ UNCHANGED hookvars) /\ WF_vars(Child /\ UNCHANGED hookvars)
-----------------------------------------------------------------------------
(* Properties.                                                              *)

\* Every variable of the library and of the child keeps its type.
HooksTypeOK ==
  /\ when \in {"CHECK", "PRE", "COMMIT", "POST", "END"} /\ stage \in {"load", "match", "next", "running"}
  /\ (\A k \in DOMAIN queue : \E h \in hooks : h.name = queue[k] /\ h.hook.when = when) /\ ret \in {-1, 0} /\ committed \in BOOLEAN /\ tmpdir \subseteq {"dir", ".INSTALL"}
  /\ parent \in {"idle", "poll", "read", "write", "wait"} /\ child \in {"none", "running", "exited"}
  /\ retval \in {0, 1} /\ {polled, pIn, pOut, cIn, cOut, unfed} \subseteq BOOLEAN
  /\ \A s \in {ibuf, obuf, feed, c2p, p2c, said, got, fed} : s \in Seq(Bytes)
  /\ Len(c2p) <= Capacity /\ Len(p2c) <= Capacity /\ Len(obuf) <= OSize
  /\ \A k \in DOMAIN lines : lines[k].text \in Seq(Bytes \ {"nl"}) /\ lines[k].nl \in BOOLEAN
  /\ \A k \in DOMAIN ran : ran[k].end \in {"ok", "failed", "unmet", "unrun"}

\* What the documentation says of a trigger: a name is installed, upgraded or removed
\* by what is there before and after the transaction.
After(type) == IF type = "Package" THEN {p.name : p \in Range(w.add)}
               ELSE UNION {p.files \ w.noextract : p \in Range(w.add)}
Before(type) == IF type = "Package" THEN {p.name : p \in w.remove \cup {q \in Range(w.add) : q.isold}}
                ELSE (UNION {p.files : p \in w.remove}) \cup (UNION {p.oldfiles : p \in Range(w.add)})
DueTo(t) == {n \in t.targets :
               \/ "Install" \in t.ops /\ n \in After(t.type) /\ n \notin Before(t.type)
               \/ "Upgrade" \in t.ops /\ n \in After(t.type) /\ n \in Before(t.type)
               \/ "Remove" \in t.ops /\ n \notin After(t.type) /\ n \in Before(t.type)}
Due(h) == UNION {DueTo(h.triggers[k]) : k \in DOMAIN h.triggers}

\* The file that stands for a name: the one in the last directory that has it.
Effective(n) == Highest({d \in DOMAIN w.dirs : n \in Readdir(d) /\ w.dirs[d].files[n].stat # "dir"})
Ran(phase) == {<<ran[k].name, ran[k].dir>> : k \in {m \in DOMAIN ran : ran[m].when = phase}}
CalledFor(phase) ==
  {<<n, Effective(n)>> : n \in {m \in Names : \E d \in DOMAIN w.dirs :
     /\ m \in Readdir(d) /\ w.dirs[d].files[m].stat # "dir" /\ d = Effective(m)
     /\ Parsed(w.dirs[d].files[m]).when = phase /\ Due(Parsed(w.dirs[d].files[m])) # {}}}

\* When the commit begins exactly the PreTransaction hooks that the documentation calls
\* for have run, each from the directory of highest priority that has it and no masked
\* one; and at the end exactly such PostTransaction hooks, unless a hook file could not
\* be loaded (_klpm_hook_run() of hook.c then takes the file it overrides).  They are
\* run in the order of their names without the suffix, none of them twice.
HooksAsDocumented ==
  /\ when = "COMMIT" => Ran("PRE") = CalledFor("PRE")
  /\ when = "END" /\ committed /\ ~LoadFails => Ran("POST") = CalledFor("POST")
  /\ \A j, k \in DOMAIN ran : j < k /\ ran[j].when = ran[k].when => strcmp(ran[j].name, ran[k].name) < 0

\* A PreTransaction hook with AbortOnFail whose command did not exit with 0, or could not
\* be started, is the last thing that happens: no other hook runs and nothing is changed,
\* unless the root could not be entered (_klpm_run_chroot() then reports success).
\* PostTransaction hooks are run for a transaction that was committed only.
AbortStops ==
  \A k \in DOMAIN ran :
    /\ ran[k].when = "PRE" /\ ran[k].abort /\ ran[k].end # "ok" /\ w.root
         => k = Len(ran) /\ when \in {"PRE", "END"} /\ ~committed
    /\ ran[k].when = "POST" => committed

\* What a hook with NeedsTargets reads is what its triggers match, in order, each target
\* once and whole however the buffers cut them; a command that reads to the end of its
\* input gets all of it (feed_targets of hook.c, write_to_child of util.c).
TargetsDelivered ==
  stage = "running" /\ when \in {"PRE", "POST"} /\ First.hook.needs =>
    LET h == First.hook
        due == TargetLines(Sorted(Due(h)))
    IN  /\ StartsWith(due, got)
        /\ child = "exited" /\ ReadsAll(h.cmd[1].prog) => got = due

\* When the output has been read the lines reported are what the child wrote, nothing
\* lost, doubled or out of order, long lines cut; only an unfinished last line is reported
\* twice, at the end of the output and after the loop (_klpm_run_chroot()).
OutputComplete ==
  LET shown == Joined([k \in DOMAIN lines |-> lines[k].text \o (IF lines[k].nl THEN <<"nl">> ELSE <<>>)])
  IN  parent = "wait" => shown = said \o ibuf /\ EndsWith(said, ibuf)

\* Nothing that passes between the library and a command is lost, in either direction.
NothingLost == TargetsDelivered /\ OutputComplete

\* When the space is checked, the downloads and every package installed leave the cushion
\* free on each file system they write to, wherever mount points are and though each file
\* is rounded up to whole blocks; and none is touched that is mounted read-only (diskspace.c).
\* Not for mount points statvfs() knows nothing of, and not for the metadata of the packages,
\* which are counted for the root.
RoomLeft ==
  w.checkspace => \A m \in {n \in w.mounts : n.loads} :
    /\ fetched /\ w.fetch # <<>> /\ when = "CHECK" /\ w.wherecache = m.dir => Free(m) >= Cushion(m)
    /\ when = "COMMIT" /\ (\E p \in Range(w.add) : \E f \in p.files \cap DOMAIN w.size : f[1] # "." /\ w.where[f] = m.dir)
         => Free(m) >= Cushion(m)
    /\ m.ro => Stored(disk, m) = Stored(w.stat, m)

\* The transaction comes to an end when the commands do: neither the parent nor a child
\* waits for the other for ever, whatever the child reads, writes and closes.  And no
\* temporary directory is left then, whether a scriptlet could be copied or unpacked and
\* whether it was run (the clean up of _klpm_runscriptlet()).
HooksEnd == <>(when = "END" /\ tmpdir = {})
=============================================================================
