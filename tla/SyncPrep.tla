------------------------------ MODULE SyncPrep ------------------------------
(***************************************************************************)
(* What `kuzpkg -S` and `kuzpkg -U` decide to do: the targets, the system  *)
(* upgrade and the preparation of a transaction that adds packages.        *)
(*   src/kuzpkg/sync.c       kuzpkg_sync, sync_trans, process_target       *)
(*   src/kuzpkg/upgrade.c    kuzpkg_upgrade, load_packages                 *)
(*   lib/libkuzpkg/add.c     klpm_add_pkg                                  *)
(*   lib/libkuzpkg/sync.c    klpm_sync_sysupgrade, _klpm_sync_prepare      *)
(*   lib/libkuzpkg/deps.c    resolvedep, _klpm_resolvedeps, klpm_checkdeps *)
(*   lib/libkuzpkg/conflict.c                                              *)
(* The user answers every question either way.  A package is a record; the *)
(* fields that a transaction writes into it, removes and reason, are kept  *)
(* by database and name.  The recursion of _klpm_resolvedeps is a stack.   *)
(***************************************************************************)
EXTENDS Version

\* What there is and what is asked: pairs of a world, [local, dbs, ignore, assume],
\* and a request, [op, targets, upgrade, flags, proceed].
CONSTANT Cases
\* The versions of the packages and the dependencies.
CONSTANT Versions

VARIABLES
  world, req,
  step,         \* what runs next
  i, j,         \* the loop variables of the step
  retval,       \* a target was in error
  add,          \* trans->add
  removes,      \* pkg->removes, as names of installed packages
  reason,       \* pkg->reason
  remove,       \* trans->remove, as a set of names
  resolved,     \* the packages list of _klpm_resolvedeps
  stack,        \* its activations, the innermost first
  unresolvable, \* trans->unresolvable
  conflicts,    \* conflicts still to look at: <<package1, package2>>
  agreed,       \* history: <<old, new, why>>, the removals that the user agreed to
  asked,        \* history: the targets that the user named
  chosen        \* history: the targets when the preparation begins

given == <<world, req>>
lists == <<add, removes, reason, remove>>
search == <<resolved, stack, unresolvable>>
history == <<agreed, asked, chosen>>
vars == <<given, step, i, j, retval, lists, search, conflicts, history>>

NoPkg == [db |-> 0, name |-> "none", version |-> <<>>, depends |-> <<>>, provides |-> <<>>,
          conflicts |-> <<>>, replaces |-> <<>>, groups |-> {}, explicit |-> FALSE, arch |-> TRUE]

Local == world.local
Dbs == world.dbs
Id(p) == <<p.db, p.name>>
Names(s) == {s[k].name : k \in DOMAIN s}
Without(s, names) == SelectSeq(s, LAMBDA p : p.name \notin names)

\* The first element of s that satisfies Test, or NoPkg.
First(s, Test(_)) ==
  LET hits == SelectSeq(s, Test) IN IF hits = <<>> THEN NoPkg ELSE Head(hits)

klpm_pkg_find(s, n) == First(s, LAMBDA p : p.name = n)

klpm_pkg_should_ignore(p) == ({p.name} \cup p.groups) \cap world.ignore # {}

Put(f, x, v) == [y \in DOMAIN f \cup {x} |-> IF y = x THEN v ELSE f[y]]

-----------------------------------------------------------------------------
(* Dependencies.                                                            *)

\* klpm_pkg_vercmp() as a table.
Compared == {<<a, b, klpm_pkg_vercmp(a, b)>> : a \in Versions, b \in Versions}
vercmp(a, b) == CHOOSE c \in {-1, 0, 1} : <<a, b, c>> \in Compared

\* dep_vercmp(): a dependency is [name, mod, version].
Accepted(mod) ==
  CASE mod = "=" -> {0} [] mod = ">=" -> {0, 1} [] mod = "<=" -> {-1, 0} [] mod = "<" -> {-1} [] mod = ">" -> {1}
dep_vercmp(version, dep) ==
  dep.mod = "any" \/ vercmp(version, dep.version) \in Accepted(dep.mod)

depcmp_literal(p, dep) == p.name = dep.name /\ dep_vercmp(p.version, dep)

\* A provision without a version satisfies only a dependency without one.
depcmp_provides(dep, provisions) ==
  \E k \in DOMAIN provisions : LET q == provisions[k] IN
    /\ q.name = dep.name
    /\ dep.mod = "any" \/ (q.mod = "=" /\ dep_vercmp(q.version, dep))

depcmp(p, dep) == depcmp_literal(p, dep) \/ depcmp_provides(dep, p.provides)

find_dep_satisfier(s, dep) == First(s, LAMBDA p : depcmp(p, dep))
Satisfied(s, dep) == \E k \in DOMAIN s : depcmp(s[k], dep)

AnyVersion(dep) == IF "NODEPVERSION" \in req.flags THEN [dep EXCEPT !.mod = "any"] ELSE dep

Unmet(d, upgrade, dblist) ==
  /\ ~Satisfied(upgrade, d) /\ ~Satisfied(dblist, d)
  /\ ~depcmp_provides(d, world.assume)

\* The installed packages that a transaction takes away or changes.
Modified(pkglist, rem, upgrade) ==
  SelectSeq(pkglist, LAMBDA p : p.name \in rem \cup Names(upgrade))

\* klpm_checkdeps(): the dependencies of upgrade that nothing satisfies and, when
\* reversedeps, those of the packages left alone that lose what satisfied them.
klpm_checkdeps(pkglist, rem, upgrade, reversedeps) ==
  LET dblist == Without(pkglist, rem \cup Names(upgrade))
      examined == upgrade \o (IF reversedeps THEN dblist ELSE <<>>)
      missing(p) == SelectSeq([k \in DOMAIN p.depends |-> AnyVersion(p.depends[k])],
                      LAMBDA d : /\ p.name \in Names(upgrade) \/ Satisfied(Modified(pkglist, rem, upgrade), d)
                                 /\ Unmet(d, upgrade, dblist))
  IN  FlattenSeq([k \in DOMAIN examined |-> missing(examined[k])])

\* resolvedep(): the results it may return, as the user answers.  A literal that
\* is ignored is passed over unless the user is asked and wants it; so is a
\* provider; of the providers an installed one is taken, else the user selects.
Found(p) == [pkg |-> p, err |-> "ok"]

resolvedep(dep, dbs, excluding, prompt) ==
  LET usable == SelectSeq(dbs, LAMBDA db : db.usage \cap {"INSTALL", "UPGRADE"} # {})
      offered == FlattenSeq([k \in DOMAIN usable |-> usable[k].pkgs])
      literals == SelectSeq(offered,
                    LAMBDA p : depcmp_literal(p, dep) /\ p.name \notin excluding)
      providers == SelectSeq(offered,
                    LAMBDA p : /\ p.name # dep.name /\ depcmp_provides(dep, p.provides)
                               /\ p.name \notin excluding)
      accepts(A) == \A p \in Range(providers) :
                      /\ ~klpm_pkg_should_ignore(p) => p \in A
                      /\ klpm_pkg_should_ignore(p) /\ ~prompt => p \notin A
      fromA(A) ==
        LET accepted == SelectSeq(providers, LAMBDA p : p \in A)
            installed == SelectSeq(accepted, LAMBDA p : p.name \in Names(Local))
        IN  IF installed # <<>> THEN {Found(Head(installed))}
            ELSE IF accepted # <<>> THEN {Found(p) : p \in Range(accepted)}
            ELSE {[pkg |-> NoPkg,
                   err |-> IF literals # <<>> \/ providers # <<>> THEN "ignored" ELSE "notfound"]}
  IN  {Found(literals[k]) :
          k \in {n \in DOMAIN literals : /\ \A m \in 1..n - 1 : klpm_pkg_should_ignore(literals[m])
                                         /\ prompt \/ ~klpm_pkg_should_ignore(literals[n])}}
      \cup (IF \A n \in DOMAIN literals : klpm_pkg_should_ignore(literals[n])
            THEN UNION {fromA(A) : A \in {X \in SUBSET Range(providers) : accepts(X)}}
            ELSE {})

-----------------------------------------------------------------------------
(* The targets.                                                             *)

SyncInit ==
  /\ \E c \in Cases : world = c[1] /\ req = c[2]
  /\ step = "start" /\ i = 1 /\ j = 1 /\ retval = FALSE
  /\ add = <<>> /\ remove = {}
  /\ removes = [x \in {} |-> <<>>] /\ reason = [x \in {} |-> "DEPEND"]
  /\ resolved = <<>> /\ stack = <<>> /\ unresolvable = <<>>
  /\ conflicts = <<>> /\ agreed = {} /\ asked = {} /\ chosen = <<>>

\* kuzpkg_sync() refuses databases that are not valid; kuzpkg_upgrade() does not
\* look at the answer of the same check.
start ==
  /\ step = "start"
  /\ step' = IF req.op = "S" /\ \E k \in DOMAIN Dbs : Dbs[k].status = "invalid"
             THEN "failed" ELSE "targets"
  /\ UNCHANGED <<given, i, j, retval, lists, search, conflicts, history>>

\* NEEDED: the package is installed in this version.
UpToDate(p) ==
  LET l == klpm_pkg_find(Local, p.name) IN
  "NEEDED" \in req.flags /\ l # NoPkg /\ vercmp(p.version, l.version) = 0

\* klpm_add_pkg() on t, a record of the variables it may change.
klpm_add_pkg(t, p) ==
  LET dup == klpm_pkg_find(t.add, p.name) IN
  IF dup = p THEN t
  ELSE IF dup # NoPkg THEN [t EXCEPT !.retval = TRUE]
  ELSE IF UpToDate(p) THEN t
  ELSE [t EXCEPT !.add = Append(@, p), !.reason = Put(@, Id(p), "EXPLICIT")]

\* klpm_find_group_pkgs(): of each name the first package decides.  The user may
\* take any that are ignored, and then any of what is left.
GroupMembers(dbs, g) ==
  SelectSeq(FlattenSeq([k \in DOMAIN dbs |-> dbs[k].pkgs]), LAMBDA p : g \in p.groups)
GroupChoices(dbs, g) ==
  LET members == GroupMembers(dbs, g)
      first == {members[k] : k \in {n \in DOMAIN members :
                 \A m \in 1..n - 1 : members[m].name # members[n].name}}
      usable == {p \in first : ~UpToDate(p)}
  IN  {SelectSeq(members, LAMBDA p : p \in S) : S \in SUBSET usable}

\* process_group(): the picked packages in turn until one is in error; nothing
\* when a target before was in error.
process_group(t, dbs, g, picked) ==
  IF GroupMembers(dbs, g) = <<>> THEN [t EXCEPT !.retval = TRUE]
  ELSE IF t.retval THEN t
  ELSE FoldLeft(LAMBDA u, p : IF u.retval THEN u ELSE klpm_add_pkg(u, p), t, picked)

\* The databases that a target is looked for in: all, or the one of `repo/name`,
\* which may then be installed from.
DbsOf(t) == IF t.db = 0 THEN Dbs ELSE <<[Dbs[t.db] EXCEPT !.usage = @ \cup {"INSTALL"}]>>

process_target ==
  /\ step = "targets" /\ req.op = "S" /\ i <= Len(req.targets)
  /\ LET g == req.targets[i]
         t == [add |-> add, reason |-> reason, retval |-> retval]
         results(r) ==
           CASE r.err = "ok" -> {klpm_add_pkg(t, r.pkg)}
             [] r.err = "ignored" -> {t}
             [] OTHER -> {process_group(t, DbsOf(g), g.dep.name, picked) :
                            picked \in GroupChoices(DbsOf(g), g.dep.name)}
     IN  \E r \in resolvedep(g.dep, DbsOf(g), {}, TRUE) : \E u \in results(r) :
           add' = u.add /\ reason' = u.reason /\ retval' = u.retval
  /\ i' = i + 1
  /\ UNCHANGED <<given, step, j, removes, remove, search, conflicts, history>>

\* load_packages() of `kuzpkg -U`: a file that does not load is an error, and so is
\* a second package of a name, the same file again included.
load_package ==
  /\ step = "targets" /\ req.op = "U" /\ i <= Len(req.targets)
  /\ LET p == req.targets[i]
         t == [add |-> add, reason |-> reason, retval |-> retval]
         u == IF p.name \in Names(add) THEN [t EXCEPT !.retval = TRUE] ELSE klpm_add_pkg(t, p)
     IN  \/ add' = u.add /\ reason' = u.reason /\ retval' = u.retval
         \/ retval' = TRUE /\ UNCHANGED <<add, reason>>
  /\ i' = i + 1
  /\ UNCHANGED <<given, step, j, removes, remove, search, conflicts, history>>

targets_done ==
  /\ step = "targets" /\ i > Len(req.targets)
  /\ step' = CASE retval -> "failed" [] req.upgrade > 0 -> "upgrade" [] OTHER -> "prepare"
  /\ i' = 1 /\ asked' = Range(add)
  /\ UNCHANGED <<given, j, retval, lists, search, conflicts, agreed, chosen>>

-----------------------------------------------------------------------------
(* klpm_sync_sysupgrade(), one installed package and one database a step.   *)

check_literal(l, s) ==
  /\ ~klpm_pkg_should_ignore(l) /\ ~klpm_pkg_should_ignore(s)
  /\ LET cmp == vercmp(s.version, l.version) IN cmp > 0 \/ (cmp < 0 /\ req.upgrade = 2)

Replacers(l, db) ==
  SelectSeq(db.pkgs, LAMBDA s :
    /\ \E k \in DOMAIN s.replaces : depcmp_literal(l, s.replaces[k])
    /\ ~klpm_pkg_should_ignore(s) /\ ~klpm_pkg_should_ignore(l))

\* Of the replacers the user agrees to, those that check_replacers() returns: the
\* ones that are not targets yet.
NewReplacers(yes) == Without(yes, Names(add))

\* The others, when they are targets from the same database, get the package
\* appended to what they remove.
OldReplacers(yes) == SelectSeq(yes, LAMBDA s : klpm_pkg_find(add, s.name) = s)

RemovesOf(p) == IF Id(p) \in DOMAIN removes THEN removes[Id(p)] ELSE <<>>

\* check_replacers(), and what the caller adds.
check_replacers(l, yes, literal) ==
  LET new == NewReplacers(yes)
      old == OldReplacers(yes)
      appended == FoldLeft(LAMBDA f, s : Put(f, Id(s), Append(RemovesOf(s), l.name)), removes, old)
      raised == FoldLeft(LAMBDA f, s : IF l.explicit THEN Put(f, Id(s), "EXPLICIT") ELSE f, reason, old)
  IN  /\ add' = add \o new \o literal
      /\ removes' = FoldLeft(LAMBDA f, s : Put(f, Id(s), <<l.name>>), appended, new)
      /\ reason' = FoldLeft(LAMBDA f, s : Put(f, Id(s), IF l.explicit THEN "EXPLICIT" ELSE "DEPEND"),
                            raised, new)
      /\ agreed' = agreed \cup {<<l.name, s.name, "replace">> : s \in Range(new) \cup Range(old)}

NextLocal == i' = i + 1 /\ j' = 1

\* Mutant: the same database again.
SameDb == i' = i /\ j' = j
NextDb == i' = i /\ j' = j + 1

sysupgrade_skip ==
  /\ step = "upgrade" /\ i <= Len(Local)
  /\ Local[i].name \in remove \cup Names(add) \/ j > Len(Dbs)
  /\ NextLocal
  /\ UNCHANGED <<given, step, retval, lists, search, conflicts, history>>

sysupgrade_db ==
  /\ step = "upgrade" /\ i <= Len(Local) /\ j <= Len(Dbs)
  /\ Local[i].name \notin remove \cup Names(add)
  /\ LET l == Local[i]
         s == klpm_pkg_find(Dbs[j].pkgs, l.name)
     IN  IF "UPGRADE" \notin Dbs[j].usage
         THEN NextDb /\ UNCHANGED <<add, removes, reason, agreed>>
         ELSE \E Y \in SUBSET Range(Replacers(l, Dbs[j])) :
                LET yes == SelectSeq(Replacers(l, Dbs[j]), LAMBDA p : p \in Y)
                    new == NewReplacers(yes)
                IN  /\ check_replacers(l, yes, IF new = <<>> /\ s # NoPkg /\ check_literal(l, s)
                                               THEN <<s>> ELSE <<>>)
                    /\ IF new # <<>> \/ s # NoPkg THEN NextLocal ELSE NextDb
  /\ UNCHANGED <<given, step, retval, remove, search, conflicts, asked, chosen>>

sysupgrade_done ==
  /\ step = "upgrade" /\ i > Len(Local)
  /\ step' = "prepare" /\ i' = 1
  /\ UNCHANGED <<given, j, retval, lists, search, conflicts, history>>

-----------------------------------------------------------------------------
(* klpm_trans_prepare() and _klpm_sync_prepare().                           *)

BadDb == \E k \in DOMAIN Dbs :
           \/ Dbs[k].status = "invalid"
           \/ Dbs[k].status = "missing" /\ req.op = "S"

trans_prepare ==
  /\ step = "prepare"
  /\ step' = CASE add = <<>> -> "nothing"
              [] (\E k \in DOMAIN add : ~add[k].arch) \/ BadDb -> "failed"
              [] "NODEPS" \in req.flags -> "look"
              [] OTHER -> "resolve"
  /\ chosen' = add
  /\ UNCHANGED <<given, i, j, retval, lists, search, conflicts, agreed, asked>>

\* The lists that _klpm_resolvedeps() is given.
localpkgs == Without(Local, Names(add))
rem == remove \cup UNION {Range(RemovesOf(add[k])) : k \in DOMAIN add}
db_local == [usage |-> {"INSTALL", "UPGRADE"}, pkgs |-> Local]

\* An activation: the package, the list to go back to on an error, the missing
\* dependencies still to see to, and whether all is well.
activation(p) ==
  [pkg |-> p, copy |-> resolved, deps |-> klpm_checkdeps(localpkgs, rem, <<p>>, FALSE), ok |-> TRUE]

\* A dependency that found no package, or one that failed, may be satisfied by an
\* installed package that stays and is not ignored.
satisfied(f, ok) ==
  [f EXCEPT !.deps = Tail(@),
            !.ok = @ /\ (ok \/ \E r \in resolvedep(Head(f.deps), <<db_local>>, rem, FALSE) : r.err = "ok")]

Resolving == UNCHANGED <<given, step, j, retval, lists, conflicts, history>>

resolve_target ==
  /\ step = "resolve" /\ stack = <<>> /\ i <= Len(add)
  /\ IF add[i].name \in Names(resolved)
     THEN i' = i + 1 /\ UNCHANGED <<resolved, stack>>
     ELSE i' = i /\ stack' = <<activation(add[i])>> /\ resolved' = Append(resolved, add[i])
  /\ UNCHANGED unresolvable
  /\ Resolving

\* The next missing dependency: satisfied by the list, else by a target, else by
\* what the databases offer that is not in the list.
resolve_dep ==
  /\ step = "resolve" /\ stack # <<>> /\ Head(stack).deps # <<>>
  /\ LET f == Head(stack)
         d == Head(f.deps)
         target == find_dep_satisfier(add, d)
         found == IF target # NoPkg THEN {target}
                  ELSE {r.pkg : r \in resolvedep(d, Dbs, Names(resolved), FALSE)}
     IN  IF Satisfied(resolved, d)
         THEN stack' = <<satisfied(f, TRUE)>> \o Tail(stack) /\ UNCHANGED resolved
         ELSE \E p \in found :
                IF p = NoPkg \/ p.name \in Names(resolved)
                THEN stack' = <<satisfied(f, p # NoPkg)>> \o Tail(stack) /\ UNCHANGED resolved
                ELSE stack' = <<activation(p)>> \o stack /\ resolved' = Append(resolved, p)
  /\ UNCHANGED <<i, unresolvable>>
  /\ Resolving

\* Mutant: on an error the package leaves the list and its dependencies stay.
RestoredOne(f) == IF f.ok THEN resolved ELSE Without(resolved, {f.pkg.name})
Restored(f) == IF f.ok THEN resolved ELSE f.copy

Unresolved(f) == IF f.ok THEN unresolvable ELSE Append(unresolvable, f.pkg)

\* An activation returns: to the loop over the targets, or to the dependency of
\* the package that called for it.
resolve_return ==
  /\ step = "resolve" /\ stack # <<>> /\ Head(stack).deps = <<>>
  /\ LET f == Head(stack) IN
     /\ resolved' = Restored(f)
     /\ IF Len(stack) = 1
        THEN /\ stack' = <<>> /\ i' = i + 1
             /\ unresolvable' = Unresolved(f)
        ELSE /\ stack' = <<satisfied(stack[2], f.ok)>> \o Tail(Tail(stack))
             /\ UNCHANGED <<i, unresolvable>>
  /\ Resolving

\* Mutant: what is pulled in keeps the reason it has.
PulledReasonKept == reason
PulledReason ==
  FoldLeft(LAMBDA f, p : IF p.name \in Names(add) THEN f ELSE Put(f, Id(p), "DEPEND"), reason, resolved)

\* All targets are done; the user may go on without the unresolvable ones.
resolve_done ==
  /\ step = "resolve" /\ stack = <<>> /\ i > Len(add)
  /\ \/ /\ step' = "look"
        /\ add' = resolved /\ reason' = PulledReason
     \/ /\ unresolvable # <<>> /\ step' = "failed"
        /\ UNCHANGED <<add, reason>>
  /\ UNCHANGED <<given, i, j, retval, removes, remove, search, conflicts, history>>

\* check_conflict(): the pairs of list1 and list2 in conflict, a pair that is there
\* twice being passed over the second time.  order < 0: the pairs are turned round.
check_conflict(list1, list2, order) ==
  LET against(p, c) == SelectSeq(list2, LAMBDA q : q.name # p.name /\ depcmp(q, c))
      pair(p, q) == IF order >= 0 THEN <<p.name, q.name>> ELSE <<q.name, p.name>>
      pairs(p, c) == [k \in DOMAIN against(p, c) |-> pair(p, against(p, c)[k])]
  IN  FlattenSeq([k \in DOMAIN list1 |->
        FlattenSeq([c \in DOMAIN list1[k].conflicts |-> pairs(list1[k], list1[k].conflicts[c])])])

innerconflicts == check_conflict(add, add, 0)

\* Mutant: the conflicts that installed packages declare are not looked at.
outerconflictsOneWay == check_conflict(add, Without(Local, Names(add)), 1)
outerconflicts ==
  LET dblist == Without(Local, Names(add)) IN
  check_conflict(add, dblist, 1)
  \o check_conflict(dblist, add, -1)

look ==
  /\ step = "look"
  /\ IF "NOCONFLICTS" \in req.flags
     THEN step' = "finish" /\ UNCHANGED conflicts
     ELSE step' = "inner" /\ conflicts' = innerconflicts
  /\ UNCHANGED <<given, i, j, retval, lists, search, history>>

NamedDep(n) == [name |-> n, mod |-> "any", version |-> <<>>]

\* Two targets in conflict: one that provides the other's name stays and the other
\* is dropped, if both are still targets.
inner_conflict ==
  /\ step = "inner" /\ conflicts # <<>>
  /\ LET m == Head(conflicts)[1]
         n == Head(conflicts)[2]
         p == klpm_pkg_find(add, m)
         q == klpm_pkg_find(add, n)
         rsync == CASE NoPkg \in {p, q} -> NoPkg
                    [] NoPkg \notin {p, q} /\ depcmp(p, NamedDep(n)) -> q
                    [] OTHER -> IF depcmp(q, NamedDep(m)) THEN p ELSE NoPkg
     IN  \/ /\ rsync # NoPkg
            /\ add' = Without(add, {rsync.name}) /\ unresolvable' = Append(unresolvable, rsync)
            /\ UNCHANGED step
         \/ /\ rsync = NoPkg
            /\ step' = IF NoPkg \in {p, q} THEN step ELSE "failed"
            /\ UNCHANGED <<add, unresolvable>>
  /\ conflicts' = Tail(conflicts)
  /\ UNCHANGED <<given, i, j, retval, removes, reason, remove, resolved, stack, history>>

inner_done ==
  /\ step = "inner" /\ conflicts = <<>>
  /\ step' = "outer" /\ conflicts' = outerconflicts
  /\ UNCHANGED <<given, i, j, retval, lists, search, history>>

\* A target in conflict with an installed package that stays: the user agrees to
\* its removal or the transaction fails.
outer_conflict ==
  /\ step = "outer" /\ conflicts # <<>>
  /\ LET m == Head(conflicts)[1]
         n == Head(conflicts)[2]
         p == klpm_pkg_find(add, m)
     IN  IF n \in rem THEN UNCHANGED <<step, removes, agreed>>
         ELSE \/ /\ removes' = Put(removes, Id(p), Append(RemovesOf(p), n))
                 /\ agreed' = agreed \cup {<<n, m, "conflict">>}
                 /\ UNCHANGED step
              \/ step' = "failed" /\ UNCHANGED <<removes, agreed>>
  /\ conflicts' = Tail(conflicts)
  /\ UNCHANGED <<given, i, j, retval, add, reason, remove, search, asked, chosen>>

outer_done ==
  /\ step = "outer" /\ conflicts = <<>>
  /\ step' = "finish"
  /\ UNCHANGED <<given, i, j, retval, lists, search, conflicts, history>>

RemoveList == remove \cup UNION {Range(RemovesOf(p)) : p \in Range(add)}

\* The removals, the last check of the dependencies, and the order that
\* _klpm_sortbydeps() gives, which is the subject of SortDeps: any one here.
finish ==
  /\ step = "finish"
  /\ remove' = RemoveList
  /\ IF "NODEPS" \in req.flags
     THEN step' = "prepared" /\ UNCHANGED add
     ELSE IF klpm_checkdeps(Local, RemoveList, add, TRUE) = <<>>
     THEN step' = "prepared" /\ add' \in SetToSeqs(Range(add))
     ELSE step' = "failed" /\ UNCHANGED add
  /\ UNCHANGED <<given, i, j, retval, removes, reason, search, conflicts, history>>

Over == step \in {"prepared", "nothing", "failed"}
over == Over /\ UNCHANGED vars

SyncNext ==
  \/ start \/ process_target \/ load_package \/ targets_done
  \/ sysupgrade_skip \/ sysupgrade_db \/ sysupgrade_done
  \/ trans_prepare \/ resolve_target \/ resolve_dep \/ resolve_return \/ resolve_done
  \/ look \/ inner_conflict \/ inner_done \/ outer_conflict \/ outer_done \/ finish
  \/ over

\* The preparation is sequential code: it goes on as long as it can.
SyncSpec == SyncInit /\ [][SyncNext]_vars /\ WF_vars(SyncNext)

-----------------------------------------------------------------------------
(* Properties.                                                              *)

Prepared == step = "prepared"

\* What is installed once the transaction is carried out: removals come first.
Result == Without(Local, remove \cup Names(add)) \o add

Steps == {"start", "targets", "upgrade", "prepare", "resolve", "look", "inner", "outer",
          "finish", "prepared", "nothing", "failed",
          "keyring", "validity", "load", "loaded", "downloaded", "refused"}

\* The variables have their types; what is removed is installed, and what a
\* package removes is never the package itself.
SyncTypeOK ==
  /\ step \in Steps /\ i \in Nat \ {0} /\ j \in Nat \ {0} /\ retval \in BOOLEAN
  /\ remove \subseteq Names(Local)
  /\ \A x \in DOMAIN removes : Range(removes[x]) \subseteq Names(Local) \ {x[2]}
  /\ \A x \in DOMAIN reason : reason[x] \in {"EXPLICIT", "DEPEND"}
  /\ stack # <<>> => step = "resolve"
  /\ \A k \in DOMAIN conflicts : conflicts[k][1] # conflicts[k][2]

\* A prepared transaction leaves no package it adds without a dependency, and takes
\* from no package it leaves alone a dependency that was satisfied.  The resolver
\* works from a list of installed packages that is out of date by the time it has
\* pulled something in; the check at the end of _klpm_sync_prepare() is what this
\* rests on.
PreparedSound ==
  Prepared /\ "NODEPS" \notin req.flags =>
    LET holds(s, d) == Satisfied(s, AnyVersion(d)) \/ depcmp_provides(AnyVersion(d), world.assume)
    IN  \A k \in DOMAIN Result : \A n \in DOMAIN Result[k].depends :
          \/ holds(Result, Result[k].depends[n])
          \/ Result[k].name \notin Names(add) /\ ~holds(Local, Result[k].depends[n])

\* A prepared transaction leaves no package it adds in conflict with any other,
\* whichever of the two declares the conflict: the conflicts are computed once
\* and then resolved one by one (_klpm_sync_prepare).
ConflictFree ==
  Prepared /\ "NOCONFLICTS" \notin req.flags =>
    \A p \in Range(add), q \in Range(Result) :
      p.name # q.name =>
        /\ \A k \in DOMAIN p.conflicts : ~depcmp(q, p.conflicts[k])
        /\ \A k \in DOMAIN q.conflicts : ~depcmp(p, q.conflicts[k])

\* A prepared transaction takes the system from one consistent state to another.
PreparedConsistent == PreparedSound /\ ConflictFree

\* An installed package is removed only if the user agreed to give it up for a
\* package that the transaction installs: not for one that was dropped later,
\* as unresolvable or in a conflict ("Build trans->remove list").
RemovalIsPaid ==
  Prepared => \A n \in remove : \E p \in Range(add), why \in {"replace", "conflict"} :
                <<n, p.name, why>> \in agreed

\* No two packages of one name are ever added, although targets, replacers, upgrades
\* and dependencies come from several databases that hold the same names.
UniqueTargets ==
  /\ \A k, m \in DOMAIN add : add[k].name = add[m].name => k = m
  /\ \A k, m \in DOMAIN resolved : resolved[k].name = resolved[m].name => k = m

\* What _klpm_resolvedeps() pulled in is reached from the targets through the
\* dependencies of packages that are in the list: the search for a package that
\* turned out to be unresolvable leaves nothing behind ("in which case the
\* [*packages] list will be unmodified by this function").
PullsAreNeeded ==
  step \in {"look", "inner", "outer"} =>
    LET needs(p) == {q \in Range(resolved) : \E k \in DOMAIN p.depends : depcmp(q, AnyVersion(p.depends[k]))}
        reach[n \in 0..Len(resolved)] ==
          IF n = 0 THEN {p \in Range(resolved) : p.name \in Names(chosen)}
          ELSE reach[n - 1] \cup UNION {needs(p) : p \in reach[n - 1]}
    IN  Range(resolved) = reach[Len(resolved)]

\* Every target of the user and of the system upgrade is in the prepared
\* transaction, at least by its name, or in the list of those that were given up.
TargetsKept ==
  Prepared => Names(chosen) \subseteq Names(add) \cup Names(unresolvable)

\* A package in IgnorePkg or IgnoreGroup is added only if the user asked for it:
\* neither the system upgrade nor a dependency brings one in.
IgnoreRespected ==
  \A p \in Range(add) \cup Range(resolved) :
    klpm_pkg_should_ignore(p) => p \in asked \/ step = "targets"

\* The transaction does what was asked for and nothing else: every target, each once,
\* what they need, what the user agreed to remove, and nothing that is ignored.
AsAsked == TargetsKept /\ UniqueTargets /\ PullsAreNeeded /\ RemovalIsPaid /\ IgnoreRespected

\* pkg->reason, where nothing has been written the value that memory is cleared to.
ReasonOf(p) == IF Id(p) \in DOMAIN reason THEN reason[Id(p)] ELSE "EXPLICIT"

\* A package that is new to the system is recorded as explicitly installed if the
\* user named it or if it replaces one that was, and as a dependency otherwise:
\* this decides what a later `-Rs` or `-Qdt` takes for an orphan.
InstallReasons ==
  Prepared =>
    \A p \in Range(add) :
      p.name \notin Names(Local) /\ (p \in Range(chosen) \/ p.name \notin Names(chosen)) =>
        (ReasonOf(p) = "EXPLICIT" <=>
           p \in asked \/ \E l \in Range(Local) : l.explicit /\ <<l.name, p.name, "replace">> \in agreed)

\* klpm_pkg_vercmp() orders versions: the answer does not depend on which of the two
\* is given first, and no three versions go round in a circle (Ordered, in Version);
\* in each chain of examples in vercmp(8) every version is older than all that
\* follow it, and equals the same version with a release (AsDocumented).  And a
\* dependency that is written to the local database and read back is the same,
\* epochs and descriptions included: klpm_dep_compute_string() and then
\* klpm_dep_from_string() (RoundTrips).
VersionOrder == step = "start" => Ordered /\ AsDocumented /\ RoundTrips

\* The preparation comes to an end, whatever dependencies, provisions and conflicts
\* go round in circles.
Terminates == <>Over
=============================================================================
