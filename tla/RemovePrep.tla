----------------------------- MODULE RemovePrep -----------------------------
(***************************************************************************)
(* The preparation of a removal: klpm_trans_prepare for a transaction that *)
(* adds nothing.                                                           *)
(*   lib/libkuzpkg/remove.c  _klpm_remove_prepare, the cascade and the     *)
(*                           keep-needed loop                              *)
(*   lib/libkuzpkg/deps.c    klpm_checkdeps (reverse half),                *)
(*                           _klpm_recursedeps, then _klpm_sortbydeps      *)
(* trans->remove is the variable targets of SortDeps.  Packages are numbers *)
(* in the order of the package cache.  A dependency is the set of installed *)
(* packages that satisfy it; when that set is empty it is broken already.  *)
(***************************************************************************)
EXTENDS SortDeps, FiniteSetsExt

CONSTANTS
  Requests,  \* what is asked: [deps, explicit, flags, targets]
  Additions, \* lists of packages to add that are only sorted: [deps, targets]
  DupFails   \* may _klpm_pkg_dup fail?

VARIABLES
  deps,       \* deps[p]: the dependencies of p
  explicit,   \* the packages with reason EXPLICIT
  flags,      \* of the transaction
  asked,      \* history: the targets the user named
  lp,         \* the missing dependencies
  keep, rem,  \* the lists of _klpm_recursedeps
  k,          \* its loop variable
  step        \* the next step of the preparation, "sort" once it is done

given    == <<deps, explicit, flags, asked>>
recurse  == <<keep, rem, k>>
prepvars == <<given, lp, recurse, step>>
allvars  == <<vars, prepvars>>

Flags == {"CASCADE", "RECURSE", "RECURSEALL", "UNNEEDED", "NODEPS"}
Steps == {"prepare", "select_targs", "select_rem", "select_keep", "copy", "check",
          "cascade", "keep_needed", "sort", "unsorted", "failed"}

\* The members of list s that are in S, in their order.
Filter(s, S) ==
  LET f[n \in 0..Len(s)] == IF n = 0 THEN <<>>
                            ELSE IF s[n] \in S THEN Append(f[n - 1], s[n])
                            ELSE f[n - 1]
  IN  f[Len(s)]

\* The package cache, and the cache without list T.
Cache == [n \in 1..Cardinality(Pkgs) |-> n]
Rest(T) == Filter(Cache, Pkgs \ Elems(T))

\* What klpm_trans_prepare can be called with: a list of installed packages, none of
\* them twice, and not an empty one (it returns at once).
List(s) == s \in Seq(Pkgs) /\ Unique(s) /\ s # <<>>
ASSUME PrepAssumption ==
  /\ Cardinality(Pkgs) \in Nat /\ Pkgs = 1..Cardinality(Pkgs)
  /\ \A r \in Requests : /\ r.deps \in [Pkgs -> SUBSET SUBSET Pkgs] /\ r.explicit \subseteq Pkgs
                         /\ r.flags \subseteq Flags /\ List(r.targets)
  /\ \A r \in Additions : r.deps \in [Pkgs -> SUBSET SUBSET Pkgs] /\ List(r.targets)

\* A removal begins, or the sorting of a list that _klpm_sync_prepare has made.
PrepInit ==
  /\ \/ \E r \in Requests :
          /\ deps = r.deps /\ explicit = r.explicit /\ flags = r.flags
          /\ targets = r.targets /\ asked = r.targets /\ reverse = TRUE
          /\ localpkgs = <<>> /\ step = "prepare"
     \/ \E r \in Additions :
          /\ deps = r.deps /\ explicit = {} /\ flags = {}
          /\ targets = r.targets /\ asked = <<>> /\ reverse = FALSE
          /\ localpkgs = Rest(targets) /\ step = "sort"
  /\ depends = [p \in Pkgs |-> UNION deps[p]]
  /\ vertices = targets /\ iterator = [p \in Pkgs |-> <<>>] /\ i = 1 /\ j = 1
  /\ path = <<>> /\ state = [p \in Pkgs |-> "UNPROCESSED"]
  /\ newtargs = <<>> /\ pc = "vertices"
  /\ lp = {} /\ keep = <<>> /\ rem = <<>> /\ k = 1

DependsOn(p, q) == \E d \in deps[p] : q \in d
-----------------------------------------------------------------------------
(* klpm_checkdeps(pkgcache, remove, NULL, 1).                              *)

\* Does removing R leave d without a satisfier that it has now?
Missing(R, d) == d \cap R # {} /\ d \subseteq R

\* find_dep_satisfier: the first of R that satisfies d.
Satisfier(R, d) == Min(d \cap R)

checkdeps(R) ==
  UNION {{[target |-> p, causingpkg |-> Satisfier(R, d)] : d \in {e \in deps[p] : Missing(R, e)}} :
           p \in Pkgs \ R}

-----------------------------------------------------------------------------
(* _klpm_recursedeps.                                                      *)

\* Mutant: the reason is not looked at.
MovesAny(p, all, q) == DependsOn(p, q)
\* _klpm_select_depends: which of list s does p move?
Moves(p, all, q) == (all \/ q \notin explicit) /\ DependsOn(p, q)
Moved(s, p, all)  == Filter(s, {q \in Pkgs : Moves(p, all, q)})
Stays(s, p, all)  == Filter(s, {q \in Pkgs : ~Moves(p, all, q)})

IncludeExplicit == "RECURSEALL" \in flags

StartRecurse(T) ==
  step' = "select_targs" /\ k' = 1 /\ rem' = <<>> /\ keep' = Rest(T)

select_targs ==
  /\ step = "select_targs"
  /\ \/ /\ k <= Len(targets) /\ k' = k + 1
        /\ rem' = rem \o Moved(keep, targets[k], IncludeExplicit)
        /\ keep' = Stays(keep, targets[k], IncludeExplicit)
        /\ UNCHANGED step
     \/ /\ k > Len(targets) /\ k' = 1 /\ step' = "select_rem"
        /\ UNCHANGED <<keep, rem>>
  /\ UNCHANGED <<vars, given, lp>>

select_rem ==
  /\ step = "select_rem"
  /\ \/ /\ k <= Len(rem) /\ k' = k + 1
        /\ rem' = rem \o Moved(keep, rem[k], IncludeExplicit)
        /\ keep' = Stays(keep, rem[k], IncludeExplicit)
        /\ UNCHANGED step
     \/ /\ k > Len(rem) /\ k' = 1 /\ step' = "select_keep"
        /\ UNCHANGED <<keep, rem>>
  /\ UNCHANGED <<vars, given, lp>>

\* The list grows while it is gone through.
KeepLoops(n) == n <= Len(keep) /\ rem # <<>>

select_keep ==
  /\ step = "select_keep"
  /\ \/ /\ KeepLoops(k) /\ k' = k + 1
        /\ keep' = keep \o Moved(rem, keep[k], TRUE)
        /\ rem' = Stays(rem, keep[k], TRUE)
        /\ UNCHANGED step
     \/ /\ ~KeepLoops(k) /\ k' = 1 /\ step' = "copy"
        /\ UNCHANGED <<keep, rem>>
  /\ UNCHANGED <<vars, given, lp>>

-----------------------------------------------------------------------------
(* _klpm_remove_prepare, and the sorting in klpm_trans_prepare.            *)

search == <<depends, reverse, iterator, i, j, path, state, newtargs, pc>>

ToSort(T) ==
  /\ targets' = T
  /\ IF "NODEPS" \in flags \/ T = <<>>
       THEN step' = "unsorted" /\ UNCHANGED <<vertices, localpkgs>>
       ELSE step' = "sort" /\ vertices' = T /\ localpkgs' = Rest(T)

\* What follows the check of dependencies: -Rcs is -Rc, then -Rs.
AfterCheck(T) ==
  IF {"CASCADE", "RECURSE"} \subseteq flags
    THEN StartRecurse(T) /\ targets' = T /\ UNCHANGED <<vertices, localpkgs>>
    ELSE ToSort(T) /\ UNCHANGED recurse

prepare ==
  /\ step = "prepare"
  /\ IF "RECURSE" \in flags /\ "CASCADE" \notin flags
       THEN StartRecurse(targets)
       ELSE step' = "check" /\ UNCHANGED recurse
  /\ UNCHANGED <<vars, given, lp>>

\* The end of _klpm_recursedeps.  A copy that fails leaves those before it.
copy ==
  /\ step = "copy"
  /\ \/ IF "CASCADE" \in flags THEN ToSort(targets \o rem)
        ELSE /\ step' = "check" /\ targets' = targets \o rem
             /\ UNCHANGED <<vertices, localpkgs>>
     \/ /\ DupFails /\ step' = "failed"
        /\ \E n \in 0..(Len(rem) - 1) : targets' = targets \o SubSeq(rem, 1, n)
        /\ UNCHANGED <<vertices, localpkgs>>
  /\ UNCHANGED <<search, given, lp, recurse>>

check ==
  /\ step = "check"
  /\ lp' = IF "NODEPS" \in flags THEN {} ELSE checkdeps(Elems(targets))
  /\ IF lp' = {} THEN AfterCheck(targets)
     ELSE /\ step' = CASE "CASCADE" \in flags  -> "cascade"
                       [] "CASCADE" \notin flags /\ "UNNEEDED" \in flags -> "keep_needed"
                       [] OTHER -> "failed"
          /\ UNCHANGED <<targets, vertices, localpkgs, recurse>>
  /\ UNCHANGED <<search, given>>

\* Mutant: one round only.
AgainNot(T) == lp' = {} /\ AfterCheck(T)
\* A loop of remove_prepare_cascade or remove_prepare_keep_needed has changed the
\* targets to T and checks again.
Again(T) ==
  /\ lp' = checkdeps(Elems(T))
  /\ IF lp' = {} THEN AfterCheck(T)
     ELSE targets' = T /\ UNCHANGED <<step, vertices, localpkgs, recurse>>

cascade ==
  /\ step = "cascade"
  /\ LET new == Filter(Cache, {m.target : m \in lp} \ Elems(targets)) IN
       \/ Again(targets \o new)
       \/ /\ DupFails /\ step' = "failed" /\ UNCHANGED <<lp, recurse, vertices, localpkgs>>
          /\ \E n \in 0..(Len(new) - 1) : targets' = targets \o SubSeq(new, 1, n)
  /\ UNCHANGED <<search, given>>

\* Mutant: the package whose dependency breaks is looked for among the targets.
GivenUpTarget(p) == \E m \in lp : p = m.target
GivenUp(p) == \E m \in lp : p = m.causingpkg

keep_needed ==
  /\ step = "keep_needed"
  /\ Again(Filter(targets, {p \in Pkgs : ~GivenUp(p)}))
  /\ UNCHANGED <<search, given>>

sortbydeps == step = "sort" /\ Next /\ UNCHANGED prepvars

Finished ==
  /\ pc = "done" \/ step \in {"unsorted", "failed"}
  /\ UNCHANGED allvars

PrepNext ==
  \/ prepare \/ select_targs \/ select_rem \/ select_keep \/ copy \/ check
  \/ cascade \/ keep_needed \/ sortbydeps

PrepSpec == PrepInit /\ [][PrepNext \/ Finished]_allvars /\ WF_allvars(PrepNext)

-----------------------------------------------------------------------------
(* Properties.                                                             *)

\* The types; and no package is twice among the targets, or both kept and selected.
PrepTypeOK ==
  /\ TypeOK /\ Unique(targets)
  /\ deps \in [Pkgs -> SUBSET SUBSET Pkgs] /\ explicit \subseteq Pkgs
  /\ flags \subseteq Flags /\ asked \in Seq(Pkgs)
  /\ lp \subseteq [target : Pkgs, causingpkg : Pkgs]
  /\ keep \in Seq(Pkgs) /\ rem \in Seq(Pkgs) /\ Unique(keep) /\ Unique(rem)
  /\ Elems(keep) \cap Elems(rem) = {}
  /\ k \in Nat \ {0} /\ step \in Steps

Prepared == pc = "done" \/ step = "unsorted"
Removed  == Elems(targets)
\* Some package satisfies d now, and none does once R is removed.
Breaks(R, d) == d # {} /\ d \subseteq R
Named    == Elems(asked)

\* A removal that is prepared with its dependencies checked leaves no package
\* without a dependency that it has now: over cascade, recursion, unneeded and every
\* combination of them (_klpm_remove_prepare).
NothingBroken ==
  asked # <<>> /\ Prepared /\ "NODEPS" \notin flags =>
    \A p \in Pkgs \ Removed : \A d \in deps[p] : ~Breaks(Removed, d)

\* kuzpkg(8), --cascade: "Remove all target packages, as well as all packages that
\* depend on one or more target packages.  This operation is recursive": exactly
\* the least set that contains the targets and breaks nothing.
CascadeIsLeast ==
  Prepared /\ flags = {"CASCADE"} =>
    LET Safe(C) == \A p \in Pkgs \ C : \A d \in deps[p] : ~Breaks(C, d) IN
    \A C \in SUBSET Pkgs : Named \subseteq C /\ Safe(C) => Removed \subseteq C

\* kuzpkg(8), --recursive: the targets and "all of their dependencies, provided that
\* (A) they are not required by other packages; and (B) they were not explicitly
\* installed by the user": exactly the largest such set.
Optional(X) ==
  \* X can be removed with the targets: each of X is reached from a target, and
  \* nothing that stays depends on X.
  /\ \A x \in X : "RECURSEALL" \in flags \/ x \notin explicit
  /\ \A p \in Pkgs \ (Named \cup X), x \in X : ~DependsOn(p, x)
  /\ \A Y \in SUBSET X : Y # {} => \E p \in (Named \cup X) \ Y, x \in Y : DependsOn(p, x)
RecurseIsLargest ==
  Prepared /\ "RECURSE" \in flags /\ flags \subseteq {"RECURSE", "RECURSEALL", "NODEPS"} =>
    /\ Optional(Removed \ Named)
    /\ \A X \in SUBSET (Pkgs \ Named) : Optional(X) => X \subseteq Removed

\* kuzpkg(8), --unneeded, "Removes targets that are not required by any other
\* packages": a target is given up only if a package that stays depends on it.
UnneededKeeps ==
  Prepared /\ flags = {"UNNEEDED"} =>
    /\ Removed \subseteq Named
    /\ \A p \in Named \ Removed : \E r \in Pkgs \ Removed : DependsOn(r, p)

\* What the options select is what the manual says of them.
SelectedAsDocumented == CascadeIsLeast /\ RecurseIsLargest /\ UnneededKeeps

\* Every preparation comes to an end, on cyclic dependencies too.
Terminates == <>(Prepared \/ step = "failed")
=============================================================================
