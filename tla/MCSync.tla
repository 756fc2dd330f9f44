------------------------------- MODULE MCSync -------------------------------
(***************************************************************************)
(* Instances of SyncPrep: two databases, up to four packages of each, and  *)
(* a system with up to three.  Every slot of a world holds one of a few    *)
(* packages, so that the worlds are all the combinations.                  *)
(***************************************************************************)
EXTENDS SyncLoad

\* Versions of packages have a release, those of dependencies have none.
Digit(v) == Codes[v + 6]
Dep(n) == [name |-> n, mod |-> "any", version |-> <<>>]
DepV(n, m, v) == [name |-> n, mod |-> m, version |-> <<Digit(v)>>]

Rel(db, n, v, r) == [NoPkg EXCEPT !.db = db, !.name = n, !.version = <<Digit(v), "-", Digit(r)>>]
Pkg(db, n, v) == Rel(db, n, v, 1)
Needing(p, ds) == [p EXCEPT !.depends = ds]
Providing(p, ds) == [p EXCEPT !.provides = ds]
Against(p, ds) == [p EXCEPT !.conflicts = ds]
Replacing(p, ds) == [p EXCEPT !.replaces = ds]
Explicit(p) == [p EXCEPT !.explicit = TRUE]
In(p, g) == [p EXCEPT !.groups = {g}]

MCVersions == {<<Digit(v)>> : v \in 1..3} \cup {<<Digit(v), "-", Digit(r)>> : v \in 1..3, r \in 1..2}

\* The worlds whose slots hold one of the given sequences of packages each.
Both == {"INSTALL", "UPGRADE"}
Db(u, pkgs) == [usage |-> u, status |-> "valid", pkgs |-> pkgs]
Build(la, lb, lc, ca, cb, cc, cd, ea, eb, usages, ignores) ==
  {[local |-> w[1] \o w[2] \o w[3],
    dbs |-> <<Db(Both, w[4] \o w[5] \o w[6] \o w[7]), Db(w[10], w[8] \o w[9])>>,
    ignore |-> w[11], assume |-> <<>>] :
   w \in la \X lb \X lc \X ca \X cb \X cc \X cd \X ea \X eb \X usages \X ignores}

\* Replacements, upgrades and what is ignored.
UpgradeWorlds ==
  Build({<<Explicit(Pkg(0, "a", 1))>>},
        {<<>>, <<Pkg(0, "b", 1)>>, <<Needing(Pkg(0, "b", 1), <<DepV("a", "<=", 1)>>)>>},
        {<<>>, <<Pkg(0, "c", 2)>>},
        {<<>>, <<Rel(1, "a", 1, 2)>>, <<Needing(Pkg(1, "a", 2), <<Dep("d")>>)>>},
        {<<>>, <<Replacing(Pkg(1, "b", 2), <<DepV("a", "<", 2)>>)>>},
        {<<>>, <<Replacing(Pkg(1, "c", 1), <<Dep("a"), Dep("b")>>)>>,
         <<Replacing(Against(Needing(Pkg(1, "c", 1), <<DepV("b", ">=", 2)>>), <<Dep("a")>>), <<Dep("a")>>)>>},
        {<<>>, <<Pkg(1, "d", 1)>>},
        {<<Pkg(2, "a", 3)>>},
        {<<>>, <<Replacing(Pkg(2, "c", 3), <<Dep("b")>>)>>},
        {{}, Both}, {{}, {"c"}, {"d"}})

\* Dependencies and conflicts of the targets.
InstallWorlds ==
  Build({<<>>, <<Pkg(0, "a", 1)>>},
        {<<>>, <<Needing(Pkg(0, "b", 1), <<DepV("a", "=", 1)>>)>>},
        {<<>>, <<Against(Pkg(0, "c", 1), <<Dep("v")>>)>>},
        {<<Needing(Pkg(1, "a", 2), <<Dep("v")>>)>>,
         <<Needing(Pkg(1, "a", 2), <<DepV("b", ">=", 2)>>)>>,
         <<In(Needing(Pkg(1, "a", 2), <<Dep("d"), Dep("x")>>), "g")>>},
        {<<>>, <<Against(Providing(Pkg(1, "b", 1), <<Dep("v")>>), <<Dep("c")>>)>>,
         <<In(Providing(Needing(Pkg(1, "b", 2), <<Dep("a")>>), <<DepV("v", "=", 1)>>), "g")>>},
        {<<>>, <<Against(Providing(Pkg(1, "c", 2), <<Dep("v"), Dep("b")>>), <<Dep("b")>>)>>},
        {<<Providing(Needing(Pkg(1, "d", 1), <<Dep("x")>>), <<Dep("v")>>)>>,
         <<Against(Needing(Pkg(1, "d", 1), <<Dep("b")>>), <<Dep("a")>>)>>},
        {<<>>},
        {<<>>, <<Pkg(2, "b", 2)>>},
        {{}, Both}, {{}, {"b"}})

Ask(op, ts, u, fs) == [op |-> op, targets |-> ts, upgrade |-> u, flags |-> fs, proceed |-> FALSE]
T(db, n) == [db |-> db, dep |-> Dep(n)]

\* Every flag, group, database status and the files of -U, on a few worlds.
OddWorlds ==
  {[local |-> l,
    dbs |-> <<Db(Both, <<In(Needing(Pkg(1, "a", 2), <<DepV("b", ">=", 3)>>), "g"), In(Pkg(1, "b", 2), "g")>>),
              [usage |-> Both, status |-> st, pkgs |-> <<>>],
              Db({}, <<In(Pkg(3, "b", 1), "g"), In([Pkg(3, "d", 1) EXCEPT !.arch = FALSE], "g")>>)>>,
    ignore |-> ig, assume |-> as] :
   l \in {<<>>, <<Pkg(0, "b", 2)>>, <<Explicit(Pkg(0, "a", 1)), Pkg(0, "b", 3)>>},
   st \in {"valid", "missing", "invalid"},
   ig \in {{}, {"g"}},
   as \in {<<>>, <<DepV("b", "=", 3)>>}}

File(n, v) == Against(Needing(Pkg(9, n, v), <<Dep("b")>>), <<Dep("a")>>)

OddRequests ==
  {Ask("S", <<T(0, "g")>>, 0, fs) : fs \in SUBSET {"NEEDED", "NODEPVERSION"}}
  \cup {Ask("S", <<T(3, "b"), T(0, "a"), T(3, "g")>>, 0, fs) : fs \in {{}, {"NEEDED"}, {"NODEPS"}}}
  \cup {Ask("U", ts, 0, fs) :
          ts \in {<<File("c", 1)>>, <<File("c", 1), File("c", 1)>>, <<File("a", 3), File("c", 1)>>},
          fs \in {{}, {"NODEPS"}, {"NOCONFLICTS"}}}

\* One upgrade that is carried on to the files.
LoadWorld ==
  [local |-> <<Pkg(0, "b", 1)>>,
   dbs |-> <<Db(Both, <<Needing(Pkg(1, "a", 1), <<DepV("b", ">=", 2)>>),
                        Providing(Pkg(1, "b", 2), <<Dep("v")>>)>>)>>,
   ignore |-> {}, assume |-> <<>>]
LoadRequests == {[Ask("S", <<T(0, "a")>>, 0, fs) EXCEPT !.proceed = TRUE] : fs \in {{}, {"DOWNLOADONLY"}}}

\* The file of a package: whole or not, with or without a signature, and in it the
\* package, one with other dependencies, or nothing that loads.
MCFilesOf(p) ==
  [valid : BOOLEAN, sig : BOOLEAN,
   inside : {p, Needing(p, <<Dep("x")>>), Against(p, <<Dep("b"), Dep("a")>>), NoPkg}]

Level(p, o, m) == [package |-> p, optional |-> o, marginal |-> m, unknown |-> m]
MCSettings ==
  {[level |-> l, sum |-> c, sig |-> g, status |-> v[1], validity |-> v[2], gpgme |-> v[3]] :
     l \in {Level(FALSE, FALSE, FALSE), Level(TRUE, FALSE, FALSE), Level(TRUE, FALSE, TRUE), Level(TRUE, TRUE, FALSE)},
     c \in BOOLEAN, g \in BOOLEAN,
     v \in {<<"VALID", "FULL", TRUE>>, <<"VALID", "MARGINAL", TRUE>>, <<"VALID", "NEVER", TRUE>>,
            <<"KEY_EXPIRED", "FULL", TRUE>>, <<"SIG_EXPIRED", "FULL", TRUE>>, <<"VALID", "FULL", FALSE>>}}

MCCases ==
  ({LoadWorld} \X LoadRequests) \cup
  (UpgradeWorlds \X {Ask("S", <<>>, 1, {}), Ask("S", <<T(0, "c")>>, 2, {})})
  \cup (InstallWorlds \X {Ask("S", <<T(0, "a")>>, 0, {}), Ask("S", <<T(2, "b"), T(0, "d")>>, 0, {}),
                           Ask("S", <<T(0, "a"), T(0, "b")>>, 0, {}), Ask("S", <<T(0, "b"), T(0, "c")>>, 0, {}),
                           Ask("S", <<T(0, "v"), T(0, "a")>>, 1, {})})
  \cup (OddWorlds \X OddRequests)
=============================================================================
