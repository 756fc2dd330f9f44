------------------------------- MODULE MCLfs -------------------------------
(***************************************************************************)
(* Two packages that share the directories usr/bin, one of them with two   *)
(* builds; the documented command lines of `create` and the one form of    *)
(* --buildscript that gets past the directory check; one source tree per   *)
(* kind of recipe.  Long sessions of the store start without a `create`,   *)
(* a created package is followed by two commands of the store.             *)
(***************************************************************************)
EXTENDS Lfs

usr == <<"usr">>
bin == <<"usr", "bin">>
MCDirs == {usr, bin}
MCBase == {usr}
MCListing == [foo |-> << <<usr, bin, <<"usr", "bin", "a">>, <<"PKGINFO">>>>,
                         <<usr, bin, <<"usr", "bin", "c">>, <<"PKGINFO">>>> >>,
              bar |-> << <<usr, bin, <<"usr", "bin", "b">>, <<"usr", "s">>, <<"PKGINFO">>>> >>]

Plain == [dir |-> FALSE, script |-> None, system |-> None, abi |-> None,
          output |-> None, nobuild |-> FALSE]
Works == [Plain EXCEPT !.script = "absolute"]

MCInvocations ==
    {Plain, [Plain EXCEPT !.dir = TRUE], [Plain EXCEPT !.script = "my.PKGBUILD"],
     [Plain EXCEPT !.abi = "bogus"],
     Works, [Works EXCEPT !.dir = TRUE], [Works EXCEPT !.nobuild = TRUE],
     [Works EXCEPT !.output = "exists"], [Works EXCEPT !.output = "missing"],
     [Works EXCEPT !.system = "python", !.abi = "lib32"], [Works EXCEPT !.system = "rustc"],
     [Works EXCEPT !.system = "make"], [Works EXCEPT !.system = "other"]}

MCTrees == {{}, {"PKGBUILD", "meson.build"}, {"CMakeLists.txt", "Makefile"},
            {"setup.cfg"}, {"pyproject.toml", "setup.py"}, {"Cargo.toml", "x.py"},
            {"Cargo.toml"}, {"configure.ac", "go.mod"}, {"go.mod"}}

Line(n, v, e) == [name |-> n, version |-> v, eq |-> e]
MCProjects == {<<Line(<<"p">>, <<>>, FALSE), Line(<<>>, <<"1", "-", "a">>, FALSE)>>,
               <<Line(<<"p">>, <<>>, TRUE), Line(<<>>, <<"1", "-", "a">>, TRUE)>>,
               <<Line(<<>>, <<"2">>, TRUE)>>}

MCNext == LfsNext /\ (creates' > 0 => cmds' <= 2) /\ (creates' > creates => cmds = 0)
MCSpec == LfsInit /\ [][MCNext]_<<storeVars, createVars>>
=============================================================================
